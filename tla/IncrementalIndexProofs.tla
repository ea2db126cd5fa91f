------------------------ MODULE IncrementalIndexProofs ------------------------
(***************************************************************************)
(* Proofs about IncrementalIndex, for any files, sources, references and   *)
(* rules, any page size and any number of writes and indexes.              *)
(***************************************************************************)
EXTENDS IncrementalIndex, TLAPS, FiniteSetTheorems, WellFoundedInduction

(* What an index of the disk would find now, and make of p.                *)
Found == DiscoverStream(Selectable(disk))

OnDisk(p) == IF p \in DOMAIN Found THEN Extracted(p, Found[p]) ELSE Absent

(* The paths that a batch will look at, or looks at.                       *)
Awaited == pending \cup batch.changed

Resolving == {"changed", "affected", "publish"}

(* How far the publisher call and the session are.                         *)
StageInv ==
  /\ batch.at = "idle" => batch.changed = {}
  /\ batch.at = "indexing" <=> session.owner = "batch"
  /\ session.extracted => session.owner # "none"
  /\ batch.at \in Resolving => graph.version > 0

(* Only sources have contributions.                                        *)
SupportedInv ==
  \A p \in Paths \ Supported :
    graph.sources[p] = Absent /\ session.sources[p] = Absent /\ batch.base.sources[p] = Absent

(* The graph differs from the disk only where a batch will look, except    *)
(* for what a rule changed and no index has seen.                          *)
GraphInv ==
  graph.version > 0 =>
    \A p \in Paths :
      /\ ruled[p] # "unseen" /\ (session.extracted => ruled[p] = "no")
      /\ Live(graph.sources[p]) # OnDisk(p)
      => p \in Awaited

(* So does what a session has extracted, and its batch is no excuse.       *)
SessionInv ==
  session.extracted =>
    \A p \in Paths :
      ruled[p] # "unseen" /\ session.sources[p] # OnDisk(p)
      => p \in pending \/ (session.owner = "index" /\ p \in batch.changed)

(* So do the snapshots that a batch has opened.                            *)
SnapshotInv ==
  \A p \in Paths :
    ruled[p] = "no" =>
      /\ batch.at \in Resolving /\ Live(batch.base.sources[p]) # OnDisk(p) => p \in Awaited
      /\ /\ batch.at # "idle" /\ batch.previous.version > 0
         /\ Live(batch.previous.sources[p]) # OnDisk(p)
         => p \in Awaited

(* What a batch has discovered is so still, or the path is queued again.   *)
DiscoveredInv ==
  batch.at \in {"open"} \cup Resolving =>
    \A p \in Paths :
      ruled[p] # "unseen" /\ ProjectOf(batch.discovered, p) # ProjectOf(Found, p) => p \in pending

(* So is what it has extracted, and this is all it was told of.            *)
UpdateInv ==
  batch.at \in {"affected", "publish"} =>
    /\ \A p \in DOMAIN batch.update :
         ruled[p] # "unseen" /\ batch.update[p] # OnDisk(p) => p \in pending
    /\ \A p \in batch.removed : ruled[p] # "unseen" /\ OnDisk(p) # Absent => p \in pending
    /\ batch.changed \cap Supported \subseteq DOMAIN batch.update \cup batch.removed

IndexInv ==
  /\ TypeOK
  /\ StageInv
  /\ EdgesOfCurrentSources
  /\ SupportedInv
  /\ GraphInv
  /\ SessionInv
  /\ SnapshotInv
  /\ DiscoveredInv
  /\ UpdateInv

-----------------------------------------------------------------------------
(* Discovery                                                               *)

(* The elements of a sequence are finitely many.                           *)
LEMMA ToSetFinite ==
  ASSUME NEW S, NEW s \in Seq(S)
  PROVE  IsFiniteSet(ToSet(s)) /\ ToSet(s) \subseteq S
<1>1. IsFiniteSet(1..Len(s)) /\ Len(s) \in Nat
  BY FS_Interval
<1>2. s \in Surjection(1..Len(s), ToSet(s))
  BY <1>1 DEF Surjection, ToSet
<1> QED
  BY <1>1, <1>2, FS_Surjection DEF ToSet

(* Of finitely many things with a number, one has the greatest.            *)
LEMMA GreatestExists ==
  ASSUME NEW S, IsFiniteSet(S), S # {}, NEW size, \A x \in S : size[x] \in Nat
  PROVE  \E x \in S : \A y \in S : size[y] <= size[x]
<1> DEFINE Above(x) == {y \in S : size[y] > size[x]}
<1> DEFINE T == {Above(x) : x \in S}
<1>1. T \subseteq FiniteSubsetsOf(S) /\ T # {}
  <2>1. \A x \in S : Above(x) \subseteq S
    OBVIOUS
  <2>2. \A x \in S : IsFiniteSet(Above(x))
    BY <2>1, FS_Subset
  <2> QED
    BY <2>1, <2>2 DEF FiniteSubsetsOf
<1>2. PICK t \in T : \A u \in T : ~(<<u, t>> \in StrictSubsetOrdering(S))
  BY <1>1, FS_StrictSubsetOrderingWellFounded, WFMin
<1>3. PICK x \in S : t = Above(x)
  BY <1>2
<1>4. ASSUME NEW y \in S, ~(size[y] <= size[x])
      PROVE  FALSE
  <2>1. y \in Above(x) /\ y \notin Above(y)
    BY <1>4
  <2>2. Above(y) \subseteq Above(x)
    BY <1>4
  <2>3. <<Above(y), t>> \in StrictSubsetOrdering(S)
    BY <1>1, <1>3, <2>1, <2>2 DEF StrictSubsetOrdering
  <2> QED
    BY <1>2, <2>3
<1> QED
  BY <1>4

(* And one has the least.                                                  *)
LEMMA LeastExists ==
  ASSUME NEW S, IsFiniteSet(S), S # {}, NEW size, \A x \in S : size[x] \in Nat
  PROVE  \E x \in S : \A y \in S : size[x] <= size[y]
<1>1. PICK g \in S : \A y \in S : size[y] <= size[g]
  BY GreatestExists
<1> DEFINE below == [x \in S |-> size[g] - size[x]]
<1>2. \A x \in S : below[x] \in Nat /\ below[x] = size[g] - size[x]
  BY <1>1
<1> HIDE DEF below
<1>3. PICK x \in S : \A y \in S : below[y] <= below[x]
  BY <1>2, GreatestExists
<1> QED
  BY <1>2, <1>3

(* The directories of a file that are roots are finitely many.             *)
LEMMA RootsFinite ==
  ASSUME NEW p \in Paths, NEW roots \in SUBSET Directories
  PROVE  IsFiniteSet(RootsAbove(roots, p)) /\ RootsAbove(roots, p) \subseteq Directories
<1>1. IsFiniteSet(ToSet(DirectoriesAbove[p]))
  BY ToSetFinite, DiscoveryAssumption
<1>2. IsFiniteSet({Top} \cup ToSet(DirectoriesAbove[p]))
  BY <1>1, FS_Singleton, FS_Union
<1>3. RootsAbove(roots, p) \subseteq {Top} \cup ToSet(DirectoriesAbove[p])
  BY DEF RootsAbove
<1>4. RootsAbove(roots, p) \subseteq Directories
  BY DEF RootsAbove
<1> QED
  BY <1>2, <1>3, <1>4, FS_Subset

(* The most specific root is the longest, and the first of this length.    *)
LEMMA MostSpecific ==
  ASSUME NEW p \in Paths, NEW roots \in SUBSET Directories, RootsAbove(roots, p) # {}
  PROVE  /\ mostSpecificRoot(p, roots) \in RootsAbove(roots, p)
         /\ \A e \in RootsAbove(roots, p) :
              /\ Length[e] <= Length[mostSpecificRoot(p, roots)]
              /\ Length[e] = Length[mostSpecificRoot(p, roots)] =>
                   SortRank[mostSpecificRoot(p, roots)] <= SortRank[e]
<1> DEFINE longest == {d \in RootsAbove(roots, p) :
                         \A e \in RootsAbove(roots, p) : Length[e] <= Length[d]}
<1>1. RootsAbove(roots, p) \subseteq Directories /\ IsFiniteSet(RootsAbove(roots, p))
  BY RootsFinite
<1>2. \A d \in RootsAbove(roots, p) : Length[d] \in Nat
  BY <1>1, LengthAssumption
<1>3. longest # {}
  BY <1>1, <1>2, GreatestExists
<1>4. IsFiniteSet(longest) /\ \A d \in longest : SortRank[d] \in Nat
  <2>1. longest \subseteq RootsAbove(roots, p)
    OBVIOUS
  <2> QED
    BY <1>1, <2>1, FS_Subset, OrderAssumption
<1>5. PICK root : root = mostSpecificRoot(p, roots)
  OBVIOUS
<1>6. root \in longest /\ \A e \in longest : SortRank[root] <= SortRank[e]
  <2>1. root = CHOOSE d \in longest : \A e \in longest : SortRank[d] <= SortRank[e]
    BY <1>5 DEF mostSpecificRoot
  <2> HIDE DEF longest
  <2>2. \E d \in longest : \A e \in longest : SortRank[d] <= SortRank[e]
    BY <1>3, <1>4, LeastExists
  <2> QED
    BY <2>1, <2>2
<1>7. ASSUME NEW e \in RootsAbove(roots, p), Length[e] = Length[root] PROVE e \in longest
  BY <1>6, <1>7
<1> QED
  BY <1>5, <1>6, <1>7

(* A file below a root belongs to one of the roots.                        *)
LEMMA ProjectType ==
  ASSUME NEW p \in Paths, NEW roots \in SUBSET Directories, RootsAbove(roots, p) # {}
  PROVE  mostSpecificRoot(p, roots) \in Directories
BY MostSpecific, RootsFinite

(* What is discovered is a source on disk, and has a project.              *)
LEMMA DiscoverType ==
  ASSUME NEW files
  PROVE  /\ DiscoverStream(files) \in Listing(Directories)
         /\ \A p \in DOMAIN DiscoverStream(files) : files[p] # Absent
<1> DEFINE rules == loadGitIgnoreRules(files)
<1> DEFINE roots == projectRoots(files, rules)
<1>1. roots \in SUBSET Directories
  BY DiscoveryAssumption DEF projectRoots
<1> DEFINE sources == {p \in Paths : /\ files[p] # Absent /\ supportedSource(p)
                                     /\ ~sourceExcluded(rules, ReadSourceSelection(files), p)
                                     /\ RootsAbove(roots, p) # {}}
<1>2. sources \subseteq Supported
  BY DiscoveryAssumption DEF supportedSource, Supported
<1>3. \A p \in sources : mostSpecificRoot(p, roots) \in Directories
  BY <1>1, ProjectType
<1>4. DiscoverStream(files) = [p \in sources |-> mostSpecificRoot(p, roots)]
  BY DEF DiscoverStream
<1> HIDE DEF roots
<1>5. DiscoverStream(files) \in [sources -> Directories]
  BY <1>3, <1>4
<1>6. DOMAIN DiscoverStream(files) = sources
  BY <1>4
<1> QED
  BY <1>2, <1>5, <1>6 DEF Listing

-----------------------------------------------------------------------------
(* Resolution                                                              *)

(* A reference leads to files.                                             *)
LEMMA TargetsType ==
  ASSUME NEW r \in Refs, NEW base, NEW update, NEW g
  PROVE  TargetsOf(r, base, update, g) \subseteq Paths
<1>1. \A i \in DOMAIN Candidates[r] : Candidates[r][i] \in Paths
  BY IncrementalAssumption
<1> QED
  BY <1>1 DEF TargetsOf, ToSet

(* The edges of a source are its own, and of a reference it holds.         *)
LEMMA PageEdges ==
  ASSUME NEW p \in Paths, NEW source \in Contribution, NEW base, NEW update, NEW g,
         NEW e \in ResolvePage(p, source, base, update, g)
  PROVE  e \in Edge /\ e.owner = p /\ e.ref \in source.refs
<1> DEFINE Names1(r, q) == {File} \cup ({Binding[r]} \cap ResolverTarget(base, update, g, q).exports)
<1>1. PICK r \in source.refs : \E q \in TargetsOf(r, base, update, g) :
        e \in [owner : {p}, ref : {r}, to : {q}, name : Names1(r, q)]
  BY DEF ResolvePage
<1>2. PICK q \in TargetsOf(r, base, update, g) :
        e \in [owner : {p}, ref : {r}, to : {q}, name : Names1(r, q)]
  BY <1>1
<1>3. r \in Refs
  BY DEF Contribution
<1>4. q \in Paths
  BY <1>3, TargetsType
<1>5. Names1(r, q) \subseteq Names \cup {File}
  BY <1>3, IncrementalAssumption
<1> HIDE DEF Names1
<1> QED
  BY <1>2, <1>3, <1>4, <1>5 DEF Edge

(* A full index resolves the references of live sources only.              *)
LEMMA FreshEdgesFacts ==
  ASSUME NEW sources \in [Paths -> Contribution \cup {Absent, Removed}],
         NEW e \in FreshEdges(sources)
  PROVE  e \in Edge /\ Live(sources[e.owner]) # Absent /\ e.ref \in sources[e.owner].refs
<1>1. PICK p \in {q \in Paths : Live(sources[q]) # Absent} :
        e \in ResolvePage(p, sources[p], [sources |-> sources], <<>>, Group(p, sources[p]))
  BY DEF FreshEdges
<1>2. sources[p] \in Contribution
  BY <1>1 DEF Live
<1> QED
  BY <1>1, <1>2, PageEdges

(* A batch resolves the references of what it extracted.                   *)
LEMMA BatchEdgesFacts ==
  ASSUME NEW base, NEW discovered, NEW update \in Listing(Contribution), NEW removed,
         NEW e \in resolveIncrementalWorkspaceFacts(base, discovered, update, removed)
  PROVE  e \in Edge /\ e.owner \in DOMAIN update /\ e.ref \in update[e.owner].refs
<1>1. PICK g : \E p \in ProjectionPages(g, base, update, removed) :
        e \in ResolvePage(p, update[p], base, update, g)
  BY DEF resolveIncrementalWorkspaceFacts
<1>2. PICK p \in DOMAIN update : e \in ResolvePage(p, update[p], base, update, g)
  BY <1>1 DEF ProjectionPages
<1>3. p \in Paths /\ update[p] \in Contribution
  BY DEF Listing, Supported
<1> QED
  BY <1>2, <1>3, PageEdges

-----------------------------------------------------------------------------
(* The graphs that are published                                           *)

LEMMA IndexedGraphType ==
  ASSUME graph \in Graph, session \in Session, NEW edges \in SUBSET Edge
  PROVE  IndexedGraph(edges) \in Graph
<1>1. graph.version + 1 \in Nat
  BY DEF Graph
<1>2. session.sources \in [Paths -> Contribution \cup {Absent, Removed}]
  BY DEF Session
<1>3. withResolvedDependencies(Paths, edges) \in [Paths -> SUBSET Paths]
  BY DEF withResolvedDependencies
<1> QED
  BY <1>1, <1>2, <1>3 DEF IndexedGraph, Graph

LEMMA PublishedGraphType ==
  ASSUME graph \in Graph, batch \in Batch, NEW edges \in SUBSET Edge
  PROVE  PublishedGraph(graph, batch, edges) \in Graph
<1> DEFINE sources == [p \in Paths |-> IF p \in DOMAIN batch.update THEN batch.update[p]
                                       ELSE IF p \in batch.removed THEN Removed
                                       ELSE graph.sources[p]]
<1> DEFINE deps == withResolvedDependencies(DOMAIN batch.update, edges)
<1> DEFINE newDeps == [p \in Paths |-> IF p \in sourcePaths(batch) THEN deps[p]
                                       ELSE graph.deps[p]]
<1> DEFINE newEdges == retainWorkspaceFacts(graph.edges, sourcePaths(batch)) \cup edges
<1>0. batch.update \in Listing(Contribution)
  BY DEF Batch
<1>1. DOMAIN batch.update \subseteq Paths /\ \A p \in DOMAIN batch.update : batch.update[p] \in Contribution
  BY <1>0 DEF Listing, Supported
<1>2. /\ graph.version + 1 \in Nat /\ graph.edges \subseteq Edge
      /\ graph.sources \in [Paths -> Contribution \cup {Absent, Removed}]
      /\ graph.deps \in [Paths -> SUBSET Paths]
  BY DEF Graph
<1>3. sources \in [Paths -> Contribution \cup {Absent, Removed}]
  BY <1>1, <1>2
<1>4. \A p \in Paths : deps[p] \in SUBSET Paths
  BY <1>1 DEF withResolvedDependencies
<1>5. newDeps \in [Paths -> SUBSET Paths]
  BY <1>2, <1>4
<1>6. newEdges \subseteq Edge
  BY <1>2 DEF retainWorkspaceFacts
<1>7. PublishedGraph(graph, batch, edges) =
        [version |-> graph.version + 1, sources |-> sources, deps |-> newDeps, edges |-> newEdges]
  BY DEF PublishedGraph
<1> HIDE DEF sources, newDeps, newEdges
<1> QED
  BY <1>2, <1>3, <1>5, <1>6, <1>7 DEF Graph

-----------------------------------------------------------------------------
(* What is on disk                                                         *)

LEMMA FoundType ==
  Found \in Listing(Directories) /\ DOMAIN Found \subseteq Supported
    /\ \A p \in DOMAIN Found : Found[p] \in Directories /\ Found[p] # Absent
<1>1. Found \in Listing(Directories)
  BY DiscoverType DEF Found
<1> QED
  BY <1>1, DiscoveryAssumption DEF Listing

(* With a configuration that can be read, this is what a batch or an index *)
(* discovers.                                                              *)
LEMMA FoundByAll ==
  ASSUME ~SelectionFails(disk)
  PROVE  /\ DiscoverStream(disk) = Found
         /\ \A p \in DOMAIN Found : disk[p] # Absent
<1>1. DiscoverStream(disk) = Found
  BY DEF Found, Selectable
<1> QED
  BY <1>1, DiscoverType

(* A source that can be read makes a contribution.                         *)
LEMMA ExtractedType ==
  ASSUME TypeOK, NEW p \in Supported, disk[p] # Absent, NEW project \in Directories
  PROVE  Extracted(p, project) \in Contribution
<1>1. disk[p] \in Content
  BY ContentsAssumption DEF TypeOK, Supported
<1> QED
  BY <1>1 DEF Extracted, Content, Contribution

(* No contribution is Absent or Removed.                                   *)
LEMMA ContributionLive ==
  ASSUME NEW c \in Contribution \cup {Absent}
  PROVE  Live(c) = c /\ c # Removed /\ (c \in Contribution => c # Absent)
BY ContentsAssumption DEF Live

(* Listing projects of the same sources alike is listing them alike.       *)
LEMMA SameProject ==
  ASSUME NEW one \in Listing(Directories), NEW other \in Listing(Directories), NEW p,
         ProjectOf(one, p) = ProjectOf(other, p)
  PROVE  /\ p \in DOMAIN one <=> p \in DOMAIN other
         /\ p \in DOMAIN one => one[p] = other[p]
BY DiscoveryAssumption DEF ProjectOf, Listing

(* A step that leaves the disk alone leaves what is on it.                 *)
LEMMA SameDisk ==
  ASSUME UNCHANGED disk
  PROVE  Found' = Found /\ \A p \in Paths : OnDisk(p)' = OnDisk(p)
<1>1. Found' = Found
  BY DEF Found
<1> QED
  BY <1>1 DEF OnDisk, Extracted

-----------------------------------------------------------------------------
(* The initial states                                                      *)

LEMMA NoGraphType == NoGraph \in Graph
BY DEF NoGraph, Graph

LEMMA NoBatchType == NoBatch \in Batch
<1>1. <<>> \in Listing(Directories) /\ <<>> \in Listing(Contribution)
  <2>1. {} \in SUBSET Supported
    OBVIOUS
  <2>2. <<>> \in [{} -> Directories] /\ <<>> \in [{} -> Contribution]
    OBVIOUS
  <2> QED
    BY <2>1, <2>2 DEF Listing
<1> QED
  BY <1>1, NoGraphType DEF NoBatch, Batch

LEMMA NoSessionType == NoSession \in Session
BY DEF NoSession, NoGraph, Session

LEMMA InitInv == Init => IndexInv
<1> SUFFICES ASSUME Init PROVE IndexInv
  OBVIOUS
<1>1. disk \in Disks /\ pending = {} /\ graph = NoGraph /\ batch = NoBatch
      /\ session = NoSession /\ refresh = NoRefresh /\ ruled = [p \in Paths |-> "no"]
      /\ edits = 0 /\ indexes = 0
  BY DEF Init
<1>2. TypeOK
  <2>1. refresh \in Refresh
    BY <1>1, NoGraphType DEF NoRefresh, NoGraph, Refresh
  <2>2. edits \in 0..MaxEdits /\ indexes \in 0..MaxIndexes
    BY <1>1, IncrementalAssumption
  <2>3. ruled \in [Paths -> {"no", "unseen", "seen"}]
    BY <1>1
  <2>4. DOMAIN disk = Paths /\ \A p \in Paths : disk[p] \in Contents[p]
    BY <1>1, ContentsAssumption
  <2> QED
    BY <1>1, <2>1, <2>2, <2>3, <2>4, NoGraphType, NoBatchType, NoSessionType DEF TypeOK
<1>3. StageInv
  BY <1>1 DEF StageInv, NoBatch, NoSession, Resolving
<1>4. EdgesOfCurrentSources
  BY <1>1 DEF EdgesOfCurrentSources, NoGraph
<1>5. SupportedInv
  BY <1>1 DEF SupportedInv, NoGraph, NoBatch, NoSession
<1>6. GraphInv
  BY <1>1 DEF GraphInv, NoGraph
<1>7. SessionInv
  BY <1>1 DEF SessionInv, NoSession
<1>8. SnapshotInv /\ DiscoveredInv /\ UpdateInv
  BY <1>1 DEF SnapshotInv, DiscoveredInv, UpdateInv, NoBatch, Resolving
<1> QED
  BY <1>2, <1>3, <1>4, <1>5, <1>6, <1>7, <1>8 DEF IndexInv

-----------------------------------------------------------------------------
(* The steps                                                               *)

(* A write changes what one path is, and perhaps a rule: the path is queued *)
(* and what the rule changed is unseen.                                     *)
LEMMA WriteFacts ==
  ASSUME TypeOK, NEW p \in Paths, Write(p)
  PROVE  /\ p \in pending' /\ pending \subseteq pending'
         /\ \A q \in Paths \ {p} : ruled'[q] # "unseen" =>
              /\ ruled'[q] = ruled[q]
              /\ ProjectOf(Found', q) = ProjectOf(Found, q)
              /\ OnDisk(q)' = OnDisk(q)
<1>1. PICK c \in Contents[p] \ {disk[p]} : disk' = [disk EXCEPT ![p] = c]
  BY DEF Write
<1>2. \A q \in Paths \ {p} : disk'[q] = disk[q]
  BY <1>1 DEF TypeOK
<1>3. ruled' = [q \in Paths |-> IF q = p THEN "no"
                                ELSE IF ProjectOf(Found, q) # ProjectOf(Found', q)
                                THEN "unseen" ELSE ruled[q]]
  BY DEF Write, Found
<1>4. ASSUME NEW q \in Paths \ {p}, ruled'[q] # "unseen"
      PROVE  /\ ruled'[q] = ruled[q]
             /\ ProjectOf(Found', q) = ProjectOf(Found, q)
             /\ OnDisk(q)' = OnDisk(q)
  <2>1. ruled'[q] = ruled[q] /\ ProjectOf(Found', q) = ProjectOf(Found, q)
    BY <1>3, <1>4
  <2>2. Found \in Listing(Directories) /\ Found' \in Listing(Directories)
    BY DiscoverType DEF Found
  <2>3. /\ q \in DOMAIN Found' <=> q \in DOMAIN Found
        /\ q \in DOMAIN Found' => Found'[q] = Found[q]
    BY <2>1, <2>2, SameProject
  <2> QED
    BY <1>2, <2>1, <2>3 DEF OnDisk, Extracted
<1>5. p \in pending' /\ pending \subseteq pending'
  BY DEF Write
<1> QED
  BY <1>4, <1>5

LEMMA WriteKeeps ==
  ASSUME IndexInv, NEW p \in Paths, Write(p)
  PROVE  IndexInv'
<1>0. TypeOK /\ StageInv /\ EdgesOfCurrentSources /\ SupportedInv /\ GraphInv /\ SessionInv
        /\ SnapshotInv /\ DiscoveredInv /\ UpdateInv
  BY DEF IndexInv
<1>1. UNCHANGED <<graph, batch, session, refresh, indexes>>
  BY DEF Write
<1>2. /\ p \in pending' /\ pending \subseteq pending'
      /\ \A q \in Paths \ {p} : ruled'[q] # "unseen" =>
           /\ ruled'[q] = ruled[q]
           /\ ProjectOf(Found', q) = ProjectOf(Found, q)
           /\ OnDisk(q)' = OnDisk(q)
  BY <1>0, WriteFacts
<1>3. TypeOK'
  <2>1. PICK c \in Contents[p] \ {disk[p]} : disk' = [disk EXCEPT ![p] = c]
    BY DEF Write
  <2>2. DOMAIN disk' = Paths /\ \A q \in Paths : disk'[q] \in Contents[q]
    BY <1>0, <2>1 DEF TypeOK
  <2>3. ruled' \in [Paths -> {"no", "unseen", "seen"}]
    BY <1>0 DEF Write, TypeOK
  <2>4. pending' \subseteq Paths /\ edits' \in 0..MaxEdits
    BY <1>0, IncrementalAssumption DEF Write, TypeOK
  <2> QED
    BY <1>0, <1>1, <2>2, <2>3, <2>4 DEF TypeOK
<1>4. StageInv' /\ EdgesOfCurrentSources' /\ SupportedInv'
  BY <1>0, <1>1 DEF StageInv, EdgesOfCurrentSources, SupportedInv
<1>5. GraphInv'
  BY <1>0, <1>1, <1>2 DEF GraphInv, Awaited
<1>6. SessionInv'
  BY <1>0, <1>1, <1>2 DEF SessionInv
<1>7. SnapshotInv'
  BY <1>0, <1>1, <1>2 DEF SnapshotInv, Awaited
<1>8. DiscoveredInv'
  BY <1>0, <1>1, <1>2 DEF DiscoveredInv
<1>9. UpdateInv'
  <2>1. batch.removed \subseteq Paths /\ DOMAIN batch.update \subseteq Paths
    BY <1>0 DEF TypeOK, Batch, Listing, Supported
  <2> QED
    BY <1>0, <1>1, <1>2, <2>1 DEF UpdateInv
<1> QED
  BY <1>3, <1>4, <1>5, <1>6, <1>7, <1>8, <1>9 DEF IndexInv

(* A failed batch goes back to the queue, and its session ends.            *)
LEMMA FailKeeps ==
  ASSUME IndexInv, FailBatch, UNCHANGED <<disk, graph, refresh, ruled, edits, indexes>>,
         \/ session' = session /\ session.owner # "batch"
         \/ session' = NoSession /\ (session.extracted => graph.version = 0)
  PROVE  IndexInv'
<1>0. TypeOK /\ StageInv /\ EdgesOfCurrentSources /\ SupportedInv /\ GraphInv /\ SessionInv
        /\ SnapshotInv /\ DiscoveredInv /\ UpdateInv
  BY DEF IndexInv
<1>1. batch' = NoBatch /\ pending' = Awaited
  BY DEF FailBatch, Awaited
<1>2. batch'.at = "idle" /\ batch'.changed = {} /\ batch'.base = NoGraph
  BY <1>1 DEF NoBatch
<1>3. \/ session' = session /\ session.owner # "batch"
      \/ /\ ~session'.extracted /\ (session.extracted => graph.version = 0)
         /\ session'.owner = "none"
         /\ \A p \in Paths : session'.sources[p] = Absent
  BY DEF NoSession, NoGraph
<1>4. Found' = Found /\ \A p \in Paths : OnDisk(p)' = OnDisk(p)
  BY SameDisk
<1>5. TypeOK'
  <2>1. batch' \in Batch /\ session' \in Session
    BY <1>0, <1>1, NoBatchType, NoSessionType DEF TypeOK
  <2>2. pending' \subseteq Paths
    BY <1>0, <1>1 DEF TypeOK, Batch, Awaited
  <2> QED
    BY <1>0, <2>1, <2>2 DEF TypeOK
<1>6. StageInv'
  BY <1>0, <1>2, <1>3 DEF StageInv, Resolving
<1>7. EdgesOfCurrentSources'
  BY <1>0 DEF EdgesOfCurrentSources
<1>8. SupportedInv'
  BY <1>0, <1>2, <1>3 DEF SupportedInv, NoGraph
<1>9. GraphInv'
  BY <1>0, <1>1, <1>3, <1>4 DEF GraphInv, Awaited
<1>10. SessionInv'
  BY <1>0, <1>1, <1>3, <1>4 DEF SessionInv, Awaited
<1>11. SnapshotInv' /\ DiscoveredInv' /\ UpdateInv'
  BY <1>2 DEF SnapshotInv, DiscoveredInv, UpdateInv, Resolving
<1> QED
  BY <1>5, <1>6, <1>7, <1>8, <1>9, <1>10, <1>11 DEF IndexInv

LEMMA StartBatchKeeps ==
  ASSUME IndexInv, StartBatch
  PROVE  IndexInv'
<1>0. TypeOK /\ StageInv /\ EdgesOfCurrentSources /\ SupportedInv /\ GraphInv /\ SessionInv
        /\ SnapshotInv /\ DiscoveredInv /\ UpdateInv
  BY DEF IndexInv
<1>1. /\ batch.at = "idle" /\ batch.changed = {} /\ pending' = {}
      /\ UNCHANGED <<disk, graph, session, refresh, ruled, edits, indexes>>
  BY <1>0 DEF StartBatch, StageInv
<1>2. batch' = [NoBatch EXCEPT !.at = "discover", !.changed = pending, !.previous = graph]
  BY DEF StartBatch
<1>3. /\ batch'.at = "discover" /\ batch'.changed = pending /\ batch'.previous = graph
      /\ batch'.base = NoGraph
  BY <1>2 DEF NoBatch
<1>4. Found' = Found /\ \A p \in Paths : OnDisk(p)' = OnDisk(p)
  BY <1>1, SameDisk
<1>5. TypeOK'
  <2>1. graph \in Graph /\ pending \in SUBSET Paths
    BY <1>0 DEF TypeOK
  <2>2. batch' \in Batch
    BY <1>2, <2>1, NoBatchType DEF Batch
  <2> QED
    BY <1>0, <1>1, <2>2 DEF TypeOK
<1>6. StageInv'
  BY <1>0, <1>1, <1>3 DEF StageInv, Resolving
<1>7. EdgesOfCurrentSources'
  BY <1>0, <1>1 DEF EdgesOfCurrentSources
<1>8. SupportedInv'
  BY <1>0, <1>1, <1>3 DEF SupportedInv, NoGraph
<1>9. GraphInv'
  BY <1>0, <1>1, <1>3, <1>4 DEF GraphInv, Awaited
<1>10. SessionInv'
  BY <1>0, <1>1, <1>3, <1>4 DEF SessionInv, StageInv, TypeOK, Session
<1>11. SnapshotInv'
  BY <1>0, <1>1, <1>3, <1>4 DEF SnapshotInv, GraphInv, Awaited, Resolving
<1>12. DiscoveredInv' /\ UpdateInv'
  BY <1>3 DEF DiscoveredInv, UpdateInv, Resolving
<1> QED
  BY <1>5, <1>6, <1>7, <1>8, <1>9, <1>10, <1>11, <1>12 DEF IndexInv

LEMMA DiscoverKeeps ==
  ASSUME IndexInv, Discover
  PROVE  IndexInv'
<1>0. TypeOK /\ StageInv /\ EdgesOfCurrentSources /\ SupportedInv /\ GraphInv /\ SessionInv
        /\ SnapshotInv /\ DiscoveredInv /\ UpdateInv
  BY DEF IndexInv
<1>1. /\ batch.at = "discover"
      /\ UNCHANGED <<disk, graph, session, refresh, ruled, edits, indexes>>
  BY DEF Discover
<1>2. CASE FailBatch
  BY <1>0, <1>1, <1>2, FailKeeps DEF StageInv
<1>3. CASE /\ ~SelectionFails(disk) /\ UNCHANGED pending
           /\ batch' = [batch EXCEPT !.at = "open", !.discovered = DiscoverStream(disk)]
  <2>1. batch \in Batch
    BY <1>0 DEF TypeOK
  <2>2. batch' = [batch EXCEPT !.at = "open", !.discovered = Found]
    BY <1>3, FoundByAll
  <2>3. /\ batch'.at = "open" /\ batch'.discovered = Found /\ batch'.changed = batch.changed
        /\ batch'.base = batch.base /\ batch'.previous = batch.previous
    BY <2>1, <2>2 DEF Batch
  <2>4. Found' = Found /\ \A p \in Paths : OnDisk(p)' = OnDisk(p)
    BY <1>1, SameDisk
  <2>5. TypeOK'
    <3>1. batch' \in Batch
      BY <2>1, <2>2, FoundType DEF Batch
    <3> QED
      BY <1>0, <1>1, <1>3, <3>1 DEF TypeOK
  <2>6. StageInv'
    BY <1>0, <1>1, <2>3 DEF StageInv, Resolving
  <2>7. EdgesOfCurrentSources' /\ SupportedInv'
    BY <1>0, <1>1, <2>3 DEF EdgesOfCurrentSources, SupportedInv
  <2>8. GraphInv'
    BY <1>0, <1>1, <1>3, <2>3, <2>4 DEF GraphInv, Awaited
  <2>9. SessionInv'
    BY <1>0, <1>1, <1>3, <2>3, <2>4 DEF SessionInv
  <2>10. SnapshotInv'
    BY <1>0, <1>1, <1>3, <2>3, <2>4 DEF SnapshotInv, Awaited, Resolving
  <2>11. DiscoveredInv' /\ UpdateInv'
    BY <2>3, <2>4 DEF DiscoveredInv, UpdateInv
  <2> QED
    BY <2>5, <2>6, <2>7, <2>8, <2>9, <2>10, <2>11 DEF IndexInv
<1> QED
  BY <1>2, <1>3 DEF Discover

LEMMA OpenSnapshotKeeps ==
  ASSUME IndexInv, OpenSnapshot
  PROVE  IndexInv'
<1>0. TypeOK /\ StageInv /\ EdgesOfCurrentSources /\ SupportedInv /\ GraphInv /\ SessionInv
        /\ SnapshotInv /\ DiscoveredInv /\ UpdateInv
  BY DEF IndexInv
<1>1. /\ batch.at = "open"
      /\ UNCHANGED <<disk, pending, graph, session, refresh, ruled, edits, indexes>>
  BY DEF OpenSnapshot
<1>2. batch \in Batch /\ graph \in Graph
  BY <1>0 DEF TypeOK
<1>3. /\ \/ graph.version = 0 /\ batch'.at = "begin" /\ batch'.base = batch.base
         \/ graph.version > 0 /\ batch'.at = "changed" /\ batch'.base = graph
      /\ batch'.changed = batch.changed /\ batch'.previous = batch.previous
      /\ batch'.discovered = batch.discovered
  BY <1>2 DEF OpenSnapshot, Batch, Graph
<1>4. Found' = Found /\ \A p \in Paths : OnDisk(p)' = OnDisk(p)
  BY <1>1, SameDisk
<1>5. TypeOK'
  <2>1. batch' \in Batch
    BY <1>2 DEF OpenSnapshot, Batch
  <2> QED
    BY <1>0, <1>1, <2>1 DEF TypeOK
<1>6. StageInv'
  BY <1>0, <1>1, <1>3 DEF StageInv, Resolving
<1>7. EdgesOfCurrentSources' /\ SupportedInv'
  BY <1>0, <1>1, <1>3 DEF EdgesOfCurrentSources, SupportedInv
<1>8. GraphInv'
  BY <1>0, <1>1, <1>3, <1>4 DEF GraphInv, Awaited
<1>9. SessionInv'
  BY <1>0, <1>1, <1>3, <1>4 DEF SessionInv
<1>10. SnapshotInv'
  BY <1>0, <1>1, <1>3, <1>4 DEF SnapshotInv, GraphInv, Awaited, Resolving
<1>11. DiscoveredInv'
  BY <1>0, <1>1, <1>3, <1>4 DEF DiscoveredInv, Resolving
<1>12. UpdateInv'
  BY <1>3 DEF UpdateInv
<1> QED
  BY <1>5, <1>6, <1>7, <1>8, <1>9, <1>10, <1>11, <1>12 DEF IndexInv

(* A batch finishes, and with a graph that differs from the disk only      *)
(* where paths are queued the catalog refresh hears of every change.       *)
LEMMA FinishCovers ==
  ASSUME IndexInv, NEW g, FinishBatch(g), UNCHANGED <<disk, ruled>>, batch.at # "idle",
         \A p \in Paths : ruled[p] = "no" /\ Live(g.sources[p]) # OnDisk(p) => p \in Awaited
  PROVE  refresh'.previous.version > 0 =>
           \A p \in {q \in Paths : ruled[q] = "no"} :
             Live(refresh'.sources[p]) # Live(refresh'.previous.sources[p])
               => p \in refresh'.changed \cup pending'
<1>1. /\ refresh'.previous = batch.previous /\ refresh'.sources = g.sources
      /\ refresh'.changed = batch.changed /\ pending' = pending
  BY DEF FinishBatch
<1> QED
  BY <1>1 DEF IndexInv, SnapshotInv, Awaited

(* A finished batch leaves a graph that differs from the disk only where   *)
(* paths are queued.                                                       *)
LEMMA FinishKeeps ==
  ASSUME IndexInv, NEW g, FinishBatch(g), g.sources \in [Paths -> Contribution \cup {Absent, Removed}],
         UNCHANGED <<disk, ruled, edits, indexes>>,
         graph' \in Graph, \A p \in Paths \ Supported : graph'.sources[p] = Absent,
         EdgesOfCurrentSources',
         \/ session' = session /\ session.owner # "batch"
         \/ session' = NoSession,
         graph'.version > 0 =>
           \A p \in Paths : /\ ruled[p] # "unseen" /\ (session'.extracted => ruled[p] = "no")
                            /\ Live(graph'.sources[p]) # OnDisk(p)
                            => p \in pending,
         session'.extracted =>
           \A p \in Paths : ruled[p] # "unseen" /\ session.sources[p] # OnDisk(p) => p \in pending
  PROVE  IndexInv'
<1>0. TypeOK /\ StageInv /\ SupportedInv
  BY DEF IndexInv
<1>1. batch' = NoBatch /\ pending' = pending
  BY DEF FinishBatch
<1>2. batch'.at = "idle" /\ batch'.changed = {} /\ batch'.base = NoGraph
  BY <1>1 DEF NoBatch
<1>3. \/ session' = session /\ session.owner # "batch"
      \/ /\ ~session'.extracted /\ session'.owner = "none"
         /\ \A p \in Paths : session'.sources[p] = Absent
  BY DEF NoSession, NoGraph
<1>4. Found' = Found /\ \A p \in Paths : OnDisk(p)' = OnDisk(p)
  BY SameDisk
<1>5. TypeOK'
  <2>1. batch' \in Batch /\ session' \in Session
    BY <1>0, <1>1, NoBatchType, NoSessionType DEF TypeOK
  <2>2. refresh' \in Refresh
    <3>1. batch.previous \in Graph /\ batch.changed \subseteq Paths
      BY <1>0 DEF TypeOK, Batch
    <3> QED
      BY <3>1 DEF FinishBatch, Refresh
  <2> QED
    BY <1>0, <1>1, <2>1, <2>2 DEF TypeOK
<1>6. StageInv'
  BY <1>0, <1>2, <1>3 DEF StageInv, Resolving
<1>7. SupportedInv'
  BY <1>0, <1>2, <1>3 DEF SupportedInv, NoGraph
<1>8. GraphInv'
  BY <1>1, <1>2, <1>4 DEF GraphInv, Awaited
<1>9. SessionInv'
  BY <1>1, <1>2, <1>3, <1>4 DEF SessionInv
<1>10. SnapshotInv' /\ DiscoveredInv' /\ UpdateInv'
  BY <1>2 DEF SnapshotInv, DiscoveredInv, UpdateInv, Resolving
<1> QED
  BY <1>5, <1>6, <1>7, <1>8, <1>9, <1>10 DEF IndexInv

LEMMA UnsupportedOffDisk ==
  ASSUME NEW p \in Paths \ Supported
  PROVE  OnDisk(p) = Absent
BY FoundType DEF OnDisk

(* A batch without a source has nothing to answer for.                     *)
LEMMA NothingChanged ==
  ASSUME IndexInv, batch.changed \cap DOMAIN batch.discovered = {}, RemovedPaths(batch) = {}
  PROVE  /\ \A p \in batch.changed : OnDisk(p) = Absent /\ graph.sources[p] = Absent
                                     /\ session.sources[p] = Absent
         /\ graph.version > 0 =>
              \A p \in Paths : /\ ruled[p] # "unseen" /\ (session.extracted => ruled[p] = "no")
                               /\ Live(graph.sources[p]) # OnDisk(p)
                               => p \in pending
         /\ session.extracted =>
              \A p \in Paths : ruled[p] # "unseen" /\ session.sources[p] # OnDisk(p) => p \in pending
<1>0. SupportedInv /\ GraphInv /\ SessionInv
  BY DEF IndexInv
<1>1. batch.changed \subseteq Paths \ Supported
  BY DEF RemovedPaths, IndexInv, TypeOK, Batch
<1>2. \A p \in batch.changed : OnDisk(p) = Absent /\ graph.sources[p] = Absent
                               /\ session.sources[p] = Absent
  BY <1>0, <1>1, UnsupportedOffDisk DEF SupportedInv
<1>3. Live(Absent) = Absent
  BY DEF Live
<1>4. graph.version > 0 =>
        \A p \in Paths : /\ ruled[p] # "unseen" /\ (session.extracted => ruled[p] = "no")
                         /\ Live(graph.sources[p]) # OnDisk(p)
                         => p \in pending
  BY <1>0, <1>2, <1>3 DEF GraphInv, Awaited
<1>5. session.extracted =>
        \A p \in Paths : ruled[p] # "unseen" /\ session.sources[p] # OnDisk(p) => p \in pending
  BY <1>0, <1>2 DEF SessionInv
<1> QED
  BY <1>2, <1>4, <1>5

(* What a batch reads is what is on disk, in the project it discovered,    *)
(* unless the path is queued again.                                        *)
LEMMA ReadFresh ==
  ASSUME IndexInv, batch.at \in {"open"} \cup Resolving, NEW p \in Paths, ruled[p] # "unseen",
         p \notin pending
  PROVE  /\ p \in DOMAIN batch.discovered => OnDisk(p) = Extracted(p, batch.discovered[p])
         /\ p \notin DOMAIN batch.discovered => OnDisk(p) = Absent
<1>1. ProjectOf(batch.discovered, p) = ProjectOf(Found, p)
  BY DEF IndexInv, DiscoveredInv
<1>2. batch.discovered \in Listing(Directories)
  BY DEF IndexInv, TypeOK, Batch
<1>3. /\ p \in DOMAIN batch.discovered <=> p \in DOMAIN Found
      /\ p \in DOMAIN batch.discovered => batch.discovered[p] = Found[p]
  BY <1>1, <1>2, FoundType, SameProject
<1> QED
  BY <1>3 DEF OnDisk

(* What a batch reads are contributions.                                   *)
LEMMA ReadType ==
  ASSUME TypeOK, NEW paths \in SUBSET Paths, paths \subseteq DOMAIN batch.discovered, Readable(paths)
  PROVE  /\ paths \subseteq Supported
         /\ \A p \in paths : Extracted(p, batch.discovered[p]) \in Contribution
<1>1. batch.discovered \in Listing(Directories)
  BY DEF TypeOK, Batch
<1>2. \A p \in paths : p \in Supported /\ batch.discovered[p] \in Directories
  BY <1>1 DEF Listing
<1> QED
  BY <1>2, ExtractedType DEF Readable

LEMMA ExtractChangedKeeps ==
  ASSUME IndexInv, extractChangedSources
  PROVE  IndexInv'
<1>0. TypeOK /\ StageInv /\ EdgesOfCurrentSources /\ SupportedInv /\ GraphInv /\ SessionInv
        /\ SnapshotInv /\ DiscoveredInv /\ UpdateInv
  BY DEF IndexInv
<1> DEFINE read == batch.changed \cap DOMAIN batch.discovered
<1> DEFINE removed == RemovedPaths(batch)
<1>1. batch.at = "changed" /\ UNCHANGED <<disk, graph, session, ruled, edits, indexes>>
  BY DEF extractChangedSources
<1>2. session.owner # "batch"
  BY <1>0, <1>1 DEF StageInv
<1>3. CASE FailBatch /\ UNCHANGED refresh
  BY <1>1, <1>2, <1>3, FailKeeps
<1>4. CASE read \cup removed = {} /\ FinishBatch(batch.base)
  <2>1. batch.base.sources \in [Paths -> Contribution \cup {Absent, Removed}]
    BY <1>0 DEF TypeOK, Batch, Graph
  <2>2. graph' \in Graph /\ EdgesOfCurrentSources' /\ \A p \in Paths \ Supported : graph'.sources[p] = Absent
    BY <1>0, <1>1 DEF TypeOK, EdgesOfCurrentSources, SupportedInv
  <2>3. /\ graph'.version > 0 =>
             \A p \in Paths : /\ ruled[p] # "unseen" /\ (session'.extracted => ruled[p] = "no")
                              /\ Live(graph'.sources[p]) # OnDisk(p)
                              => p \in pending
        /\ session'.extracted =>
             \A p \in Paths : ruled[p] # "unseen" /\ session.sources[p] # OnDisk(p) => p \in pending
    BY <1>1, <1>4, NothingChanged
  <2> QED
    BY <1>1, <1>2, <1>4, <2>1, <2>2, <2>3, FinishKeeps
<1>5. CASE /\ Readable(read) /\ UNCHANGED <<pending, refresh>>
           /\ batch' = [batch EXCEPT !.at = "affected", !.removed = removed,
                                     !.update = [p \in read |-> Extracted(p, batch.discovered[p])]]
  <2>1. batch \in Batch
    BY <1>0 DEF TypeOK
  <2>2. /\ batch'.at = "affected" /\ batch'.discovered = batch.discovered
        /\ batch'.changed = batch.changed /\ batch'.removed = removed
        /\ batch'.base = batch.base /\ batch'.previous = batch.previous
        /\ batch'.update = [p \in read |-> Extracted(p, batch.discovered[p])]
    BY <1>5, <2>1 DEF Batch
  <2>3. Found' = Found /\ \A p \in Paths : OnDisk(p)' = OnDisk(p)
    BY <1>1, SameDisk
  <2>4. read \subseteq Paths /\ removed \subseteq Supported
    BY <2>1 DEF Batch, RemovedPaths
  <2>5. read \subseteq Supported /\ \A p \in read : Extracted(p, batch.discovered[p]) \in Contribution
    BY <1>0, <1>5, <2>4, ReadType
  <2>6. TypeOK'
    <3>1. batch'.update \in Listing(Contribution)
      BY <2>2, <2>5 DEF Listing
    <3>2. batch' \in Batch
      BY <1>5, <2>1, <2>2, <2>4, <3>1 DEF Batch
    <3> QED
      BY <1>0, <1>1, <1>5, <3>2 DEF TypeOK
  <2>7. StageInv'
    BY <1>0, <1>1, <2>2 DEF StageInv, Resolving
  <2>8. EdgesOfCurrentSources' /\ SupportedInv'
    BY <1>0, <1>1, <2>2 DEF EdgesOfCurrentSources, SupportedInv
  <2>9. GraphInv'
    BY <1>0, <1>1, <1>5, <2>2, <2>3 DEF GraphInv, Awaited
  <2>10. SessionInv'
    BY <1>0, <1>1, <1>5, <2>2, <2>3 DEF SessionInv
  <2>11. SnapshotInv'
    BY <1>0, <1>1, <1>5, <2>2, <2>3 DEF SnapshotInv, Awaited, Resolving
  <2>12. DiscoveredInv'
    BY <1>0, <1>1, <1>5, <2>2, <2>3 DEF DiscoveredInv, Resolving
  <2>13. UpdateInv'
    <3>1. ASSUME NEW p \in read, ruled[p] # "unseen", p \notin pending
          PROVE  batch'.update[p] = OnDisk(p)
      BY <1>1, <2>2, <2>4, <3>1, ReadFresh DEF Resolving
    <3>2. ASSUME NEW p \in removed, ruled[p] # "unseen", p \notin pending
          PROVE  OnDisk(p) = Absent
      BY <1>1, <2>4, <3>2, ReadFresh DEF Resolving, RemovedPaths, Supported
    <3>3. batch.changed \cap Supported \subseteq read \cup removed
      BY DEF RemovedPaths
    <3>4. DOMAIN batch'.update = read /\ read \subseteq Paths /\ removed \subseteq Paths
      BY <2>2, <2>4 DEF Supported
    <3> QED
      BY <1>1, <1>5, <2>2, <2>3, <3>1, <3>2, <3>3, <3>4 DEF UpdateInv
  <2> QED
    BY <2>6, <2>7, <2>8, <2>9, <2>10, <2>11, <2>12, <2>13 DEF IndexInv
<1> QED
  BY <1>3, <1>4, <1>5 DEF extractChangedSources

LEMMA ExtractAffectedKeeps ==
  ASSUME IndexInv, ExtractAffected
  PROVE  IndexInv'
<1>0. TypeOK /\ StageInv /\ EdgesOfCurrentSources /\ SupportedInv /\ GraphInv /\ SessionInv
        /\ SnapshotInv /\ DiscoveredInv /\ UpdateInv
  BY DEF IndexInv
<1> DEFINE affected == (AffectedSources(batch.base, batch.update, batch.removed)
                          \ batch.changed) \cap DOMAIN batch.discovered
<1> DEFINE update == [p \in DOMAIN batch.update \cup affected |->
                        IF p \in DOMAIN batch.update THEN batch.update[p]
                        ELSE Extracted(p, batch.discovered[p])]
<1>1. /\ batch.at = "affected"
      /\ UNCHANGED <<disk, graph, session, refresh, ruled, edits, indexes>>
  BY DEF ExtractAffected
<1>2. CASE FailBatch
  BY <1>0, <1>1, <1>2, FailKeeps DEF StageInv
<1>3. CASE /\ Readable(affected) /\ UNCHANGED pending
           /\ batch' = [batch EXCEPT !.at = "publish", !.update = update]
  <2>1. batch \in Batch
    BY <1>0 DEF TypeOK
  <2>2. /\ batch'.at = "publish" /\ batch'.update = update /\ batch'.changed = batch.changed
        /\ batch'.base = batch.base /\ batch'.previous = batch.previous
        /\ batch'.discovered = batch.discovered /\ batch'.removed = batch.removed
    <3> HIDE DEF update
    <3> QED
      BY <1>3, <2>1 DEF Batch
  <2>3. Found' = Found /\ \A p \in Paths : OnDisk(p)' = OnDisk(p)
    BY <1>1, SameDisk
  <2>4. affected \subseteq Paths
    BY DEF AffectedSources
  <2>5. affected \subseteq Supported
        /\ \A p \in affected : Extracted(p, batch.discovered[p]) \in Contribution
    BY <1>0, <1>3, <2>4, ReadType
  <2>6. /\ batch.update \in Listing(Contribution)
        /\ DOMAIN batch.update \subseteq Supported /\ DOMAIN batch.update \subseteq Paths
        /\ \A p \in DOMAIN batch.update : batch.update[p] \in Contribution
    BY <2>1 DEF Batch, Listing, Supported
  <2>7. TypeOK'
    <3>1. update \in [DOMAIN batch.update \cup affected -> Contribution]
      BY <2>5, <2>6
    <3>2. DOMAIN batch.update \cup affected \in SUBSET Supported
      BY <2>5, <2>6
    <3>3. update \in Listing(Contribution)
      BY <3>1, <3>2 DEF Listing
    <3> HIDE DEF update
    <3>4. batch' \in Batch
      BY <1>3, <2>1, <3>3 DEF Batch
    <3> QED
      BY <1>0, <1>1, <1>3, <3>4 DEF TypeOK
  <2>8. StageInv'
    BY <1>0, <1>1, <2>2 DEF StageInv, Resolving
  <2>9. EdgesOfCurrentSources' /\ SupportedInv'
    BY <1>0, <1>1, <2>2 DEF EdgesOfCurrentSources, SupportedInv
  <2>10. GraphInv'
    BY <1>0, <1>1, <1>3, <2>2, <2>3 DEF GraphInv, Awaited
  <2>11. SessionInv'
    BY <1>0, <1>1, <1>3, <2>2, <2>3 DEF SessionInv
  <2>12. SnapshotInv'
    BY <1>0, <1>1, <1>3, <2>2, <2>3 DEF SnapshotInv, Awaited, Resolving
  <2>13. DiscoveredInv'
    BY <1>0, <1>1, <1>3, <2>2, <2>3 DEF DiscoveredInv, Resolving
  <2>14. UpdateInv'
    <3>1. ASSUME NEW p \in DOMAIN batch.update \cup affected, ruled[p] # "unseen", p \notin pending
          PROVE  update[p] = OnDisk(p)
      <4>1. CASE p \in DOMAIN batch.update
        BY <1>0, <1>1, <3>1, <4>1 DEF UpdateInv
      <4>2. CASE p \in affected /\ p \notin DOMAIN batch.update
        <5>1. OnDisk(p) = Extracted(p, batch.discovered[p])
          BY <1>1, <2>4, <3>1, <4>2, ReadFresh DEF Resolving
        <5> QED
          BY <4>2, <5>1
      <4> QED
        BY <3>1, <4>1, <4>2
    <3>2. DOMAIN update = DOMAIN batch.update \cup affected
      OBVIOUS
    <3>3. batch.removed \subseteq Paths
      BY <2>1 DEF Batch, Supported
    <3> HIDE DEF update, affected
    <3> QED
      BY <1>0, <1>1, <1>3, <2>2, <2>3, <2>4, <2>6, <3>1, <3>2, <3>3 DEF UpdateInv
  <2> QED
    BY <2>7, <2>8, <2>9, <2>10, <2>11, <2>12, <2>13, <2>14 DEF IndexInv
<1> QED
  BY <1>2, <1>3 DEF ExtractAffected

(* A published graph shows what the batch extracted, and for other sources *)
(* what the graph before it showed.                                        *)
LEMMA PublishedSources ==
  ASSUME TypeOK, StageInv, batch.at = "publish", Publish
  PROVE  /\ graph' \in Graph /\ graph'.version = graph.version + 1
         /\ graph'.sources = [p \in Paths |-> IF p \in DOMAIN batch.update THEN batch.update[p]
                                              ELSE IF p \in batch.removed THEN Removed
                                              ELSE graph.sources[p]]
         /\ FinishBatch(graph')
         /\ \A e \in graph'.edges :
              \/ e \in graph.edges /\ e.owner \notin sourcePaths(batch)
              \/ e.owner \in DOMAIN batch.update /\ e.ref \in batch.update[e.owner].refs
<1> DEFINE edges == resolveIncrementalWorkspaceFacts(batch.base, batch.discovered, batch.update,
                                                     batch.removed)
<1>1. graph' = PublishedGraph(graph, batch, edges) /\ FinishBatch(graph')
  BY DEF Publish
<1>2. graph \in Graph /\ batch \in Batch /\ batch.update \in Listing(Contribution)
  BY DEF TypeOK, Batch
<1>3. \A e \in edges : /\ e \in Edge /\ e.owner \in DOMAIN batch.update
                       /\ e.ref \in batch.update[e.owner].refs
  BY <1>2, BatchEdgesFacts
<1> HIDE DEF edges
<1>4. edges \in SUBSET Edge
  BY <1>3
<1>5. graph' \in Graph
  BY <1>1, <1>2, <1>4, PublishedGraphType
<1>6. /\ graph'.version = graph.version + 1
      /\ graph'.sources = [p \in Paths |-> IF p \in DOMAIN batch.update THEN batch.update[p]
                                           ELSE IF p \in batch.removed THEN Removed
                                           ELSE graph.sources[p]]
      /\ graph'.edges = retainWorkspaceFacts(graph.edges, sourcePaths(batch)) \cup edges
  BY <1>1 DEF PublishedGraph
<1>7. \A e \in graph'.edges :
        \/ e \in graph.edges /\ e.owner \notin sourcePaths(batch)
        \/ e.owner \in DOMAIN batch.update /\ e.ref \in batch.update[e.owner].refs
  BY <1>3, <1>6 DEF retainWorkspaceFacts
<1> QED
  BY <1>1, <1>5, <1>6, <1>7

(* What a batch publishes differs from the disk only where paths are       *)
(* queued.                                                                 *)
LEMMA PublishedFresh ==
  ASSUME IndexInv, batch.at = "publish", session.owner = "none", Publish,
         NEW p \in Paths, ruled[p] # "unseen", Live(graph'.sources[p]) # OnDisk(p)
  PROVE  p \in pending
<1>0. TypeOK /\ StageInv /\ SupportedInv /\ GraphInv /\ UpdateInv
  BY DEF IndexInv
<1>1. graph'.sources[p] = IF p \in DOMAIN batch.update THEN batch.update[p]
                          ELSE IF p \in batch.removed THEN Removed ELSE graph.sources[p]
  BY <1>0, PublishedSources
<1>2. \A q \in DOMAIN batch.update : batch.update[q] \in Contribution
  BY <1>0 DEF TypeOK, Batch, Listing
<1>3. CASE p \in DOMAIN batch.update
  BY <1>0, <1>1, <1>2, <1>3, ContributionLive DEF UpdateInv
<1>4. CASE p \notin DOMAIN batch.update /\ p \in batch.removed
  BY <1>0, <1>1, <1>4 DEF UpdateInv, Live
<1>5. CASE p \notin DOMAIN batch.update /\ p \notin batch.removed
  <2>1. ~session.extracted /\ graph.version > 0
    BY <1>0 DEF StageInv, Resolving
  <2>2. p \in Awaited
    BY <1>0, <1>1, <1>5, <2>1 DEF GraphInv
  <2>3. p \in batch.changed => OnDisk(p) = Absent /\ graph.sources[p] = Absent
    BY <1>0, <1>5, UnsupportedOffDisk DEF UpdateInv, SupportedInv
  <2> QED
    BY <1>1, <1>5, <2>2, <2>3 DEF Awaited, Live
<1> QED
  BY <1>3, <1>4, <1>5

LEMMA PublishKeeps ==
  ASSUME IndexInv, batch.at = "publish", session.owner = "none", Publish,
         UNCHANGED <<disk, session, ruled, edits, indexes>>
  PROVE  IndexInv'
<1>0. TypeOK /\ StageInv /\ EdgesOfCurrentSources /\ SupportedInv
  BY DEF IndexInv
<1>1. PICK g : g = graph'
  OBVIOUS
<1>2. /\ graph' \in Graph /\ FinishBatch(g)
      /\ graph'.sources = [p \in Paths |-> IF p \in DOMAIN batch.update THEN batch.update[p]
                                           ELSE IF p \in batch.removed THEN Removed
                                           ELSE graph.sources[p]]
      /\ \A e \in graph'.edges :
           \/ e \in graph.edges /\ e.owner \notin sourcePaths(batch)
           \/ e.owner \in DOMAIN batch.update /\ e.ref \in batch.update[e.owner].refs
  BY <1>0, <1>1, PublishedSources
<1>3. DOMAIN batch.update \subseteq Supported /\ batch.removed \subseteq Supported
      /\ \A q \in DOMAIN batch.update : batch.update[q] \in Contribution
  BY <1>0 DEF TypeOK, Batch, Listing
<1>4. EdgesOfCurrentSources'
  <2>1. ASSUME NEW e \in graph'.edges
        PROVE  Live(graph'.sources[e.owner]) # Absent /\ e.ref \in graph'.sources[e.owner].refs
    <3>1. e.owner \in Paths
      BY <1>2 DEF Graph, Edge
    <3>2. CASE e \in graph.edges /\ e.owner \notin sourcePaths(batch)
      <4>1. graph'.sources[e.owner] = graph.sources[e.owner]
        BY <1>2, <3>1, <3>2 DEF sourcePaths
      <4> QED
        BY <1>0, <3>2, <4>1 DEF EdgesOfCurrentSources
    <3>3. CASE e.owner \in DOMAIN batch.update /\ e.ref \in batch.update[e.owner].refs
      <4>1. graph'.sources[e.owner] = batch.update[e.owner]
        BY <1>2, <3>1, <3>3
      <4> QED
        BY <1>3, <3>3, <4>1, ContributionLive
    <3> QED
      BY <1>2, <3>2, <3>3
  <2> QED
    BY <2>1 DEF EdgesOfCurrentSources
<1>5. \A p \in Paths \ Supported : graph'.sources[p] = Absent
  BY <1>0, <1>2, <1>3 DEF SupportedInv
<1>6. session' = session /\ ~session'.extracted /\ session.owner # "batch"
  BY <1>0 DEF StageInv
<1>7. \A p \in Paths : ruled[p] # "unseen" /\ Live(graph'.sources[p]) # OnDisk(p) => p \in pending
  BY PublishedFresh
<1>8. g.sources \in [Paths -> Contribution \cup {Absent, Removed}]
  BY <1>1, <1>2 DEF Graph
<1> QED
  BY <1>2, <1>4, <1>5, <1>6, <1>7, <1>8, FinishKeeps

LEMMA BeginIndexKeeps ==
  ASSUME IndexInv, NEW owner \in {"batch", "index"}, BeginIndex(owner)
  PROVE  IndexInv'
<1>0. TypeOK /\ StageInv /\ EdgesOfCurrentSources /\ SupportedInv /\ GraphInv /\ SessionInv
        /\ SnapshotInv /\ DiscoveredInv /\ UpdateInv
  BY DEF IndexInv
<1>1. /\ session.owner = "none" /\ ~session.extracted
      /\ UNCHANGED <<disk, pending, graph, refresh, ruled, edits>>
  BY <1>0 DEF BeginIndex, StageInv
<1>2. batch \in Batch /\ NoSession \in Session
  BY <1>0, NoSessionType DEF TypeOK
<1>3. /\ session' = [NoSession EXCEPT !.owner = owner]
      /\ session'.owner = owner /\ ~session'.extracted /\ session'.sources = NoGraph.sources
  BY DEF BeginIndex, NoSession
<1>4. /\ batch'.changed = batch.changed /\ batch'.base = batch.base
      /\ batch'.previous = batch.previous /\ batch'.discovered = batch.discovered
      /\ batch'.update = batch.update /\ batch'.removed = batch.removed
      /\ \/ owner = "batch" /\ batch.at = "begin" /\ batch'.at = "indexing"
         \/ owner = "index" /\ batch'.at = batch.at
  BY <1>2 DEF BeginIndex, Batch
<1>5. Found' = Found /\ \A p \in Paths : OnDisk(p)' = OnDisk(p)
  BY <1>1, SameDisk
<1>6. TypeOK'
  <2>1. batch' \in Batch /\ session' \in Session
    BY <1>2, <1>3 DEF BeginIndex, Batch, Session
  <2>2. indexes' \in 0..MaxIndexes
    BY <1>0, IncrementalAssumption DEF TypeOK, BeginIndex
  <2> QED
    BY <1>0, <1>1, <2>1, <2>2 DEF TypeOK
<1>7. StageInv'
  BY <1>0, <1>1, <1>3, <1>4 DEF StageInv, Resolving
<1>8. EdgesOfCurrentSources' /\ SupportedInv'
  BY <1>0, <1>1, <1>3, <1>4 DEF EdgesOfCurrentSources, SupportedInv, NoGraph
<1>9. GraphInv'
  BY <1>0, <1>1, <1>4, <1>5 DEF GraphInv, Awaited
<1>10. SessionInv'
  BY <1>3 DEF SessionInv
<1>11. SnapshotInv'
  BY <1>0, <1>1, <1>4, <1>5 DEF SnapshotInv, Awaited, Resolving
<1>12. DiscoveredInv' /\ UpdateInv'
  <2>1. DOMAIN batch.update \subseteq Paths /\ batch.removed \subseteq Paths
    BY <1>2 DEF Batch, Listing, Supported
  <2>2. DiscoveredInv'
    BY <1>0, <1>1, <1>4, <1>5 DEF DiscoveredInv, Resolving
  <2>3. UpdateInv'
    BY <1>0, <1>1, <1>4, <1>5, <2>1 DEF UpdateInv
  <2> QED
    BY <2>2, <2>3
<1> QED
  BY <1>6, <1>7, <1>8, <1>9, <1>10, <1>11, <1>12 DEF IndexInv

LEMMA ExtractAllKeeps ==
  ASSUME IndexInv, ExtractAll
  PROVE  IndexInv'
<1>0. TypeOK /\ StageInv /\ EdgesOfCurrentSources /\ SupportedInv /\ GraphInv /\ SessionInv
        /\ SnapshotInv /\ DiscoveredInv /\ UpdateInv
  BY DEF IndexInv
<1>1. /\ session.owner # "none" /\ ~session.extracted
      /\ UNCHANGED <<disk, graph, refresh, edits, indexes>>
  BY DEF ExtractAll
<1>2. Found' = Found /\ \A p \in Paths : OnDisk(p)' = OnDisk(p)
  BY <1>1, SameDisk
<1> DEFINE extracted == [p \in Paths |-> IF p \in DOMAIN Found THEN Extracted(p, Found[p])
                                         ELSE Absent]
<1>3. CASE /\ ~SelectionFails(disk) /\ UNCHANGED <<batch, pending>>
           /\ session' = [session EXCEPT !.extracted = TRUE, !.sources = extracted]
           /\ ruled' = [p \in Paths |->
                IF ruled[p] = "unseen" /\ batch.at \in {"idle", "discover", "indexing"}
                THEN "seen" ELSE ruled[p]]
  <2>1. session \in Session /\ ruled \in [Paths -> {"no", "unseen", "seen"}]
    BY <1>0 DEF TypeOK
  <2>2. /\ session'.owner = session.owner /\ session'.extracted
        /\ session'.sources = extracted
    <3> HIDE DEF extracted
    <3> QED
      BY <1>3, <2>1 DEF Session
  <2>3. \A p \in Paths : ruled'[p] = "no" <=> ruled[p] = "no"
    BY <1>3, <2>1
  <2>4. batch.at \notin {"idle", "discover", "indexing"} => ruled' = ruled
    BY <1>3, <2>1
  <2>5. TypeOK'
    <3>1. \A p \in DOMAIN Found : p \in Supported /\ Extracted(p, Found[p]) \in Contribution
      BY <1>0, <1>3, FoundType, FoundByAll, ExtractedType
    <3>2. extracted \in [Paths -> Contribution \cup {Absent}]
      BY <3>1
    <3> HIDE DEF extracted
    <3>3. session' \in Session
      BY <1>3, <2>1, <3>2 DEF Session
    <3>4. ruled' \in [Paths -> {"no", "unseen", "seen"}]
      BY <1>3, <2>1
    <3> QED
      BY <1>0, <1>1, <1>3, <3>3, <3>4 DEF TypeOK
  <2>6. StageInv'
    BY <1>0, <1>1, <1>3, <2>2 DEF StageInv
  <2>7. EdgesOfCurrentSources'
    BY <1>0, <1>1 DEF EdgesOfCurrentSources
  <2>8. SupportedInv'
    BY <1>0, <1>1, <1>3, <2>2, FoundType DEF SupportedInv
  <2>9. GraphInv'
    BY <1>0, <1>1, <1>2, <1>3, <2>2, <2>3 DEF GraphInv, Awaited
  <2>10. SessionInv'
    BY <1>2, <2>2 DEF SessionInv, OnDisk
  <2>11. SnapshotInv'
    BY <1>0, <1>2, <1>3, <2>3 DEF SnapshotInv, Awaited
  <2>12. DiscoveredInv' /\ UpdateInv'
    <3>1. batch.at \in {"open"} \cup Resolving => ruled' = ruled
      BY <2>4 DEF Resolving
    <3>2. DOMAIN batch.update \subseteq Paths /\ batch.removed \subseteq Paths
      BY <1>0 DEF TypeOK, Batch, Listing, Supported
    <3>3. DiscoveredInv'
      BY <1>0, <1>2, <1>3, <3>1 DEF DiscoveredInv
    <3>4. UpdateInv'
      BY <1>0, <1>2, <1>3, <3>1, <3>2 DEF UpdateInv, Resolving
    <3> QED
      BY <3>3, <3>4
  <2> QED
    BY <2>5, <2>6, <2>7, <2>8, <2>9, <2>10, <2>11, <2>12 DEF IndexInv
<1>4. CASE /\ session' = NoSession /\ UNCHANGED ruled
           /\ IF session.owner = "batch" THEN FailBatch ELSE UNCHANGED <<batch, pending>>
  <2>1. CASE session.owner = "batch"
    BY <1>1, <1>4, <2>1, FailKeeps
  <2>2. CASE session.owner # "batch"
    <3>1. /\ session'.owner = "none" /\ ~session'.extracted
          /\ \A p \in Paths : session'.sources[p] = Absent
          /\ UNCHANGED <<batch, pending>>
      BY <1>4, <2>2 DEF NoSession, NoGraph
    <3>2. TypeOK'
      BY <1>0, <1>1, <1>4, <3>1, NoSessionType DEF TypeOK
    <3>3. StageInv' /\ EdgesOfCurrentSources' /\ SupportedInv'
      BY <1>0, <1>1, <2>2, <3>1 DEF StageInv, EdgesOfCurrentSources, SupportedInv
    <3>4. GraphInv' /\ SessionInv'
      BY <1>0, <1>1, <1>2, <1>4, <3>1 DEF GraphInv, SessionInv, Awaited
    <3>5. SnapshotInv'
      BY <1>0, <1>2, <1>4, <3>1 DEF SnapshotInv, Awaited
    <3>6. DiscoveredInv' /\ UpdateInv'
      <4>1. DOMAIN batch.update \subseteq Paths /\ batch.removed \subseteq Paths
        BY <1>0 DEF TypeOK, Batch, Listing, Supported
      <4> QED
        BY <1>0, <1>2, <1>4, <3>1, <4>1 DEF DiscoveredInv, UpdateInv
    <3> QED
      BY <3>2, <3>3, <3>4, <3>5, <3>6 DEF IndexInv
  <2> QED
    BY <2>1, <2>2
<1>5. ~SelectionFails(disk) => DiscoverStream(disk) = Found
  BY FoundByAll
<1> QED
  BY <1>3, <1>4, <1>5 DEF ExtractAll

(* What a full index publishes differs from the disk only where paths are  *)
(* queued, or where a batch that runs beside it will look.                 *)
LEMMA CommitKeeps ==
  ASSUME IndexInv, CommitIndex
  PROVE  IndexInv'
<1>0. TypeOK /\ StageInv /\ EdgesOfCurrentSources /\ SupportedInv /\ GraphInv /\ SessionInv
        /\ SnapshotInv /\ DiscoveredInv /\ UpdateInv
  BY DEF IndexInv
<1> DEFINE empty == \A p \in Paths : session.sources[p] = Absent
<1> DEFINE refused == empty /\ graph.version = 0
<1> DEFINE edges == FreshEdges(session.sources)
<1>1. /\ session.owner # "none" /\ session.extracted /\ session' = NoSession
      /\ graph' = IF refused THEN graph ELSE IndexedGraph(edges)
      /\ UNCHANGED <<disk, ruled, edits, indexes>>
  BY DEF CommitIndex
<1>2. graph \in Graph /\ session \in Session
      /\ session.sources \in [Paths -> Contribution \cup {Absent}]
  BY <1>0 DEF TypeOK, Session
<1>3. session.sources \in [Paths -> Contribution \cup {Absent, Removed}]
  BY <1>2
<1>4. \A e \in edges : /\ e \in Edge /\ Live(session.sources[e.owner]) # Absent
                       /\ e.ref \in session.sources[e.owner].refs
  BY <1>3, FreshEdgesFacts
<1> HIDE DEF edges
<1>5. IndexedGraph(edges) \in Graph
  BY <1>2, <1>4, IndexedGraphType
<1>6. /\ graph' \in Graph
      /\ ~refused => graph'.version > 0 /\ graph'.sources = session.sources /\ graph'.edges = edges
      /\ refused => graph' = graph /\ graph'.version = 0
  BY <1>1, <1>2, <1>5 DEF IndexedGraph, Graph
<1> HIDE DEF refused
<1>7. EdgesOfCurrentSources'
  BY <1>0, <1>4, <1>6 DEF EdgesOfCurrentSources
<1>8. \A p \in Paths \ Supported : graph'.sources[p] = Absent
  BY <1>0, <1>6 DEF SupportedInv
<1>9. /\ ~session'.extracted /\ session'.owner = "none"
      /\ \A p \in Paths : session'.sources[p] = Absent
  BY <1>1 DEF NoSession, NoGraph
<1>10. graph'.version > 0 =>
         \A p \in Paths : ruled[p] # "unseen" /\ Live(graph'.sources[p]) # OnDisk(p)
                          => p \in pending \/ (session.owner = "index" /\ p \in batch.changed)
  <2>1. \A p \in Paths : Live(session.sources[p]) = session.sources[p]
    BY <1>2, ContributionLive
  <2> QED
    BY <1>0, <1>1, <1>6, <2>1 DEF SessionInv
<1>11. CASE session.owner = "index" /\ UNCHANGED <<batch, pending, refresh>>
  <2>1. Found' = Found /\ \A p \in Paths : OnDisk(p)' = OnDisk(p)
    BY <1>1, SameDisk
  <2>2. TypeOK'
    BY <1>0, <1>1, <1>6, <1>11, NoSessionType DEF TypeOK
  <2>3. StageInv'
    BY <1>0, <1>6, <1>9, <1>11 DEF StageInv
  <2>4. SupportedInv'
    BY <1>0, <1>8, <1>9, <1>11 DEF SupportedInv
  <2>5. GraphInv'
    BY <1>1, <1>9, <1>10, <1>11, <2>1 DEF GraphInv, Awaited
  <2>6. SessionInv'
    BY <1>9 DEF SessionInv
  <2>7. SnapshotInv'
    BY <1>0, <1>1, <1>11, <2>1 DEF SnapshotInv, Awaited
  <2>8. DiscoveredInv' /\ UpdateInv'
    <3>1. DOMAIN batch.update \subseteq Paths /\ batch.removed \subseteq Paths
      BY <1>0 DEF TypeOK, Batch, Listing, Supported
    <3>2. DiscoveredInv'
      BY <1>0, <1>1, <1>11, <2>1 DEF DiscoveredInv
    <3>3. UpdateInv'
      BY <1>0, <1>1, <1>11, <2>1, <3>1 DEF UpdateInv
    <3> QED
      BY <3>2, <3>3
  <2> QED
    BY <1>7, <2>2, <2>3, <2>4, <2>5, <2>6, <2>7, <2>8 DEF IndexInv
<1>12. CASE session.owner = "batch" /\ refused /\ FailBatch /\ UNCHANGED refresh
  BY <1>1, <1>6, <1>12, FailKeeps
<1>13. CASE session.owner = "batch" /\ ~refused /\ FinishBatch(graph')
  <2>1. PICK g : g = graph'
    OBVIOUS
  <2>2. FinishBatch(g) /\ g.sources \in [Paths -> Contribution \cup {Absent, Removed}]
    BY <1>6, <1>13, <2>1 DEF Graph
  <2>3. graph'.version > 0 =>
          \A p \in Paths : /\ ruled[p] # "unseen" /\ (session'.extracted => ruled[p] = "no")
                           /\ Live(graph'.sources[p]) # OnDisk(p)
                           => p \in pending
    BY <1>10, <1>13
  <2> QED
    BY <1>1, <1>6, <1>7, <1>8, <1>9, <2>2, <2>3, FinishKeeps
<1> QED
  BY <1>11, <1>12, <1>13 DEF CommitIndex, refused

-----------------------------------------------------------------------------
(* The invariant and what follows from it                                  *)

LEMMA StepKeeps == IndexInv /\ [Next]_vars => IndexInv'
<1> SUFFICES ASSUME IndexInv, [Next]_vars PROVE IndexInv'
  OBVIOUS
<1>1. ASSUME NEW p \in Paths, Write(p) PROVE IndexInv'
  BY <1>1, WriteKeeps
<1>2. CASE StartBatch
  BY <1>2, StartBatchKeeps
<1>3. CASE Discover
  BY <1>3, DiscoverKeeps
<1>4. CASE OpenSnapshot
  BY <1>4, OpenSnapshotKeeps
<1>5. CASE extractChangedSources
  BY <1>5, ExtractChangedKeeps
<1>6. CASE ExtractAffected
  BY <1>6, ExtractAffectedKeeps
<1>7. CASE PublishBatch
  BY <1>7, PublishKeeps DEF PublishBatch
<1>8. CASE publishStagedBatch
  <2>1. CASE Publish
    BY <1>8, <2>1, PublishKeeps DEF publishStagedBatch
  <2>2. CASE FailBatch /\ UNCHANGED <<graph, refresh>>
    BY <1>8, <2>2, FailKeeps DEF publishStagedBatch
  <2> QED
    BY <1>8, <2>1, <2>2 DEF publishStagedBatch
<1>9. ASSUME NEW owner \in {"batch", "index"}, BeginIndex(owner) PROVE IndexInv'
  BY <1>9, BeginIndexKeeps
<1>10. CASE ExtractAll
  BY <1>10, ExtractAllKeeps
<1>11. CASE CommitIndex
  BY <1>11, CommitKeeps
<1>12. CASE UNCHANGED vars
  <2>1. Found' = Found /\ \A p \in Paths : OnDisk(p)' = OnDisk(p)
    BY <1>12, SameDisk DEF vars
  <2>2. DOMAIN batch.update \subseteq Paths /\ batch.removed \subseteq Paths
    BY DEF IndexInv, TypeOK, Batch, Listing, Supported
  <2>3. TypeOK' /\ StageInv' /\ EdgesOfCurrentSources' /\ SupportedInv'
    BY <1>12 DEF vars, IndexInv, TypeOK, StageInv, EdgesOfCurrentSources, SupportedInv
  <2>4. GraphInv' /\ SessionInv' /\ SnapshotInv' /\ DiscoveredInv'
    BY <1>12, <2>1 DEF vars, IndexInv, GraphInv, SessionInv, SnapshotInv, DiscoveredInv, Awaited
  <2>5. UpdateInv'
    BY <1>12, <2>1, <2>2 DEF vars, IndexInv, UpdateInv
  <2> QED
    BY <2>3, <2>4, <2>5 DEF IndexInv
<1> QED
  BY <1>1, <1>2, <1>3, <1>4, <1>5, <1>6, <1>7, <1>8, <1>9, <1>10, <1>11, <1>12 DEF Next, BatchStep

(* The invariant holds whatever is written while batches and indexes run.  *)
(* (PublishBatch, index.go:116, and Index)                                 *)
THEOREM Invariance == Spec => []IndexInv
<1>1. Init => IndexInv
  BY InitInv
<1>2. IndexInv /\ [Next]_vars => IndexInv'
  BY StepKeeps
<1> QED
  BY <1>1, <1>2, PTL DEF Spec

(* Every variable keeps its type, and no published edge outlives the       *)
(* contribution it was resolved for.                                       *)
(* (ReplacedWorkspaceFactOwners, index.go:219)                             *)
THEOREM GraphSoundAlways == Spec => []GraphSound
<1>1. IndexInv => GraphSound
  BY DEF IndexInv, GraphSound
<1> QED
  BY <1>1, Invariance, PTL

(* Once the queue is empty the published contributions are those of the    *)
(* sources on disk, but for what an unseen rule changed.                   *)
(* (PublishBatch, index.go:116)                                            *)
THEOREM QuiescentSourcesAlways == Spec => []QuiescentSources
<1>1. IndexInv => QuiescentSources
  BY DEF IndexInv, QuiescentSources, Quiescent, GraphInv, StageInv, Awaited, OnDisk, Found
<1> QED
  BY <1>1, Invariance, PTL

(* A catalog refresh is told of every source that changed since the        *)
(* snapshot it copies from, or a later one will be.                        *)
(* (newIndexerPublisher, command.go:87)                                    *)
THEOREM RefreshCoversChangesAlways == Spec => RefreshCoversChanges
<1> DEFINE Covers == refresh' # refresh /\ refresh'.previous.version > 0 =>
                       \A p \in {q \in Paths : ruled[q] = "no"} :
                         Live(refresh'.sources[p]) # Live(refresh'.previous.sources[p])
                           => p \in refresh'.changed \cup pending'
<1>1. ASSUME IndexInv, [Next]_vars PROVE refresh' = refresh \/ Covers
  <2>0. IndexInv'
    BY <1>1, StepKeeps
  <2>1. CASE extractChangedSources /\ FinishBatch(batch.base)
    <3>1. batch.at = "changed" /\ UNCHANGED <<disk, ruled>>
      BY <2>1 DEF extractChangedSources
    <3>2. \A p \in Paths : ruled[p] = "no" /\ Live(batch.base.sources[p]) # OnDisk(p) => p \in Awaited
      BY <1>1, <3>1 DEF IndexInv, SnapshotInv, Resolving
    <3> QED
      BY <1>1, <2>1, <3>1, <3>2, FinishCovers
  <2>2. CASE /\ FinishBatch(graph') /\ UNCHANGED <<disk, ruled>> /\ graph'.version > 0
             /\ batch.at # "idle"
    <3>1. PICK g : g = graph'
      OBVIOUS
    <3>2. Found' = Found /\ \A p \in Paths : OnDisk(p)' = OnDisk(p)
      BY <2>2, SameDisk
    <3>3. batch'.changed = {} /\ pending' = pending
      BY <2>2 DEF FinishBatch, NoBatch
    <3>4. \A p \in Paths : ruled[p] = "no" /\ Live(graph'.sources[p]) # OnDisk(p) => p \in pending
      BY <2>0, <2>2, <3>2, <3>3 DEF IndexInv, GraphInv, Awaited
    <3>5. \A p \in Paths : ruled[p] = "no" /\ Live(g.sources[p]) # OnDisk(p) => p \in Awaited
      BY <3>1, <3>4 DEF Awaited
    <3> QED
      BY <1>1, <2>2, <3>1, <3>5, FinishCovers
  <2>3. CASE (PublishBatch \/ publishStagedBatch) /\ Publish
    <3>1. TypeOK /\ StageInv /\ batch.at = "publish" /\ UNCHANGED <<disk, ruled>>
      BY <1>1, <2>3 DEF IndexInv, PublishBatch, publishStagedBatch
    <3>2. FinishBatch(graph') /\ graph'.version = graph.version + 1 /\ graph.version \in Nat
      BY <2>3, <3>1, PublishedSources DEF TypeOK, Graph
    <3> QED
      BY <2>2, <3>1, <3>2
  <2>4. CASE /\ CommitIndex /\ session.owner = "batch" /\ FinishBatch(graph')
             /\ ~((\A p \in Paths : session.sources[p] = Absent) /\ graph.version = 0)
    <3>1. batch.at = "indexing"
      BY <1>1, <2>4 DEF IndexInv, StageInv
    <3>2. graph'.version = graph.version + 1 /\ UNCHANGED <<disk, ruled>>
      BY <2>4 DEF CommitIndex, IndexedGraph
    <3>3. graph'.version > 0
      BY <1>1, <3>2 DEF IndexInv, TypeOK, Graph
    <3> QED
      BY <2>2, <2>4, <3>1, <3>2, <3>3
  <2> QED
    BY <1>1, <2>1, <2>2, <2>3, <2>4
    DEF Next, vars, BatchStep, Write, StartBatch, Discover, OpenSnapshot, extractChangedSources,
        ExtractAffected, PublishBatch, publishStagedBatch, BeginIndex, ExtractAll, CommitIndex
<1>2. IndexInv /\ [Next]_vars =>
        [refresh' # refresh /\ refresh'.previous.version > 0 =>
           \A p \in {q \in Paths : ruled[q] = "no"} :
             Live(refresh'.sources[p]) # Live(refresh'.previous.sources[p])
               => p \in refresh'.changed \cup pending']_vars
  BY <1>1 DEF vars
<1> QED
  BY <1>2, Invariance, PTL DEF Spec, RefreshCoversChanges

-----------------------------------------------------------------------------
(* What is published is what the rules let in                              *)

(* A configuration that cannot be read decides nothing about the projects. *)
LEMMA RulesOfDisk ==
  ASSUME TypeOK
  PROVE  /\ loadGitIgnoreRules(Selectable(disk)) = loadGitIgnoreRules(disk)
         /\ \A rules : projectRoots(Selectable(disk), rules) = projectRoots(disk, rules)
<1>1. \A f \in Paths \ {ConfigurationFile} : Selectable(disk)[f] = disk[f]
  BY DEF Selectable, TypeOK
<1>2. \A d \in Directories : GitIgnoreOf[d] # Absent =>
        GitIgnoreOf[d] \in Paths \ {ConfigurationFile}
  BY DiscoveryAssumption
<1>3. loadGitIgnoreRules(Selectable(disk)) = loadGitIgnoreRules(disk)
  BY <1>1, <1>2 DEF loadGitIgnoreRules
<1>4. ASSUME NEW rules
      PROVE  projectRoots(Selectable(disk), rules) = projectRoots(disk, rules)
  <2>1. \A d \in Directories : \A f \in ManifestsOf[d] : Selectable(disk)[f] = disk[f]
    BY <1>1, DiscoveryAssumption
  <2> QED
    BY <2>1 DEF projectRoots
<1> QED
  BY <1>3, <1>4

(* A live source of a workspace at rest, whose rules have been seen, was   *)
(* discovered, in the project it has.                                      *)
LEMMA LiveIsFound ==
  ASSUME QuiescentSources, Quiescent, NEW p \in Paths, ruled[p] # "unseen",
         Live(graph.sources[p]) # Absent
  PROVE  p \in DOMAIN Found /\ graph.sources[p].project = Found[p]
<1>1. Live(graph.sources[p]) = OnDisk(p)
  BY DEF QuiescentSources, OnDisk, Found
<1> QED
  BY <1>1 DEF OnDisk, Extracted, Live

(* A published source belongs to the innermost project around it.          *)
LEMMA SourcesInOwnProject == TypeOK /\ QuiescentSources => OwnProject
<1> SUFFICES ASSUME TypeOK, QuiescentSources, Quiescent
             PROVE  OwnProject
  BY DEF OwnProject
<1> DEFINE roots == projectRoots(disk, loadGitIgnoreRules(disk))
<1>1. roots \in SUBSET Directories
  BY DiscoveryAssumption DEF projectRoots
<1>2. roots = projectRoots(Selectable(disk), loadGitIgnoreRules(Selectable(disk)))
  BY RulesOfDisk
<1> HIDE DEF roots
<1>3. ASSUME NEW p \in Paths, Live(graph.sources[p]) # Absent, ruled[p] # "unseen"
      PROVE  /\ graph.sources[p].project \in roots
             /\ \A i \in DOMAIN DirectoriesAbove[p] : DirectoriesAbove[p][i] \in roots =>
                  \/ graph.sources[p].project \in
                       {DirectoriesAbove[p][j] : j \in i..Len(DirectoriesAbove[p])}
                  \/ /\ graph.sources[p].project = Top /\ Length[DirectoriesAbove[p][i]] = 1
                     /\ SortRank[Top] < SortRank[DirectoriesAbove[p][i]]
    <2> DEFINE above == DirectoriesAbove[p]
    <2> DEFINE project == graph.sources[p].project
    <2>1. p \in DOMAIN Found /\ project = Found[p]
      BY <1>3, LiveIsFound
    <2>2. project = mostSpecificRoot(p, roots) /\ RootsAbove(roots, p) # {}
      BY <1>2, <2>1 DEF Found, DiscoverStream
    <2>3. project \in RootsAbove(roots, p)
          /\ \A e \in RootsAbove(roots, p) :
               /\ Length[e] <= Length[project]
               /\ Length[e] = Length[project] => SortRank[project] <= SortRank[e]
      BY <1>1, <2>2, MostSpecific
    <2>4. above \in Seq(Directories \ {Top})
      BY DiscoveryAssumption
    <2> HIDE DEF above, project
    <2>5. ASSUME NEW i \in DOMAIN above, above[i] \in roots
          PROVE  \/ project \in {above[j] : j \in i..Len(above)}
                 \/ /\ project = Top /\ Length[above[i]] = 1
                    /\ SortRank[Top] < SortRank[above[i]]
      <3>1. above[i] \in RootsAbove(roots, p)
        BY <2>5 DEF RootsAbove, ToSet, above
      <3>2. Length[above[i]] <= Length[project]
        BY <2>3, <3>1
      <3>3. above[i] \in Directories /\ Length[above[i]] \in Nat \ {0}
        BY <2>4, LengthAssumption
      <3>4. CASE project = Top
        <4>1. Length[above[i]] = 1
          BY <3>2, <3>3, <3>4, LengthAssumption
        <4>2. SortRank[Top] <= SortRank[above[i]]
          BY <2>3, <3>1, <3>4, <4>1, LengthAssumption
        <4>3. SortRank[Top] # SortRank[above[i]]
          BY <2>4, <3>3, DiscoveryAssumption, OrderAssumption DEF IsInjective
        <4>4. SortRank[Top] \in Nat /\ SortRank[above[i]] \in Nat
          BY <3>3, DiscoveryAssumption, OrderAssumption
        <4> QED
          BY <3>4, <4>1, <4>2, <4>3, <4>4
      <3>5. CASE project # Top
        <4>1. PICK j \in DOMAIN above : project = above[j]
          BY <2>3, <3>5 DEF RootsAbove, ToSet, above
        <4>2. above[j] \in Directories /\ Length[above[j]] \in Nat
          BY <2>4, LengthAssumption
        <4>3. j < i => Length[above[j]] < Length[above[i]]
          BY LengthAssumption DEF above
        <4>4. DOMAIN above = 1..Len(above) /\ Len(above) \in Nat
          BY <2>4
        <4>5. ~(j < i)
          BY <3>2, <3>3, <4>1, <4>2, <4>3
        <4>6. j \in i..Len(above)
          BY <4>4, <4>5
        <4> QED
          BY <4>1, <4>6
      <3> QED
        BY <3>4, <3>5
    <2> QED
      BY <2>3, <2>5 DEF RootsAbove, above, project
<1> QED
  BY <1>3 DEF OwnProject, roots

(* The greatest element of a set of numbers is its maximum.                *)
LEMMA GreatestIsMax ==
  ASSUME NEW S \in SUBSET Nat, NEW n \in S, \A m \in S : m <= n
  PROVE  Max(S) = n
<1>1. n \in S /\ \A m \in S : n >= m
  OBVIOUS
<1>2. Max(S) \in S /\ \A m \in S : Max(S) >= m
  BY <1>1 DEF Max
<1>3. PICK g : g = Max(S)
  OBVIOUS
<1>4. g \in Nat /\ n \in Nat /\ g >= n /\ n >= g
  BY <1>1, <1>2, <1>3
<1>5. g = n
  BY <1>4
<1> QED
  BY <1>3, <1>5

(* A directory further in sorts after the one that holds it.               *)
LEMMA FurtherInSortsLater ==
  ASSUME NEW x \in Paths \cup Directories,
         NEW i \in DOMAIN DirectoriesAbove[x], NEW j \in DOMAIN DirectoriesAbove[x], i <= j
  PROVE  SortRank[DirectoriesAbove[x][i]] <= SortRank[DirectoriesAbove[x][j]]
<1>1. DirectoriesAbove[x] \in Seq(Directories \ {Top})
  BY DiscoveryAssumption
<1>2. i \in Nat /\ j \in Nat
      /\ SortRank[DirectoriesAbove[x][i]] \in Nat /\ SortRank[DirectoriesAbove[x][j]] \in Nat
  BY <1>1, OrderAssumption
<1>3. i < j => SortRank[DirectoriesAbove[x][i]] < SortRank[DirectoriesAbove[x][j]]
  BY OrderAssumption
<1> QED
  BY <1>2, <1>3

(* What Git excludes is ignored, unless the root takes it back.            *)
LEMMA GitDecides ==
  ASSUME NEW x \in Paths \cup Directories, NEW rules,
         \A d \in Directories : \E S : rules[d] \in Seq(S),
         GitExcludes(rules, x), ~RootTakesBack(rules, x)
  PROVE  gitIgnoredPath(rules, x)
<1> DEFINE A == DirectoriesAbove[x]
           chain == <<Top>> \o A
           matching(d) == {j \in DOMAIN rules[d] : x \in rules[d][j].matches}
           found == {d \in {Top} \cup ToSet(A) : matching(d) # {}}
           greatest == {d \in found : \A e \in found : SortRank[e] <= SortRank[d]}
           last == CHOOSE d \in greatest : TRUE
<1>1. /\ A \in Seq(Directories \ {Top}) /\ Top \in Directories
      /\ DOMAIN chain = 1..(Len(A) + 1) /\ Len(A) \in Nat /\ DOMAIN A = 1..Len(A)
      /\ chain[1] = Top /\ \A m \in DOMAIN A : A[m] \in Directories /\ chain[m + 1] = A[m]
  BY DiscoveryAssumption
<1>2. PICK k \in DOMAIN chain : \E i \in DOMAIN rules[chain[k]] :
        /\ x \in rules[chain[k]][i].matches /\ ~rules[chain[k]][i].negated
        /\ \A l \in DOMAIN chain : \A j \in DOMAIN rules[chain[l]] :
             l > k \/ (l = k /\ j > i) => x \notin rules[chain[l]][j].matches
  BY DEF GitExcludes
<1>3. PICK i \in DOMAIN rules[chain[k]] :
        /\ x \in rules[chain[k]][i].matches /\ ~rules[chain[k]][i].negated
        /\ \A l \in DOMAIN chain : \A j \in DOMAIN rules[chain[l]] :
             l > k \/ (l = k /\ j > i) => x \notin rules[chain[l]][j].matches
  BY <1>2
<1>4. PICK d : d = chain[k]
  OBVIOUS
<1>5. found \subseteq Directories /\ \A e \in found : SortRank[e] \in Nat
  BY <1>1, OrderAssumption DEF ToSet
<1>6. \A e \in Directories : matching(e) \in SUBSET Nat /\ IsFiniteSet(matching(e))
  <2>1. ASSUME NEW e \in Directories PROVE matching(e) \in SUBSET Nat /\ IsFiniteSet(matching(e))
    <3>1. PICK S : rules[e] \in Seq(S)
      OBVIOUS
    <3>2. Len(rules[e]) \in Nat /\ DOMAIN rules[e] = 1..Len(rules[e])
      BY <3>1
    <3>3. IsFiniteSet(1..Len(rules[e])) /\ matching(e) \subseteq 1..Len(rules[e])
      BY <3>2, FS_Interval
    <3> QED
      BY <3>3, FS_Subset
  <2> QED
    BY <2>1
<1>7. d \in found /\ d \in Directories /\ i \in matching(d)
  <2>1. d = Top \/ \E m \in DOMAIN A : d = A[m]
    <3>1. k = 1 \/ (k - 1 \in DOMAIN A /\ k = (k - 1) + 1)
      BY <1>1
    <3> QED
      BY <1>1, <1>4, <3>1
  <2>2. i \in matching(d)
    BY <1>3, <1>4
  <2> QED
    BY <1>1, <2>1, <2>2 DEF ToSet
<1>8. \A j \in matching(d) : j <= i
  <2>1. ASSUME NEW j \in matching(d), ~(j <= i) PROVE FALSE
    <3>1. matching(d) \subseteq Nat
      BY <1>6, <1>7
    <3>2. j \in Nat /\ i \in Nat
      BY <1>7, <3>1
    <3>3. j > i /\ j \in DOMAIN rules[chain[k]] /\ x \in rules[chain[k]][j].matches
      BY <1>4, <2>1, <3>2
    <3> QED
      BY <1>3, <3>3
  <2> QED
    BY <2>1
<1>9. ASSUME NEW m \in DOMAIN A, A[m] \in found
      PROVE  k > 1 /\ d = A[k - 1] /\ k - 1 \in DOMAIN A /\ SortRank[A[m]] <= SortRank[d]
  <2>1. m + 1 \in DOMAIN chain /\ m \in Nat /\ k \in Nat /\ chain[m + 1] = A[m]
    BY <1>1
  <2>2. PICK j \in DOMAIN rules[A[m]] : x \in rules[A[m]][j].matches
    BY <1>9
  <2>3. ~(m + 1 > k)
    BY <1>3, <2>1, <2>2
  <2>4. k - 1 \in DOMAIN A /\ m <= k - 1 /\ k = (k - 1) + 1 /\ k > 1
    BY <1>1, <2>1, <2>3
  <2>5. d = A[k - 1]
    BY <1>1, <1>4, <2>4
  <2> HIDE DEF found
  <2> QED
    BY <2>4, <2>5, FurtherInSortsLater
<1>10. \A e \in found : e = Top \/ \E m \in DOMAIN A : e = A[m]
  BY DEF ToSet
<1> HIDE DEF found
<1>11. CASE SortRank[Top] <= SortRank[d] \/ Top \notin found
  <2>1. \A e \in found : SortRank[e] <= SortRank[d]
    BY <1>9, <1>10, <1>11
  <2>2. \A e \in greatest : e = d
    <3>1. ASSUME NEW e \in greatest PROVE e = d
      <4>1. SortRank[e] = SortRank[d]
        BY <1>5, <1>7, <2>1
      <4> QED
        BY <1>5, <1>7, <4>1, OrderAssumption DEF IsInjective
    <3> QED
      BY <3>1
  <2>3. d \in greatest
    BY <1>7, <2>1
  <2> HIDE DEF greatest
  <2>4. last = d
    BY <2>2, <2>3
  <2>5. Max(matching(d)) = i
    BY <1>6, <1>7, <1>8, GreatestIsMax
  <2>6. ~rules[d][i].negated
    BY <1>3, <1>4
  <2> HIDE DEF matching, last
  <2>7. found # {} /\ ~rules[last][Max(matching(last))].negated
    BY <1>7, <2>4, <2>5, <2>6
  <2> QED
    BY <2>7 DEF gitIgnoredPath, matching, last, found, greatest
<1>12. CASE ~(SortRank[Top] <= SortRank[d]) /\ Top \in found
  <2>1. SortRank[Top] \in Nat /\ SortRank[d] \in Nat /\ SortRank[d] < SortRank[Top]
    BY <1>5, <1>7, <1>12
  <2>2. k - 1 \in DOMAIN A /\ d = A[k - 1]
    <3>1. d # Top
      BY <2>1
    <3> QED
      BY <1>7, <1>9, <1>10, <3>1
  <2>3. \A e \in found : SortRank[e] <= SortRank[Top]
    BY <1>5, <1>9, <1>10, <2>1
  <2>4. \A e \in greatest : e = Top
    <3>1. ASSUME NEW e \in greatest PROVE e = Top
      <4>1. SortRank[e] = SortRank[Top]
        BY <1>5, <1>12, <2>1, <2>3
      <4> QED
        BY <1>5, <1>12, <4>1, OrderAssumption DEF IsInjective
    <3> QED
      BY <3>1
  <2>5. Top \in greatest
    BY <1>12, <2>3
  <2> HIDE DEF greatest
  <2>6. last = Top
    BY <2>4, <2>5
  <2>7. matching(Top) # {} /\ matching(Top) \in SUBSET Nat /\ IsFiniteSet(matching(Top))
    BY <1>1, <1>6, <1>12 DEF found
  <2>8. PICK n \in matching(Top) : \A j \in matching(Top) : j <= n
    <3> DEFINE size == [j \in matching(Top) |-> j]
    <3>1. \A j \in matching(Top) : size[j] \in Nat
      BY <2>7
    <3>2. \E n \in matching(Top) : \A j \in matching(Top) : size[j] <= size[n]
      <4> HIDE DEF size, matching
      <4> QED
        BY <2>7, <3>1, GreatestExists
    <3> QED
      BY <3>2
  <2>9. Max(matching(Top)) = n
    BY <2>7, <2>8, GreatestIsMax
  <2>10. ~rules[Top][n].negated
    <3> SUFFICES ASSUME rules[Top][n].negated PROVE RootTakesBack(rules, x)
      OBVIOUS
    <3>1. A # <<>> /\ Head(A) = A[1] /\ 1 \in DOMAIN A
      BY <1>1, <2>2
    <3>2. SortRank[A[1]] <= SortRank[A[k - 1]]
      <4>1. 1 <= k - 1
        BY <1>1, <2>2
      <4> QED
        BY <2>2, <3>1, <4>1, FurtherInSortsLater
    <3>3. SortRank[Head(A)] < SortRank[Top]
      <4>1. SortRank[A[1]] \in Nat
        BY <1>1, <3>1, OrderAssumption
      <4> QED
        BY <2>1, <2>2, <3>1, <3>2, <4>1
    <3>4. n \in DOMAIN rules[Top] /\ x \in rules[Top][n].matches
      OBVIOUS
    <3>5. ASSUME NEW j \in DOMAIN rules[Top], j > n PROVE x \notin rules[Top][j].matches
      <4> SUFFICES ASSUME j \in matching(Top) PROVE FALSE
        OBVIOUS
      <4>1. j <= n /\ j \in Nat /\ n \in Nat
        BY <2>7, <2>8
      <4> QED
        BY <3>5, <4>1
    <3> QED
      BY <3>1, <3>3, <3>4, <3>5 DEF RootTakesBack
  <2> HIDE DEF matching, last
  <2>11. found # {} /\ ~rules[last][Max(matching(last))].negated
    BY <1>12, <2>6, <2>9, <2>10
  <2> QED
    BY <2>11 DEF gitIgnoredPath, matching, last, found, greatest
<1> QED
  BY <1>11, <1>12

(* What Git ignores is not published, but for what the root takes back.    *)
LEMMA IgnoredAreOut == TypeOK /\ QuiescentSources => IgnoredStayOut
<1> SUFFICES ASSUME TypeOK, QuiescentSources, Quiescent
             PROVE  IgnoredStayOut
  BY DEF IgnoredStayOut
<1> DEFINE lines == loadGitIgnoreRules(disk)
<1>1. \A d \in Directories : \E S : lines[d] \in Seq(S)
  <2> DEFINE Pattern == [matches : SUBSET (Paths \cup Directories), negated : BOOLEAN]
  <2>1. ASSUME NEW d \in Directories
        PROVE  lines[d] \in Seq(Pattern)
    <3>1. CASE GitIgnoreOf[d] = Absent \/ internalDirectory(d)
      BY <3>1 DEF loadGitIgnoreRules
    <3>2. CASE ~(GitIgnoreOf[d] = Absent \/ internalDirectory(d))
      <4>1. GitIgnoreOf[d] \in Paths
        BY <3>2, DiscoveryAssumption
      <4>2. disk[GitIgnoreOf[d]] \in Seq(Pattern) \cup {Absent}
        BY <3>2, <4>1, ContentsAssumption DEF TypeOK
      <4> QED
        BY <3>2, <4>2 DEF loadGitIgnoreRules
    <3> QED
      BY <3>1, <3>2
  <2> QED
    BY <2>1
<1> HIDE DEF lines
<1>2. ASSUME NEW p \in Paths, Live(graph.sources[p]) # Absent, ruled[p] # "unseen",
             NEW x \in {p} \cup ToSet(DirectoriesAbove[p]), GitExcludes(lines, x)
      PROVE  RootTakesBack(lines, x)
  <2> SUFFICES ASSUME ~RootTakesBack(lines, x) PROVE FALSE
    OBVIOUS
  <2>1. x \in Paths \cup Directories
    BY DiscoveryAssumption, ToSetFinite
  <2>2. gitIgnoredPath(lines, x)
    BY <1>1, <1>2, <2>1, GitDecides
  <2>3. sourceExcluded(lines, ReadSourceSelection(Selectable(disk)), p)
    BY <2>2 DEF gitIgnored, nonSourcePathExcluded, sourceExcluded
  <2>4. p \notin DOMAIN DiscoverStream(Selectable(disk))
    BY <2>3, RulesOfDisk DEF DiscoverStream, lines
  <2> QED
    BY <1>2, <2>4, LiveIsFound DEF Found
<1> QED
  BY <1>2 DEF IgnoredStayOut, lines

(* A published source belongs to the innermost project around it.          *)
(* (mostSpecificRoot, discovery.go:365)                                    *)
THEOREM OwnProjectAlways == Spec => []OwnProject
<1>1. IndexInv => TypeOK
  BY DEF IndexInv
<1> QED
  BY <1>1, SourcesInOwnProject, Invariance, QuiescentSourcesAlways, PTL

(* What Git ignores is not published, for any files, patterns and          *)
(* directories, but for what the workspace's .gitignore takes back in a    *)
(* directory that sorts before ".".                                        *)
(* (gitIgnored, discovery.go:248; loadGitIgnoreRules, discovery.go:220)    *)
THEOREM IgnoredStayOutAlways == Spec => []IgnoredStayOut
<1>1. IndexInv => TypeOK
  BY DEF IndexInv
<1> QED
  BY <1>1, IgnoredAreOut, Invariance, QuiescentSourcesAlways, PTL

-----------------------------------------------------------------------------
(* Resolution against a snapshot that is still current                     *)

(* The snapshot a batch opened is the current graph until that moves on;   *)
(* what it extracted is in the projects that it discovered.                *)
BaseInv ==
  /\ batch.at \in Resolving =>
       /\ batch.base.version <= graph.version
       /\ batch.base.version = graph.version => batch.base = graph
  /\ batch.at \in {"affected", "publish"} =>
       \A p \in DOMAIN batch.update :
         p \in DOMAIN batch.discovered /\ batch.update[p].project = batch.discovered[p]

(* A graph is left alone, or another version takes its place.              *)
LEMMA GraphMoves ==
  ASSUME IndexInv, [Next]_vars
  PROVE  \/ graph' = graph
         \/ graph'.version = graph.version + 1
<1>1. ASSUME Publish PROVE graph'.version = graph.version + 1
  BY <1>1 DEF Publish, PublishedGraph
<1>2. ASSUME CommitIndex PROVE graph' = graph \/ graph'.version = graph.version + 1
  BY <1>2 DEF CommitIndex, IndexedGraph
<1> QED
  BY <1>1, <1>2
  DEF Next, vars, BatchStep, Write, StartBatch, Discover, OpenSnapshot, extractChangedSources,
      ExtractAffected, PublishBatch, publishStagedBatch, BeginIndex, ExtractAll

LEMMA BaseKeeps ==
  ASSUME IndexInv, BaseInv, [Next]_vars
  PROVE  BaseInv'
<1>1. batch \in Batch /\ graph \in Graph /\ graph.version \in Nat /\ batch.base.version \in Nat
  BY DEF IndexInv, TypeOK, Batch, Graph
<1>2. graph' = graph \/ graph'.version = graph.version + 1
  BY GraphMoves
<1>3. CASE batch' = batch
  <2>1. batch.at \in Resolving =>
          /\ batch.base.version <= graph'.version
          /\ batch.base.version = graph'.version => batch.base = graph'
    BY <1>1, <1>2 DEF BaseInv
  <2> QED
    BY <1>3, <2>1 DEF BaseInv
<1>4. CASE batch'.at \notin Resolving
  BY <1>4 DEF BaseInv, Resolving
<1>5. CASE OpenSnapshot
  <2>1. graph' = graph
    BY <1>5 DEF OpenSnapshot
  <2>2. \/ batch'.at = "begin"
        \/ batch'.at = "changed" /\ batch'.base = graph
    BY <1>1, <1>5 DEF OpenSnapshot, Batch
  <2> QED
    BY <1>1, <2>1, <2>2 DEF BaseInv, Resolving
<1>6. CASE extractChangedSources /\ batch'.at \in Resolving
  <2> DEFINE read == batch.changed \cap DOMAIN batch.discovered
  <2>1. batch.at = "changed" /\ graph' = graph
    BY <1>6 DEF extractChangedSources
  <2>2. batch' = [batch EXCEPT !.at = "affected", !.removed = RemovedPaths(batch),
                               !.update = [p \in read |-> Extracted(p, batch.discovered[p])]]
    BY <1>6 DEF extractChangedSources, FailBatch, FinishBatch, NoBatch, Resolving
  <2>3. /\ batch'.update = [p \in read |-> Extracted(p, batch.discovered[p])]
        /\ batch'.discovered = batch.discovered /\ batch'.base = batch.base
    BY <1>1, <2>2 DEF Batch
  <2>4. \A p \in DOMAIN batch'.update :
          p \in DOMAIN batch'.discovered /\ batch'.update[p].project = batch'.discovered[p]
    BY <2>3 DEF Extracted
  <2>5. /\ batch'.base.version <= graph'.version
        /\ batch'.base.version = graph'.version => batch'.base = graph'
    BY <2>1, <2>3 DEF BaseInv, Resolving
  <2> QED
    BY <2>4, <2>5 DEF BaseInv
<1>7. CASE ExtractAffected /\ batch'.at \in Resolving
  <2> DEFINE affected == (AffectedSources(batch.base, batch.update, batch.removed)
                            \ batch.changed) \cap DOMAIN batch.discovered
  <2>1. batch.at = "affected" /\ graph' = graph
    BY <1>7 DEF ExtractAffected
  <2>2. batch' = [batch EXCEPT !.at = "publish",
                    !.update = [p \in DOMAIN batch.update \cup affected |->
                                  IF p \in DOMAIN batch.update THEN batch.update[p]
                                  ELSE Extracted(p, batch.discovered[p])]]
    BY <1>1, <1>7 DEF ExtractAffected, FailBatch, NoBatch, Resolving, Batch
  <2>3. /\ batch'.update = [p \in DOMAIN batch.update \cup affected |->
                              IF p \in DOMAIN batch.update THEN batch.update[p]
                              ELSE Extracted(p, batch.discovered[p])]
        /\ batch'.discovered = batch.discovered /\ batch'.base = batch.base
    <3> HIDE DEF affected
    <3> QED
      BY <1>1, <2>2 DEF Batch
  <2>4. \A p \in DOMAIN batch'.update :
          p \in DOMAIN batch'.discovered /\ batch'.update[p].project = batch'.discovered[p]
    BY <2>1, <2>3 DEF Extracted, BaseInv
  <2>5. /\ batch'.base.version <= graph'.version
        /\ batch'.base.version = graph'.version => batch'.base = graph'
    BY <2>1, <2>3 DEF BaseInv, Resolving
  <2> QED
    BY <2>4, <2>5 DEF BaseInv
<1>8. ASSUME NEW owner \in {"batch", "index"}, BeginIndex(owner)
      PROVE  batch' = batch \/ batch'.at \notin Resolving
  BY <1>1, <1>8 DEF BeginIndex, Batch, Resolving
<1>9. ASSUME StartBatch \/ Discover
      PROVE  batch'.at \notin Resolving
  <2>1. ASSUME StartBatch PROVE batch'.at = "discover"
    BY <2>1 DEF StartBatch, NoBatch
  <2>2. ASSUME Discover PROVE batch'.at = "open" \/ batch'.at = "idle"
    <3>1. batch' = [batch EXCEPT !.at = "open", !.discovered = DiscoverStream(disk)]
          \/ batch' = NoBatch
      BY <2>2 DEF Discover, FailBatch
    <3>2. NoBatch.at = "idle"
      BY DEF NoBatch
    <3>3. [batch EXCEPT !.at = "open", !.discovered = DiscoverStream(disk)].at = "open"
      BY <1>1 DEF Batch
    <3> QED
      BY <3>1, <3>2, <3>3
  <2> QED
    BY <1>9, <2>1, <2>2 DEF Resolving
<1>10. ASSUME Publish \/ FailBatch \/ \E g : FinishBatch(g)
       PROVE  batch'.at \notin Resolving
  BY <1>10 DEF Publish, FailBatch, FinishBatch, NoBatch, Resolving
<1>11. ASSUME ExtractAll \/ CommitIndex
       PROVE  batch' = batch \/ batch'.at \notin Resolving
  BY <1>10, <1>11 DEF ExtractAll, CommitIndex, FailBatch, FinishBatch, NoBatch, Resolving
<1> QED
  BY <1>3, <1>4, <1>5, <1>6, <1>7, <1>8, <1>9, <1>10, <1>11
  DEF Next, vars, BatchStep, Write, PublishBatch, publishStagedBatch

(* What a lookup finds in the snapshot and the batch is what it finds in   *)
(* the graph that is published.                                            *)
LEMMA TargetsPublished ==
  ASSUME NEW base, NEW update, NEW sources, NEW g, NEW q \in Paths,
         sources = [p \in Paths |-> IF p \in DOMAIN update THEN update[p] ELSE base.sources[p]],
         q \in DOMAIN update => update[q] \in Contribution,
         q \in DOMAIN update /\ Live(base.sources[q]) # Absent =>
           base.sources[q].project = update[q].project
  PROVE  ResolverTarget(base, update, g, q) = StoredTarget(sources, g, q)
<1>1. CASE q \notin DOMAIN update
  <2>1. sources[q] = base.sources[q]
    BY <1>1
  <2> QED
    BY <1>1, <2>1 DEF ResolverTarget, StoredTarget
<1>2. CASE q \in DOMAIN update
  <2>1. sources[q] = update[q] /\ Live(update[q]) = update[q] /\ update[q] # Absent
    BY <1>2, ContributionLive
  <2>2. Live(base.sources[q]) # Absent => /\ Live(base.sources[q]) = base.sources[q]
                                          /\ Group(q, base.sources[q]) = Group(q, update[q])
    BY <1>2 DEF Live, Group
  <2> QED
    BY <1>2, <2>1, <2>2 DEF ResolverTarget, StoredTarget
<1> QED
  BY <1>1, <1>2

(* So does a package, if the snapshot has the sources of it.               *)
LEMMA PackagesPublished ==
  ASSUME NEW base, NEW update, NEW sources, NEW g, NEW q \in Paths,
         sources = [p \in Paths |-> IF p \in DOMAIN update THEN update[p] ELSE base.sources[p]],
         q \in DOMAIN update => update[q] \in Contribution,
         q \in DOMAIN update /\ Live(base.sources[q]) # Absent =>
           base.sources[q].project = update[q].project,
         q \in DOMAIN update => Live(base.sources[q]) # Absent
  PROVE  ResolverPackagePage(base, update, g, q) = StoredTarget(sources, g, q)
<1>1. ResolverTarget(base, update, g, q) = StoredTarget(sources, g, q)
  BY TargetsPublished
<1>2. CASE q \notin DOMAIN update
  BY <1>1, <1>2 DEF ResolverPackagePage, ResolverTarget
<1>3. CASE q \in DOMAIN update
  <2>1. sources[q] = update[q] /\ Live(update[q]) = update[q]
    BY <1>3, ContributionLive
  <2>2. /\ Live(base.sources[q]) = base.sources[q]
        /\ Group(q, base.sources[q]) = Group(q, update[q])
    BY <1>3 DEF Live, Group
  <2> QED
    BY <1>1, <1>3, <2>1, <2>2 DEF ResolverPackagePage, StoredTarget
<1> QED
  BY <1>2, <1>3

(* So a reference leads where it leads in the published graph.             *)
LEMMA PagesPublished ==
  ASSUME NEW base, NEW update, NEW sources, NEW g, NEW p, NEW source, source.refs \subseteq Refs,
         sources = [q \in Paths |-> IF q \in DOMAIN update THEN update[q] ELSE base.sources[q]],
         \A q \in DOMAIN update \cap Paths :
           /\ update[q] \in Contribution
           /\ Live(base.sources[q]) # Absent => base.sources[q].project = update[q].project
           /\ \A r \in source.refs \cap Package :
                q \in ToSet(Candidates[r]) => Live(base.sources[q]) # Absent
  PROVE  ResolvePage(p, source, base, update, g) =
           ResolvePage(p, source, [sources |-> sources], <<>>, g)
<1> DEFINE new == [sources |-> sources]
<1>1. \A q : ResolverTarget(new, <<>>, g, q) = StoredTarget(sources, g, q)
  BY DEF ResolverTarget
<1>2. \A q : ResolverPackagePage(new, <<>>, g, q) = StoredTarget(sources, g, q)
  BY <1>1 DEF ResolverPackagePage
<1>3. \A q \in Paths : ResolverTarget(base, update, g, q) = ResolverTarget(new, <<>>, g, q)
  <2>1. ASSUME NEW q \in Paths
        PROVE  ResolverTarget(base, update, g, q) = StoredTarget(sources, g, q)
    <3>1. q \in DOMAIN update => update[q] \in Contribution
      OBVIOUS
    <3>2. q \in DOMAIN update /\ Live(base.sources[q]) # Absent =>
            base.sources[q].project = update[q].project
      OBVIOUS
    <3> QED
      BY <3>1, <3>2, TargetsPublished
  <2> QED
    BY <1>1, <2>1
<1>4. ASSUME NEW r \in source.refs
      PROVE  TargetsOf(r, base, update, g) = TargetsOf(r, new, <<>>, g)
  <2>1. Candidates[r] \in Seq(Paths) /\ \A i \in DOMAIN Candidates[r] : Candidates[r][i] \in Paths
    BY IncrementalAssumption
  <2>2. CASE r \in Package
    <3>1. \A q \in ToSet(Candidates[r]) :
            ResolverPackagePage(base, update, g, q) = ResolverPackagePage(new, <<>>, g, q)
      <4>1. \A q \in ToSet(Candidates[r]) : q \in Paths
        BY <2>1 DEF ToSet
      <4>2. ASSUME NEW q \in ToSet(Candidates[r])
            PROVE  ResolverPackagePage(base, update, g, q) = StoredTarget(sources, g, q)
        <5>1. q \in Paths /\ (q \in DOMAIN update => update[q] \in Contribution)
          BY <4>1
        <5>2. q \in DOMAIN update /\ Live(base.sources[q]) # Absent =>
                base.sources[q].project = update[q].project
          BY <4>1
        <5>3. q \in DOMAIN update => Live(base.sources[q]) # Absent
          BY <2>2, <4>1
        <5> QED
          BY <5>1, <5>2, <5>3, PackagesPublished
      <4> QED
        BY <1>2, <4>2
    <3> QED
      BY <2>2, <3>1 DEF TargetsOf
  <2>3. CASE r \notin Package
    BY <1>3, <2>1, <2>3 DEF TargetsOf
  <2> QED
    BY <2>2, <2>3
<1>5. \A r \in source.refs : TargetsOf(r, new, <<>>, g) \subseteq Paths
  BY TargetsType
<1> HIDE DEF new
<1>6. ResolvePage(p, source, base, update, g) = ResolvePage(p, source, new, <<>>, g)
  <2> DEFINE Page(r, b, u) ==
               UNION {[owner : {p}, ref : {r}, to : {q},
                       name : {File} \cup ({Binding[r]} \cap ResolverTarget(b, u, g, q).exports)]
                      : q \in TargetsOf(r, b, u, g)}
  <2>1. ASSUME NEW r \in source.refs
        PROVE  Page(r, base, update) = Page(r, new, <<>>)
    <3>1. \A q \in TargetsOf(r, new, <<>>, g) :
            ResolverTarget(base, update, g, q) = ResolverTarget(new, <<>>, g, q)
      BY <1>3, <1>5
    <3> QED
      BY <1>4, <3>1
  <2>2. /\ ResolvePage(p, source, base, update, g) = UNION {Page(r, base, update) : r \in source.refs}
        /\ ResolvePage(p, source, new, <<>>, g) = UNION {Page(r, new, <<>>) : r \in source.refs}
    BY DEF ResolvePage
  <2> HIDE DEF Page
  <2> QED
    BY <2>1, <2>2
<1> QED
  BY <1>6 DEF new

(* A full index gives the source p these edges.                            *)
LEMMA FreshEdgesOf ==
  ASSUME NEW sources \in [Paths -> Contribution \cup {Absent, Removed}], NEW p \in Paths,
         sources[p] \in Contribution
  PROVE  {e \in FreshEdges(sources) : e.owner = p} =
           ResolvePage(p, sources[p], [sources |-> sources], <<>>, Group(p, sources[p]))
<1> DEFINE Page(q) == ResolvePage(q, sources[q], [sources |-> sources], <<>>, Group(q, sources[q]))
<1> DEFINE live == {q \in Paths : Live(sources[q]) # Absent}
<1>1. \A q \in live : sources[q] \in Contribution
  BY DEF Live
<1>2. \A q \in live : \A e \in Page(q) : e.owner = q
  BY <1>1, PageEdges
<1>3. p \in live
  BY ContributionLive
<1>4. FreshEdges(sources) = UNION {Page(q) : q \in live}
  BY DEF FreshEdges
<1> HIDE DEF Page, live
<1>5. {e \in FreshEdges(sources) : e.owner = p} = Page(p)
  BY <1>2, <1>3, <1>4
<1> QED
  BY <1>5 DEF Page

(* A batch gives p these edges, unless p was in another project.           *)
LEMMA BatchEdgesOf ==
  ASSUME NEW base, NEW discovered, NEW update \in Listing(Contribution), NEW p \in DOMAIN update,
         p \in DOMAIN discovered, update[p].project = discovered[p],
         Live(base.sources[p]) # Absent => base.sources[p].project = update[p].project
  PROVE  {e \in resolveIncrementalWorkspaceFacts(base, discovered, update, {}) : e.owner = p} =
           ResolvePage(p, update[p], base, update, Group(p, update[p]))
<1> DEFINE groups == {<<discovered[q], Language[q]>> : q \in DOMAIN discovered}
<1> DEFINE Pages(g) == UNION {ResolvePage(q, update[q], base, update, g)
                              : q \in ProjectionPages(g, base, update, {})}
<1> DEFINE own == Group(p, update[p])
<1>1. \A q \in DOMAIN update : q \in Paths /\ update[q] \in Contribution
  BY DEF Listing, Supported
<1>2. \A g : ProjectionPages(g, base, update, {}) \subseteq DOMAIN update
  BY DEF ProjectionPages
<1>3. \A g : \A q \in ProjectionPages(g, base, update, {}) :
        \A e \in ResolvePage(q, update[q], base, update, g) : e.owner = q
  BY <1>1, <1>2, PageEdges
<1>4. own \in groups /\ p \in ProjectionPages(own, base, update, {})
  BY DEF Group, ProjectionPages
<1>5. \A g : p \in ProjectionPages(g, base, update, {}) => g = own
  <2>1. ASSUME NEW g, p \in ProjectionPages(g, base, update, {})
        PROVE  g = own
    <3>1. CASE StoredTarget(base.sources, g, p) # Absent
      <4>1. Live(base.sources[p]) # Absent /\ Group(p, Live(base.sources[p])) = g
        BY <3>1 DEF StoredTarget
      <4>2. Live(base.sources[p]) = base.sources[p]
        BY <4>1 DEF Live
      <4> QED
        BY <4>1, <4>2 DEF Group
    <3> QED
      BY <2>1, <3>1 DEF ProjectionPages
  <2> QED
    BY <2>1
<1>6. resolveIncrementalWorkspaceFacts(base, discovered, update, {}) = UNION {Pages(g) : g \in groups}
  BY DEF resolveIncrementalWorkspaceFacts
<1> HIDE DEF groups, own
<1>7. \A g : {e \in Pages(g) : e.owner = p} =
               IF p \in ProjectionPages(g, base, update, {})
               THEN ResolvePage(p, update[p], base, update, g) ELSE {}
  BY <1>3
<1>8. {e \in UNION {Pages(g) : g \in groups} : e.owner = p} =
        ResolvePage(p, update[p], base, update, own)
  <2> HIDE DEF Pages
  <2>1. \A g \in groups : g # own => {e \in Pages(g) : e.owner = p} = {}
    BY <1>5, <1>7
  <2>2. {e \in Pages(own) : e.owner = p} = ResolvePage(p, update[p], base, update, own)
    BY <1>4, <1>7
  <2> QED
    BY <1>4, <2>1, <2>2
<1> QED
  BY <1>6, <1>8 DEF own

(* What a batch publishes for p is what a full index would.                *)
LEMMA PublishedEdges ==
  ASSUME IndexInv, BaseInv, batch.at = "publish", Publish, NEW p \in DOMAIN batch.update,
         batch.base.version = graph.version, batch.removed = {},
         \A q \in DOMAIN batch.update : Live(graph.sources[q]) # Absent =>
           graph.sources[q].project = batch.update[q].project,
         \A r \in batch.update[p].refs \cap Package, q \in DOMAIN batch.update :
           q \in ToSet(Candidates[r]) => Live(graph.sources[q]) # Absent
  PROVE  {e \in graph'.edges : e.owner = p} = {e \in FreshEdges(graph'.sources) : e.owner = p}
<1> DEFINE edges == resolveIncrementalWorkspaceFacts(batch.base, batch.discovered, batch.update, {})
<1> DEFINE own == Group(p, batch.update[p])
<1>1. TypeOK /\ StageInv /\ batch.base = graph
  BY DEF IndexInv, BaseInv, Resolving
<1>2. batch.update \in Listing(Contribution)
      /\ \A q \in DOMAIN batch.update : q \in Paths /\ batch.update[q] \in Contribution
  BY <1>1 DEF TypeOK, Batch, Listing, Supported
<1>3. /\ graph'.sources \in [Paths -> Contribution \cup {Absent, Removed}]
      /\ graph'.sources = [q \in Paths |-> IF q \in DOMAIN batch.update THEN batch.update[q]
                                           ELSE batch.base.sources[q]]
  <2>1. graph' \in Graph
        /\ graph'.sources = [q \in Paths |-> IF q \in DOMAIN batch.update THEN batch.update[q]
                                             ELSE IF q \in batch.removed THEN Removed
                                             ELSE graph.sources[q]]
    BY <1>1, PublishedSources
  <2> QED
    BY <1>1, <2>1 DEF Graph
<1>4. graph'.edges = retainWorkspaceFacts(graph.edges, sourcePaths(batch)) \cup edges
  BY DEF Publish, PublishedGraph
<1>5. {e \in graph'.edges : e.owner = p} = {e \in edges : e.owner = p}
  <2> HIDE DEF edges
  <2> QED
    BY <1>4 DEF retainWorkspaceFacts, sourcePaths
<1>6. {e \in edges : e.owner = p} = ResolvePage(p, batch.update[p], batch.base, batch.update, own)
  <2>1. p \in DOMAIN batch.discovered /\ batch.update[p].project = batch.discovered[p]
    BY DEF BaseInv
  <2> QED
    BY <1>1, <1>2, <2>1, BatchEdgesOf
<1>7. PICK sources : sources = graph'.sources
  OBVIOUS
<1>8. sources[p] = batch.update[p] /\ sources[p] \in Contribution
  BY <1>2, <1>3, <1>7
<1>9. {e \in FreshEdges(sources) : e.owner = p} =
        ResolvePage(p, batch.update[p], [sources |-> sources], <<>>, own)
  BY <1>2, <1>3, <1>7, <1>8, FreshEdgesOf
<1>10. ResolvePage(p, batch.update[p], batch.base, batch.update, own) =
         ResolvePage(p, batch.update[p], [sources |-> sources], <<>>, own)
  <2>1. batch.update[p].refs \subseteq Refs
    BY <1>2 DEF Contribution
  <2>2. \A q \in DOMAIN batch.update \cap Paths :
          /\ batch.update[q] \in Contribution
          /\ Live(batch.base.sources[q]) # Absent =>
               batch.base.sources[q].project = batch.update[q].project
          /\ \A r \in batch.update[p].refs \cap Package :
               q \in ToSet(Candidates[r]) => Live(batch.base.sources[q]) # Absent
    BY <1>1, <1>2
  <2> HIDE DEF own
  <2> QED
    BY <1>3, <1>7, <2>1, <2>2, PagesPublished
<1> QED
  BY <1>5, <1>6, <1>7, <1>9, <1>10

LEMMA BaseAlways == Spec => []BaseInv
<1>1. Init => BaseInv
  BY DEF Init, NoBatch, BaseInv, Resolving
<1>2. IndexInv /\ BaseInv /\ [Next]_vars => BaseInv'
  BY BaseKeeps
<1> QED
  BY <1>1, <1>2, Invariance, PTL DEF Spec

(* A batch that resolves against the version it replaces, of sources that  *)
(* stay in their projects and of no new members of a package they refer    *)
(* to, gives its sources the edges of a full index.                        *)
(* (resolveIncrementalWorkspaceFacts, index.go:694)                        *)
THEOREM BatchEdgesFreshAlways == Spec => BatchEdgesFresh
<1> DEFINE Fresh ==
      \A p \in DOMAIN batch.update :
        /\ batch.at = "publish" /\ graph'.version = graph.version + 1 /\ batch'.at = "idle"
        /\ batch.base.version = graph.version /\ batch.removed = {}
        /\ \A q \in DOMAIN batch.update : Live(graph.sources[q]) # Absent =>
             graph.sources[q].project = batch.update[q].project
        /\ \A r \in batch.update[p].refs \cap Package, q \in DOMAIN batch.update :
             q \in ToSet(Candidates[r]) => Live(graph.sources[q]) # Absent
        => {e \in graph'.edges : e.owner = p} = {e \in FreshEdges(graph'.sources) : e.owner = p}
<1>1. ASSUME IndexInv, [Next]_vars, batch.at = "publish", graph'.version = graph.version + 1,
             batch'.at = "idle"
      PROVE  Publish
  <2>1. graph.version \in Nat /\ session.owner # "batch"
    BY <1>1 DEF IndexInv, TypeOK, Graph, StageInv
  <2>2. graph' # graph /\ batch' # batch
    BY <1>1, <2>1
  <2> QED
    BY <1>1, <2>1, <2>2
    DEF Next, vars, BatchStep, Write, StartBatch, Discover, OpenSnapshot, extractChangedSources,
        ExtractAffected, PublishBatch, publishStagedBatch, BeginIndex, ExtractAll, CommitIndex
<1>2. IndexInv /\ BaseInv /\ [Next]_vars => Fresh
  BY <1>1, PublishedEdges
<1>3. IndexInv /\ BaseInv /\ [Next]_vars => [Fresh]_vars
  BY <1>2
<1> QED
  BY <1>3, Invariance, BaseAlways, PTL DEF Spec, BatchEdgesFresh
=============================================================================
