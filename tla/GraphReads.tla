------------------------------ MODULE GraphReads ------------------------------
(***************************************************************************)
(* What the read commands ask of one published snapshot: the lookups, the  *)
(* bounded traversal, the explanation and the export of                    *)
(* storage/sqlite/sqlite.go, and the path search of query/path.go.         *)
(*                                                                         *)
(* Nodes are numbers in the order of their IDs.  An edge may name a node   *)
(* the snapshot does not hold.  How a search text relates to a node is     *)
(* data (Text); which nodes a search returns, in which order and how many, *)
(* is what the operators compute.                                          *)
(***************************************************************************)
EXTENDS Integers, Sequences, FiniteSets, FiniteSetsExt, Folds, SequencesExt

CONSTANTS
  Nodes,          (* node IDs, numbers above 0                              *)
  Relations,      (* relation kinds, [lang, kind]                           *)
  RelationRank,   (* RelationRank[r]: the order of their names              *)
  Kind,           (* Kind[n]: node kind, [lang, kind]                       *)
  Path,           (* Path[n]: the file of the node's evidence               *)
  NameRank        (* NameRank[n]: the order of qualified names and labels   *)

NoNode == 0

(* IDs and the names of relations are ordered, and tell them apart.        *)
ASSUME ReadsAssumption ==
  /\ IsFiniteSet(Nodes) /\ Nodes \subseteq Nat \ {NoNode}
  /\ NameRank \in [Nodes -> Nat]
  /\ IsFiniteSet(Relations) /\ RelationRank \in [Relations -> Nat]
  /\ \A r, s \in Relations : RelationRank[r] = RelationRank[s] => r = s

Edges == [source : Nodes, target : Nodes, relation : Relations]

Graphs == [nodes : SUBSET Nodes, edges : SUBSET Edges]

(* How a search text relates to a node: the rule it matches of the lookup, *)
(* its full-text score, whether it equals the label, differs from it in    *)
(* case only or in case and separators only, and how many of its tokens    *)
(* the path and the whole node hold.                                       *)
Text == [match : {"id", "name", "file", "label", "prefix", "path", "within", "none"},
         score : Nat, label : {"equal", "case", "folded", "other"}, path : Nat, tokens : Nat]

-----------------------------------------------------------------------------
(* Orders                                                                  *)

(* Lexicographic order of two equally long keys.                           *)
KeyBefore(a, b) ==
  \E i \in DOMAIN a : a[i] < b[i] /\ \A j \in 1..(i - 1) : a[j] = b[j]

(* What key gives a key, in the order of the keys.                         *)
Sorted(key) ==
  MapThenFoldSet(LAMBDA x, s : Append(s, x), <<>>, LAMBDA x : x,
                 LAMBDA R : CHOOSE x \in R : \A y \in R \ {x} : KeyBefore(key[y], key[x]), DOMAIN key)

edgeKey(e) == <<e.source, e.target, RelationRank[e.relation]>>

sortedEdges(edges) == Sorted([e \in edges |-> edgeKey(e)])

uniqueSortedStrings(ids) == Sorted([n \in ids |-> <<n>>])

FirstN(s, limit) == SubSeq(s, 1, IF Len(s) < limit THEN Len(s) ELSE limit)

(* The elements of s at these positions, in their order.                   *)
At(s, positions) ==
  LET order == Sorted([i \in positions |-> <<i>>]) IN [k \in DOMAIN order |-> s[order[k]]]

(* f with the value v at x, which is new.                                  *)
With(f, x, v) == [y \in DOMAIN f \cup {x} |-> IF y = x THEN v ELSE f[y]]

-----------------------------------------------------------------------------
(* Lookups                                                                 *)

(* Everything the projects contain, and the projects, known or not.        *)
readScopedNodeIDs(g, projects) ==
  LET scoped[i \in 0..Cardinality(Nodes)] ==
        IF i = 0 THEN projects
        ELSE LET inside == scoped[i - 1]
             IN inside \cup {e.target : e \in {f \in g.edges :
                  f.source \in inside /\ f.relation = [lang |-> "", kind |-> "contains"]}}
  IN scoped[Cardinality(Nodes)]

InScope(g, projects, n) == projects = {} \/ n \in readScopedNodeIDs(g, projects)

LookupExactNodes(g, text) ==
  LET matching == {n \in g.nodes : \/ text[n].match \in {"id", "name"}
                                   \/ text[n].match = "file" /\ Kind[n].kind = "file"}
  IN Sorted([n \in matching |-> <<NameRank[n], n>>])

(* The rank nodeLookupSQL gives the rule that matched.                     *)
MatchRank(match) ==
  CASE match = "id" -> 0 [] match = "name" -> 1 [] match = "label" -> 2
    [] match = "prefix" -> 3 [] match \in {"path", "file"} -> 4 [] OTHER -> 5

LookupNodes(g, text, kinds, projects, limit) ==
  LET matching == {n \in g.nodes : /\ text[n].match # "none"
                                   /\ InScope(g, projects, n)
                                   /\ kinds = {} \/ Kind[n] \in kinds}
  IN FirstN(Sorted([n \in matching |-> <<MatchRank(text[n].match), NameRank[n], n>>]), limit)

SearchNodes(g, text, kinds, projects, limit) ==
  LET matching == {n \in g.nodes : /\ text[n].score > 0
                                   /\ InScope(g, projects, n)
                                   /\ kinds = {} \/ Kind[n] \in kinds}
  IN FirstN(Sorted([n \in matching |-> <<IF text[n].label = "other" THEN 1 ELSE 0,
                                         -text[n].score, NameRank[n], n>>]),
            limit)

(* query.lookupTermMatches and pathEndpointMatches: exact matches hide the *)
(* others.                                                                 *)
lookupTermMatches(g, text, limit) ==
  IF LookupExactNodes(g, text) # <<>> THEN FirstN(LookupExactNodes(g, text), limit)
  ELSE LookupNodes(g, text, {}, {}, limit)

pathEndpointMatches(g, text, maxSeeds) ==
  IF LookupExactNodes(g, text) # <<>> THEN LookupExactNodes(g, text)
  ELSE LookupNodes(g, text, {}, {}, maxSeeds + 1)

-----------------------------------------------------------------------------
(* Traverse                                                                *)

TraversalRequest ==
  [starts : SUBSET Nodes, projects : SUBSET Nodes, direction : {"outgoing", "incoming", "both"},
   relations : SUBSET Relations, maxDepth : Nat, maxNodes : Nat \ {0}]

traversalNeighbor(n, e, direction) ==
  IF direction \in {"outgoing", "both"} /\ e.source = n THEN e.target
  ELSE IF direction \in {"incoming", "both"} /\ e.target = n THEN e.source
  ELSE NoNode

readIncidentEdges(g, n) == sortedEdges({e \in g.edges : n \in {e.source, e.target}})

Allows(relations, e) == relations = {} \/ e.relation \in relations

NoTraversal == [at |-> "start", nodes |-> {}, edges |-> {}, frontier |-> {}, next |-> {},
                reasons |-> {}, boundary |-> NoNode]

(* One start node: unknown ones are skipped, one out of scope is an error, *)
(* and the node limit ends the traversal at once.                          *)
AddStart(g, r, t, n) ==
  IF t.at # "start" \/ n \notin g.nodes THEN t
  ELSE IF ~InScope(g, r.projects, n) THEN [t EXCEPT !.at = "error"]
  ELSE IF Cardinality(t.nodes) = r.maxNodes
       THEN [t EXCEPT !.at = "done", !.reasons = {"node_limit"}]
  ELSE [t EXCEPT !.nodes = @ \cup {n}, !.frontier = @ \cup {n}]

(* One incident edge of a frontier node.  A neighbour out of scope ends    *)
(* its branch; the first one is reported.                                  *)
VisitEdge(g, r, t, n, e) ==
  LET m == traversalNeighbor(n, e, r.direction)
      full == Cardinality(t.nodes) = r.maxNodes
  IN IF m \notin g.nodes \/ ~Allows(r.relations, e) THEN t
     ELSE IF ~InScope(g, r.projects, m)
          THEN LET u == [t EXCEPT !.boundary = IF @ = NoNode THEN m ELSE @]
               IN IF full THEN [u EXCEPT !.reasons = @ \cup {"node_limit"}]
                  ELSE [u EXCEPT !.nodes = @ \cup {m}, !.edges = @ \cup {e}]
     ELSE IF m \notin t.nodes /\ full THEN [t EXCEPT !.reasons = @ \cup {"node_limit"}]
     ELSE [t EXCEPT !.nodes = @ \cup {m}, !.edges = @ \cup {e},
                    !.next = IF m \in t.nodes THEN @ ELSE @ \cup {m}]

NextLevel(t) == [t EXCEPT !.frontier = t.next, !.next = {}]

ExpandNode(g, r, t, n) ==
  FoldLeft(LAMBDA u, e : VisitEdge(g, r, u, n, e), t, readIncidentEdges(g, n))

ExpandFrontier(g, r, t) ==
  NextLevel(FoldLeft(LAMBDA u, n : ExpandNode(g, r, u, n), t, uniqueSortedStrings(t.frontier)))

(* Whatever the edge leads to: neither the node nor its scope is looked up.*)
hasTraversableNeighbor(g, r, t, n) ==
  \E e \in g.edges : /\ Allows(r.relations, e)
                     /\ traversalNeighbor(n, e, r.direction) \notin t.nodes \cup {NoNode}

(* Variant: looks at the level after the last, which is not filled.        *)
DepthUnreported(g, r, t) ==
  [t EXCEPT !.at = "done",
            !.reasons = IF \E n \in t.next : hasTraversableNeighbor(g, r, t, n)
                        THEN @ \cup {"depth_limit"} ELSE @]

DepthLimited(g, r, t) ==
  [t EXCEPT !.at = "done",
            !.reasons = IF \E n \in t.frontier : hasTraversableNeighbor(g, r, t, n)
                        THEN @ \cup {"depth_limit"} ELSE @]

TraverseFrom(g, r, started) ==
  LET level[d \in 0..r.maxDepth] ==
        IF d = 0 THEN started ELSE ExpandFrontier(g, r, level[d - 1])
  IN IF started.at # "start" THEN started ELSE DepthLimited(g, r, level[r.maxDepth])

Traverse(g, r) ==
  TraverseFrom(g, r, FoldLeft(LAMBDA t, n : AddStart(g, r, t, n), NoTraversal,
                              uniqueSortedStrings(r.starts)))

-----------------------------------------------------------------------------
(* Explain and Export                                                      *)

Explain(g, n) ==
  LET edges == {e \in g.edges : n \in {e.source, e.target}}
  IN [nodes |-> {m \in g.nodes : m = n \/ \E e \in edges : m \in {e.source, e.target}},
      edges |-> edges]

(* Without a filter everything is written as it is stored; with one, the   *)
(* edges between the nodes written.                                        *)
exportUnfiltered(g) == g

Export(g, kinds, relations) ==
  LET nodes == {n \in g.nodes : kinds = {} \/ Kind[n] \in kinds}
  IN IF kinds = {} /\ relations = {} THEN exportUnfiltered(g)
     ELSE [nodes |-> nodes,
           edges |-> {e \in g.edges : Allows(relations, e) /\ {e.source, e.target} \subseteq nodes}]

-----------------------------------------------------------------------------
(* query/path.go                                                           *)

NoPath == [nodes |-> <<>>, edges |-> <<>>]

(* Breadth first over the facts of a traversal, edges in their order; the  *)
(* first edge that reaches a node is the one a path takes.                 *)
Discover(facts, s, n, m, e) ==
  IF m \notin facts.nodes \/ m \in DOMAIN s.by THEN s
  ELSE [queue |-> Append(s.queue, m), by |-> With(s.by, m, [node |-> n, edge |-> e])]

DiscoverFrom(facts, s, n, undirected) ==
  FoldLeft(LAMBDA u, e : Discover(facts, u, n, IF undirected /\ e.target = n THEN e.source ELSE e.target, e),
           s, sortedEdges({e \in facts.edges : e.source = n \/ (undirected /\ e.target = n)}))

SearchFrom(facts, s, target, undirected) ==
  IF s.queue = <<>> \/ Head(s.queue) = target THEN s
  ELSE DiscoverFrom(facts, [s EXCEPT !.queue = Tail(@)], Head(s.queue), undirected)

StepBack(by, source, p) ==
  LET n == Head(p.nodes)
  IN IF n = source THEN p
     ELSE [nodes |-> <<by[n].node>> \o p.nodes, edges |-> <<by[n].edge>> \o p.edges]

PathBack(by, source, target) ==
  LET back[i \in 0..Cardinality(Nodes)] ==
        IF i = 0 THEN [nodes |-> <<target>>, edges |-> <<>>] ELSE StepBack(by, source, back[i - 1])
  IN IF target \in DOMAIN by THEN back[Cardinality(Nodes)] ELSE NoPath

shortestPath(facts, source, target, undirected) ==
  LET search[i \in 0..Cardinality(Nodes)] ==
        IF i = 0 THEN [queue |-> <<source>>, by |-> [n \in {source} |-> [node |-> NoNode]]]
        ELSE SearchFrom(facts, search[i - 1], target, undirected)
  IN IF {source, target} \subseteq facts.nodes
     THEN PathBack(search[Cardinality(Nodes)].by, source, target) ELSE NoPath

(* Candidates are listed for an endpoint that is not one node.             *)
ambiguousPathCandidates(nodes, maxSeeds) ==
  IF Len(nodes) = 1 THEN <<>> ELSE FirstN(nodes, maxSeeds)

pathCandidateRemainder(nodes, maxSeeds) ==
  IF Len(nodes) > maxSeeds THEN Len(nodes) - maxSeeds ELSE 0

NoPathResult == [error |-> FALSE, sources |-> <<>>, targets |-> <<>>, remainder |-> <<0, 0>>,
                 path |-> NoPath, boundary |-> NoNode, fallback |-> FALSE]

PathTraversal(g, p, source, direction) ==
  Traverse(g, [starts |-> {source}, projects |-> p.projects, direction |-> direction,
               relations |-> p.relations, maxDepth |-> p.maxDepth, maxNodes |-> p.maxNodes])

PathFound(t, path, undirected) ==
  IF t.at = "error" THEN [NoPathResult EXCEPT !.error = TRUE]
  ELSE [NoPathResult EXCEPT !.path = path, !.fallback = undirected,
          !.boundary = IF path = NoPath THEN NoNode ELSE t.boundary]

PathSearched(t, source, target, undirected) ==
  PathFound(t, shortestPath(t, source, target, undirected), undirected)

OrUndirected(g, p, source, target, directed) ==
  IF directed.error \/ directed.path # NoPath \/ ~p.undirected THEN directed
  ELSE PathSearched(PathTraversal(g, p, source, "both"), source, target, TRUE)

PathBetween(g, p, sources, targets, maxSeeds) ==
  IF Len(sources) # 1 \/ Len(targets) # 1
  THEN [NoPathResult EXCEPT !.sources = ambiguousPathCandidates(sources, maxSeeds),
          !.targets = ambiguousPathCandidates(targets, maxSeeds),
          !.remainder = <<pathCandidateRemainder(sources, maxSeeds),
                          pathCandidateRemainder(targets, maxSeeds)>>]
  ELSE OrUndirected(g, p, sources[1], targets[1],
                    PathSearched(PathTraversal(g, p, sources[1], "outgoing"), sources[1], targets[1], FALSE))

(* p: the texts of both endpoints, projects, relations, limits, and        *)
(* whether an undirected path may stand in.                                *)
FindPathSnapshot(g, p, maxSeeds) ==
  PathBetween(g, p, pathEndpointMatches(g, p.source, maxSeeds),
              pathEndpointMatches(g, p.target, maxSeeds), maxSeeds)

ExplainSnapshot(g, text, maxSeeds) ==
  LET candidates == lookupTermMatches(g, text, maxSeeds + 1)
  IN IF Len(candidates) # 1
     THEN [candidates |-> FirstN(candidates, maxSeeds), node |-> NoNode,
           remainder |-> pathCandidateRemainder(candidates, maxSeeds),
           facts |-> [nodes |-> {}, edges |-> {}]]
     ELSE [candidates |-> <<>>, node |-> candidates[1], remainder |-> 0,
           facts |-> Explain(g, candidates[1])]
=============================================================================
