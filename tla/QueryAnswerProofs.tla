--------------------------- MODULE QueryAnswerProofs ---------------------------
(***************************************************************************)
(* Proofs that the paths and the evidence of QueryCommand are right, for   *)
(* every graph and request.  The store searches the snapshot and returns   *)
(* facts; a path and the evidence come of a second search, over the facts. *)
(* That both find a node equally far away is what has to be shown.         *)
(***************************************************************************)
EXTENDS QueryCommandProofs

-----------------------------------------------------------------------------
(* Distances over the facts of a traversal                                 *)

Facts(t) == [nodes |-> t.nodes, edges |-> t.edges]

(* A walk over facts: of any relation, in no scope.                        *)
Free(r) == [starts |-> r.starts, projects |-> {}, relations |-> {}, direction |-> r.direction]

(* The facts of a traversal are a graph.                                   *)
LEMMA FactsGraph ==
  ASSUME NEW g \in Graphs, NEW t, t.nodes \in SUBSET g.nodes, t.edges \in SUBSET g.edges
  PROVE  Facts(t) \in Graphs
BY DEF Facts, Graphs

(* A walk over facts goes on along any edge.                               *)
LEMMA FreeFurther ==
  ASSUME NEW g \in Graphs, NEW r, r.direction \in {"outgoing", "incoming", "both"}, NEW X \in SUBSET g.nodes
  PROVE  \A m : m \in WalkFurther(g, Free(r), X) <=>
                  \/ m \in X
                  \/ m \in g.nodes /\ \E n \in X : \E e \in g.edges : traversalNeighbor(n, e, r.direction) = m
<1>1. PICK q : q = Free(r)
  OBVIOUS
<1>2. q.projects = {} /\ q.relations = {} /\ q.direction = r.direction
  BY <1>1 DEF Free
<1>3. q.direction \in {"outgoing", "incoming", "both"}
  BY <1>2
<1>4. \A m : m \in WalkFurther(g, q, X) <=>
               m \in X \/ \E n \in X : InScope(g, q.projects, n) /\ \E e \in g.edges : LinksTo(g, q, n, e, m)
  BY <1>3, FurtherLinks
<1>5. \A n, e, m : LinksTo(g, q, n, e, m) <=> m \in g.nodes /\ traversalNeighbor(n, e, r.direction) = m
  BY <1>2 DEF LinksTo, Allows
<1>6. \A n : InScope(g, q.projects, n)
  BY <1>2 DEF InScope
<1> QED
  BY <1>1, <1>4, <1>5, <1>6

(* A walk of d edges is one of any larger number.                          *)
LEMMA ReachUpTo ==
  ASSUME NEW g \in Graphs, NEW r, NEW d \in Nat, NEW k \in Nat, d <= k
  PROVE  Reach(g, r, d) \subseteq Reach(g, r, k)
<1>1. k - d \in Nat /\ d + (k - d) = k
  OBVIOUS
<1> QED
  BY <1>1, ReachGrows

(* With more facts a walk leads at least as far.                           *)
LEMMA MoreFacts ==
  ASSUME NEW f \in Graphs, NEW h \in Graphs, f.nodes \subseteq h.nodes, f.edges \subseteq h.edges,
         NEW r, r.direction \in {"outgoing", "incoming", "both"}
  PROVE  \A d \in Nat : Reach(f, Free(r), d) \subseteq Reach(h, Free(r), d)
<1> DEFINE T == {d \in Nat : Reach(f, Free(r), d) \subseteq Reach(h, Free(r), d)}
<1>1. 0 \in T
  <2>1. Reach(f, Free(r), 0) = Free(r).starts \cap f.nodes /\ Reach(h, Free(r), 0) = Free(r).starts \cap h.nodes
    BY ReachFacts
  <2> QED
    BY <2>1
<1>2. ASSUME NEW d \in Nat, d \in T PROVE d + 1 \in T
  <2>1. PICK A, B : A = Reach(f, Free(r), d) /\ B = Reach(h, Free(r), d)
    OBVIOUS
  <2>2. /\ A \in SUBSET f.nodes /\ B \in SUBSET h.nodes /\ A \subseteq B
        /\ Reach(f, Free(r), d + 1) = WalkFurther(f, Free(r), A)
        /\ Reach(h, Free(r), d + 1) = WalkFurther(h, Free(r), B)
    BY <1>2, <2>1, ReachFacts
  <2>3. ASSUME NEW m \in WalkFurther(f, Free(r), A) PROVE m \in WalkFurther(h, Free(r), B)
    <3>1. m \in A \/ (m \in f.nodes /\ \E n \in A : \E e \in f.edges : traversalNeighbor(n, e, r.direction) = m)
      BY <2>2, FreeFurther
    <3>2. m \in B \/ (m \in h.nodes /\ \E n \in B : \E e \in h.edges : traversalNeighbor(n, e, r.direction) = m)
      BY <2>2, <3>1
    <3> QED
      BY <2>2, <3>2, FreeFurther
  <2>4. d + 1 \in Nat
    OBVIOUS
  <2> QED
    BY <2>2, <2>3, <2>4
<1>3. \A d \in Nat : d \in T
  <2> HIDE DEF T
  <2> QED
    BY <1>1, <1>2, NatInductionOn
<1> QED
  BY <1>3

-----------------------------------------------------------------------------
(* What a traversal keeps of the distances                                 *)

(* Every edge leads on from a node in scope; over the facts no node is     *)
(* further than it is in the graph; the node limit is reported only when   *)
(* there is no room; and without a boundary everything is in scope.        *)
Kept(g, r, t) ==
  /\ \A e \in t.edges : \E n \in t.nodes, m \in t.nodes : InScope(g, r.projects, n) /\ LinksTo(g, r, n, e, m)
  /\ \A k \in Nat : \A n \in t.nodes : n \in Reach(g, r, k) => n \in Reach(Facts(t), Free(r), k)
  /\ "node_limit" \in t.reasons => Cardinality(t.nodes) = r.maxNodes
  /\ t.boundary = NoNode => \A n \in t.nodes : InScope(g, r.projects, n)

(* Only these parts of a traversal matter.                                 *)
LEMMA KeptSame ==
  ASSUME NEW g, NEW r, NEW t, NEW u, Kept(g, r, t), u.nodes = t.nodes, u.edges = t.edges,
         "node_limit" \in u.reasons => "node_limit" \in t.reasons, u.boundary = t.boundary
  PROVE  Kept(g, r, u)
<1>1. Facts(u) = Facts(t)
  BY DEF Facts
<1>2. Cardinality(u.nodes) = Cardinality(t.nodes)
  BY Zenon
<1> QED
  BY <1>1, <1>2 DEF Kept

(* A visited edge keeps the distances: what it adds was not within the     *)
(* levels before, as those are complete while there is room.               *)
LEMMA VisitKept ==
  ASSUME NEW g \in Graphs, NEW r, r.direction \in {"outgoing", "incoming", "both"}, r.maxNodes \in Nat,
         NEW d \in Nat, NEW t, LevelInv(g, r, d, t), NEW u, Visiting(g, r, t, u, {}), Kept(g, r, u),
         NEW n \in t.frontier, NEW e \in g.edges
  PROVE  Kept(g, r, VisitEdge(g, r, u, n, e))
<1>1. PICK m : m = traversalNeighbor(n, e, r.direction)
  OBVIOUS
<1>2. PICK w : w = VisitEdge(g, r, u, n, e)
  OBVIOUS
<1>3. w \in TraversalsOf(g) /\ u \in TraversalsOf(g)
  BY <1>2, VisitTyped DEF Visiting
<1>4. PICK full \in BOOLEAN : full <=> Cardinality(u.nodes) = r.maxNodes
  OBVIOUS
<1>5. n \in u.nodes /\ n \in t.nodes /\ InScope(g, r.projects, n) /\ n \in Reach(g, r, d)
  BY DEF LevelInv, Visiting
<1>6. CASE m \notin g.nodes \/ ~Allows(r.relations, e)
  <2>1. w = u
    BY <1>1, <1>2, <1>6 DEF VisitEdge
  <2> QED
    BY <1>2, <2>1
<1>7. CASE m \in g.nodes /\ Allows(r.relations, e) /\ full /\ (~InScope(g, r.projects, m) \/ m \notin u.nodes)
  <2>1. /\ w.nodes = u.nodes /\ w.edges = u.edges
        /\ w.boundary = NoNode => u.boundary = NoNode
    <3>1. m # NoNode
      BY <1>7, ReadsAssumption DEF Graphs
    <3> QED
      BY <1>1, <1>2, <1>3, <1>4, <1>7, <3>1 DEF VisitEdge, TraversalsOf
  <2>2. Facts(w) = Facts(u)
    BY <2>1 DEF Facts
  <2>3. Cardinality(w.nodes) = r.maxNodes
    BY <1>4, <1>7, <2>1, Zenon
  <2>4. Kept(g, r, w)
    BY <2>1, <2>2, <2>3 DEF Kept
  <2> QED
    BY <1>2, <2>4
<1>8. CASE m \in g.nodes /\ Allows(r.relations, e) /\ (~full \/ (InScope(g, r.projects, m) /\ m \in u.nodes))
  <2>1. /\ w.nodes = u.nodes \cup {m} /\ w.edges = u.edges \cup {e} /\ w.reasons = u.reasons
        /\ w.boundary = NoNode => u.boundary = NoNode /\ InScope(g, r.projects, m)
    <3>1. m # NoNode
      BY <1>8, ReadsAssumption DEF Graphs
    <3>2. CASE InScope(g, r.projects, m)
      BY <1>1, <1>2, <1>3, <1>4, <1>8, <3>1, <3>2 DEF VisitEdge, TraversalsOf
    <3>3. CASE ~InScope(g, r.projects, m)
      BY <1>1, <1>2, <1>3, <1>4, <1>8, <3>1, <3>3 DEF VisitEdge, TraversalsOf
    <3> QED
      BY <3>2, <3>3
  <2>2. \A f \in w.edges : \E x \in w.nodes, y \in w.nodes : InScope(g, r.projects, x) /\ LinksTo(g, r, x, f, y)
    <3>1. LinksTo(g, r, n, e, m)
      BY <1>1, <1>8 DEF LinksTo
    <3>2. ASSUME NEW f \in w.edges
          PROVE  \E x \in w.nodes, y \in w.nodes : InScope(g, r.projects, x) /\ LinksTo(g, r, x, f, y)
      <4>1. CASE f = e
        BY <1>5, <2>1, <3>1, <4>1
      <4>2. CASE f \in u.edges
        <5>1. PICK x \in u.nodes, y \in u.nodes : InScope(g, r.projects, x) /\ LinksTo(g, r, x, f, y)
          BY <4>2 DEF Kept
        <5> QED
          BY <2>1, <5>1
      <4> QED
        BY <2>1, <4>1, <4>2
    <3> QED
      BY <3>2
  <2>3. Facts(u) \in Graphs /\ Facts(w) \in Graphs
    BY <1>3, FactsGraph DEF TraversalsOf
  <2>4. \A k \in Nat : Reach(Facts(u), Free(r), k) \subseteq Reach(Facts(w), Free(r), k)
    <3>1. Facts(u).nodes \subseteq Facts(w).nodes /\ Facts(u).edges \subseteq Facts(w).edges
      BY <2>1 DEF Facts
    <3> QED
      BY <2>3, <3>1, MoreFacts
  <2>5. \A k \in Nat : \A x \in u.nodes : x \in Reach(g, r, k) => x \in Reach(Facts(w), Free(r), k)
    BY <2>4 DEF Kept
  <2>6. ASSUME m \notin u.nodes, NEW k \in Nat, m \in Reach(g, r, k) PROVE m \in Reach(Facts(w), Free(r), k)
    <3>1. "node_limit" \notin u.reasons
      BY <1>4, <1>8, <2>6 DEF Kept
    <3>2. t.nodes = Reach(g, r, d) /\ t.nodes \subseteq u.nodes
      BY <3>1 DEF LevelInv, Visiting
    <3>3. ~(k <= d)
      BY <2>6, <3>2, ReachUpTo
    <3>4. d + 1 \in Nat /\ d + 1 <= k
      BY <3>3
    <3>5. n \in Reach(Facts(w), Free(r), d)
      BY <1>5, <2>5
    <3>6. Reach(Facts(w), Free(r), d) \in SUBSET Facts(w).nodes
          /\ Reach(Facts(w), Free(r), d + 1) = WalkFurther(Facts(w), Free(r), Reach(Facts(w), Free(r), d))
      BY <2>3, ReachFacts
    <3>7. m \in Facts(w).nodes /\ e \in Facts(w).edges
      BY <2>1 DEF Facts
    <3>8. m \in Reach(Facts(w), Free(r), d + 1)
      BY <1>1, <2>3, <3>5, <3>6, <3>7, FreeFurther
    <3> QED
      BY <2>3, <3>4, <3>8, ReachUpTo
  <2>7. "node_limit" \in w.reasons => Cardinality(w.nodes) = r.maxNodes
    <3>1. ASSUME "node_limit" \in w.reasons PROVE Cardinality(w.nodes) = r.maxNodes
      <4>1. Cardinality(u.nodes) = r.maxNodes
        BY <2>1, <3>1 DEF Kept
      <4>2. u.nodes \cup {m} = u.nodes
        BY <1>4, <1>8, <4>1
      <4>3. w.nodes = u.nodes
        BY <2>1, <4>2
      <4> QED
        BY <4>1, <4>3, Zenon
    <3> QED
      BY <3>1
  <2>8. w.boundary = NoNode => \A x \in w.nodes : InScope(g, r.projects, x)
    BY <2>1 DEF Kept
  <2>9. \A k \in Nat : \A x \in w.nodes : x \in Reach(g, r, k) => x \in Reach(Facts(w), Free(r), k)
    BY <2>1, <2>5, <2>6
  <2>10. Kept(g, r, w)
    BY <2>2, <2>7, <2>8, <2>9 DEF Kept
  <2> QED
    BY <1>2, <2>10
<1> QED
  BY <1>4, <1>6, <1>7, <1>8

(* A frontier node that is expanded keeps the distances. (ExpandNode)      *)
LEMMA NodeKept ==
  ASSUME NEW g \in Graphs, NEW r, r.direction \in {"outgoing", "incoming", "both"}, r.maxNodes \in Nat,
         NEW d \in Nat, NEW t, LevelInv(g, r, d, t), NEW u, Visiting(g, r, t, u, {}), Kept(g, r, u),
         NEW n \in t.frontier
  PROVE  Visiting(g, r, t, ExpandNode(g, r, u, n), {}) /\ Kept(g, r, ExpandNode(g, r, u, n))
<1>1. PICK E \in SUBSET g.edges : E = {e \in g.edges : n \in {e.source, e.target}}
  OBVIOUS
<1>2. PICK seq : seq = readIncidentEdges(g, n)
  OBVIOUS
<1>3. seq \in Seq(g.edges)
  <2>1. E \in SUBSET Edges
    BY DEF Graphs
  <2>2. seq \in Seq(E)
    BY <1>1, <1>2, <2>1, SortedEdgesFacts DEF readIncidentEdges
  <2> QED
    BY <2>2
<1>4. Len(seq) \in Nat /\ DOMAIN seq = 1..Len(seq) /\ \A i \in 1..Len(seq) : seq[i] \in g.edges
  BY <1>3
<1>5. PICK a : VisitsRun(a, g, r, u, n, seq) /\ ExpandNode(g, r, u, n) = a[Len(seq)]
  BY <1>2, <1>3, VisitsFold DEF Visiting
<1>6. t \in TraversalsOf(g) /\ n \in t.nodes /\ InScope(g, r.projects, n)
  BY DEF LevelInv
<1> DEFINE T == {i \in 0..Len(seq) : Visiting(g, r, t, a[i], {}) /\ Kept(g, r, a[i])}
<1>7. 0 \in T
  BY <1>4, <1>5 DEF VisitsRun
<1>8. ASSUME NEW i \in 1..Len(seq), i - 1 \in T PROVE i \in T
  <2>1. a[i] = VisitEdge(g, r, a[i - 1], n, seq[i]) /\ seq[i] \in g.edges
    BY <1>4, <1>5 DEF VisitsRun
  <2>2. Visiting(g, r, t, a[i - 1], {}) /\ Kept(g, r, a[i - 1])
    BY <1>8
  <2>3. PICK v : v = a[i - 1]
    OBVIOUS
  <2>4. PICK e \in g.edges : e = seq[i]
    BY <2>1
  <2>5. Visiting(g, r, t, v, {}) /\ Kept(g, r, v) /\ a[i] = VisitEdge(g, r, v, n, e)
    BY <2>1, <2>2, <2>3, <2>4
  <2>6. Visiting(g, r, t, VisitEdge(g, r, v, n, e), {} \cup {<<n, e>>})
    BY <1>6, <2>5, VisitKeeps
  <2>7. Visiting(g, r, t, VisitEdge(g, r, v, n, e), {})
    BY <2>6 DEF Visiting
  <2>8. Kept(g, r, VisitEdge(g, r, v, n, e))
    BY <2>5, VisitKept
  <2> QED
    BY <1>4, <2>5, <2>7, <2>8
<1>9. \A i \in 0..Len(seq) : i \in T
  <2> HIDE DEF T
  <2> QED
    BY <1>4, <1>7, <1>8, UpToInduction
<1> QED
  BY <1>4, <1>5, <1>9

(* So does a level. (ExpandFrontier)                                       *)
LEMMA LevelKept ==
  ASSUME NEW g \in Graphs, NEW r, r.direction \in {"outgoing", "incoming", "both"}, r.maxNodes \in Nat,
         NEW d \in Nat, NEW t, LevelInv(g, r, d, t), Kept(g, r, t)
  PROVE  Kept(g, r, ExpandFrontier(g, r, t))
<1>1. t \in TraversalsOf(g) /\ t.frontier \in SUBSET Nodes /\ t.nodes \in SUBSET g.nodes
  BY DEF LevelInv, TraversalsOf, Graphs
<1>2. PICK seq : seq = uniqueSortedStrings(t.frontier)
  OBVIOUS
<1>3. seq \in Seq(Nodes) /\ ToSet(seq) = t.frontier
  <2>1. seq \in Seq(t.frontier) /\ ToSet(seq) = t.frontier
    BY <1>1, <1>2, SortedStringsFacts
  <2> QED
    BY <1>1, <2>1
<1>4. Len(seq) \in Nat /\ DOMAIN seq = 1..Len(seq) /\ \A i \in 1..Len(seq) : seq[i] \in t.frontier
  BY <1>3 DEF ToSet
<1>5. PICK a : NodesRun(a, g, r, t, seq) /\ ExpandFrontier(g, r, t) = NextLevel(a[Len(seq)])
  BY <1>1, <1>2, <1>3, NodesFold
<1> DEFINE T == {i \in 0..Len(seq) : Visiting(g, r, t, a[i], {}) /\ Kept(g, r, a[i])}
<1>6. 0 \in T
  <2>1. a[0] = t
    BY <1>5 DEF NodesRun
  <2>2. t.nodes \subseteq WalkFurther(g, r, t.nodes)
    BY <1>1, FurtherFacts
  <2>3. Visiting(g, r, t, t, {})
    BY <2>2 DEF Visiting, LevelInv
  <2> QED
    BY <1>4, <2>1, <2>3
<1>7. ASSUME NEW i \in 1..Len(seq), i - 1 \in T PROVE i \in T
  <2>1. a[i] = ExpandNode(g, r, a[i - 1], seq[i]) /\ seq[i] \in t.frontier
    BY <1>4, <1>5 DEF NodesRun
  <2>2. PICK v : v = a[i - 1]
    OBVIOUS
  <2>3. PICK n \in t.frontier : n = seq[i]
    BY <2>1
  <2>4. Visiting(g, r, t, v, {}) /\ Kept(g, r, v) /\ a[i] = ExpandNode(g, r, v, n)
    BY <1>7, <2>1, <2>2, <2>3
  <2>5. Visiting(g, r, t, ExpandNode(g, r, v, n), {}) /\ Kept(g, r, ExpandNode(g, r, v, n))
    BY <2>4, NodeKept
  <2> QED
    BY <1>4, <2>4, <2>5
<1>8. PICK u : u = a[Len(seq)]
  OBVIOUS
<1>9. Visiting(g, r, t, u, {}) /\ Kept(g, r, u)
  <2>1. \A i \in 0..Len(seq) : i \in T
    <3> HIDE DEF T
    <3> QED
      BY <1>4, <1>6, <1>7, UpToInduction
  <2> QED
    BY <1>4, <1>8, <2>1
<1>10. PICK w : w = NextLevel(u)
  OBVIOUS
<1>11. w.nodes = u.nodes /\ w.edges = u.edges /\ w.reasons = u.reasons /\ w.boundary = u.boundary
  BY <1>9, <1>10 DEF NextLevel, Visiting, TraversalsOf
<1>12. Kept(g, r, w)
  BY <1>9, <1>11, KeptSame
<1> QED
  BY <1>5, <1>8, <1>10, <1>12

(* The starts are where the walks start.                                   *)
LEMMA StartKept ==
  ASSUME NEW g \in Graphs, NEW r, NEW t, Started(g, r, t, r.starts), t.at # "error"
  PROVE  Kept(g, r, t)
<1>1. t \in TraversalsOf(g) /\ t.edges = {} /\ t.boundary = NoNode /\ t.nodes \subseteq r.starts
      /\ ("node_limit" \in t.reasons => Cardinality(t.nodes) = r.maxNodes)
      /\ \A n \in t.nodes : InScope(g, r.projects, n)
  BY DEF Started, TraversalsOf
<1>2. Facts(t) \in Graphs /\ Facts(t).nodes = t.nodes
  BY <1>1, FactsGraph DEF TraversalsOf, Facts
<1>3. ASSUME NEW k \in Nat PROVE t.nodes \subseteq Reach(Facts(t), Free(r), k)
  <2>1. Reach(Facts(t), Free(r), 0) = r.starts \cap t.nodes
    BY <1>2, ReachFacts DEF Free
  <2>2. Reach(Facts(t), Free(r), 0) \subseteq Reach(Facts(t), Free(r), k)
    BY <1>2, ReachUpTo
  <2> QED
    BY <1>1, <2>1, <2>2
<1> QED
  BY <1>1, <1>3 DEF Kept

(* What a traversal returns has kept the distances. (Traverse)             *)
LEMMA TraverseKept ==
  ASSUME NEW g \in Graphs, NEW r, r.direction \in {"outgoing", "incoming", "both"}, r.maxNodes \in Nat,
         r.maxDepth \in Nat, r.starts \in SUBSET Nodes, Traverse(g, r).at # "error"
  PROVE  Kept(g, r, Traverse(g, r))
<1>1. PICK t : Started(g, r, t, r.starts) /\ Traverse(g, r) = TraverseFrom(g, r, t)
  BY AllStarted
<1>2. t \in TraversalsOf(g) /\ Reach(g, r, 0) = r.starts \cap g.nodes
  BY <1>1, ReachFacts DEF Started
<1>3. CASE t.at # "start"
  <2>1. TraverseFrom(g, r, t) = t
    BY <1>3 DEF TraverseFrom
  <2> QED
    BY <1>1, <2>1, StartKept
<1>4. CASE t.at = "start"
  <2>1. PICK a : Levels(a, g, r, t)
    BY <1>2, LevelsIterate
  <2> DEFINE T == {d \in 0..r.maxDepth : LevelInv(g, r, d, a[d]) /\ Kept(g, r, a[d])}
  <2>2. 0 \in T
    <3>1. LevelInv(g, r, 0, t)
      BY <1>1, <1>2, <1>4 DEF Started, LevelInv
    <3>2. Kept(g, r, t)
      BY <1>1, <1>4, StartKept
    <3> QED
      BY <2>1, <3>1, <3>2 DEF Levels
  <2>3. ASSUME NEW d \in 1..r.maxDepth, d - 1 \in T PROVE d \in T
    <3>1. (d - 1) + 1 = d /\ d - 1 \in Nat
      OBVIOUS
    <3>2. PICK v : v = a[d - 1]
      OBVIOUS
    <3>3. LevelInv(g, r, d - 1, v) /\ Kept(g, r, v) /\ a[d] = ExpandFrontier(g, r, v)
      BY <2>1, <2>3, <3>2 DEF Levels
    <3>4. LevelInv(g, r, (d - 1) + 1, ExpandFrontier(g, r, v))
      BY <3>1, <3>3, LevelStep
    <3>5. Kept(g, r, ExpandFrontier(g, r, v))
      BY <3>1, <3>3, LevelKept
    <3> QED
      BY <3>1, <3>3, <3>4, <3>5
  <2>4. \A d \in 0..r.maxDepth : d \in T
    <3> HIDE DEF T
    <3> QED
      BY <2>2, <2>3, UpToInduction
  <2>5. PICK u : u = a[r.maxDepth]
    OBVIOUS
  <2>6. LevelInv(g, r, r.maxDepth, u) /\ Kept(g, r, u) /\ TraverseFrom(g, r, t) = DepthLimited(g, r, u)
    BY <1>4, <2>1, <2>4, <2>5 DEF Levels
  <2>7. PICK w : w = DepthLimited(g, r, u)
    OBVIOUS
  <2>8. w.nodes = u.nodes /\ w.edges = u.edges /\ w.boundary = u.boundary
        /\ ("node_limit" \in w.reasons => "node_limit" \in u.reasons)
    BY <2>6, <2>7 DEF DepthLimited, LevelInv, TraversalsOf
  <2>9. Kept(g, r, w)
    BY <2>6, <2>8, KeptSame
  <2> QED
    BY <1>1, <2>6, <2>7, <2>9
<1> QED
  BY <1>3, <1>4

(* Nodes are finitely many.                                                *)
LEMMA NodesCounted == Cardinality(Nodes) \in Nat
BY ReadsAssumption, FS_CardinalityType

(* A node that is reached has a distance, and a walk leads to it exactly if*)
(* it is as long.                                                          *)
LEMMA DistanceFacts ==
  ASSUME NEW g \in Graphs, NEW r, NEW n \in Reaches(g, r)
  PROVE  /\ Distance(g, r, n) \in 0..Cardinality(Nodes) /\ Distance(g, r, n) \in Nat
         /\ \A d \in Nat : n \in Reach(g, r, d) <=> Distance(g, r, n) <= d
<1>1. Cardinality(Nodes) \in Nat
  BY NodesCounted
<1> DEFINE M == {d \in Nat : n \in Reach(g, r, d)}
<1>2. Cardinality(Nodes) \in M
  BY <1>1 DEF Reaches
<1>3. PICK k : k = Min(M)
  OBVIOUS
<1>4. k \in M /\ \A d \in M : k <= d
  BY <1>2, <1>3, LeastFacts
<1>5. k \in 0..Cardinality(Nodes)
  BY <1>1, <1>2, <1>4
<1>6. k > 0 => n \notin Reach(g, r, k - 1)
  <2>1. ASSUME k > 0, n \in Reach(g, r, k - 1) PROVE FALSE
    <3>1. k - 1 \in M
      BY <1>5, <2>1
    <3> QED
      BY <1>5, <1>4, <3>1
  <2> QED
    BY <2>1
<1>7. PICK x : x = Distance(g, r, n)
  OBVIOUS
<1>8. x \in 0..Cardinality(Nodes) /\ n \in Reach(g, r, x) /\ (x > 0 => n \notin Reach(g, r, x - 1))
  <2>1. n \in Reach(g, r, k)
    BY <1>4
  <2> HIDE DEF M
  <2> QED
    BY <1>5, <1>6, <1>7, <2>1 DEF Distance
<1>9. x \in Nat
  BY <1>1, <1>8
<1>10. ASSUME NEW d \in Nat PROVE n \in Reach(g, r, d) <=> x <= d
  <2>1. ASSUME x <= d PROVE n \in Reach(g, r, d)
    BY <1>8, <1>9, <2>1, ReachUpTo
  <2>2. ASSUME n \in Reach(g, r, d), ~(x <= d) PROVE FALSE
    <3>1. x > 0 /\ x - 1 \in Nat /\ d <= x - 1
      BY <1>9, <2>2
    <3>2. n \in Reach(g, r, x - 1)
      BY <2>2, <3>1, ReachUpTo
    <3> QED
      BY <1>8, <3>1, <3>2
  <2> QED
    BY <2>1, <2>2
<1> QED
  BY <1>7, <1>8, <1>9, <1>10

(* The distances that tell a node apart from the nearer ones.              *)
LEMMA DistanceIs ==
  ASSUME NEW g \in Graphs, NEW r, NEW n, NEW d \in Nat, n \in Reach(g, r, d), d > 0 => n \notin Reach(g, r, d - 1)
  PROVE  n \in Reaches(g, r) /\ Distance(g, r, n) = d
<1>1. n \in Reaches(g, r)
  BY ReachEnds
<1>2. PICK x \in Nat : x = Distance(g, r, n) /\ \A k \in Nat : n \in Reach(g, r, k) <=> x <= k
  BY <1>1, DistanceFacts
<1>3. x <= d
  BY <1>2
<1>4. ~(x < d)
  <2>1. ASSUME x < d PROVE FALSE
    <3>1. d > 0 /\ d - 1 \in Nat /\ x <= d - 1
      BY <2>1
    <3> QED
      BY <1>2, <3>1
  <2> QED
    BY <2>1
<1> QED
  BY <1>1, <1>2, <1>3, <1>4

(* The starts are at distance 0, and nothing else is.                      *)
LEMMA DistanceZero ==
  ASSUME NEW g \in Graphs, NEW r, NEW n
  PROVE  (n \in Reaches(g, r) /\ Distance(g, r, n) = 0) <=> n \in r.starts \cap g.nodes
<1>1. Reach(g, r, 0) = r.starts \cap g.nodes
  BY ReachFacts
<1>2. ASSUME n \in r.starts \cap g.nodes PROVE n \in Reaches(g, r) /\ Distance(g, r, n) = 0
  BY <1>1, <1>2, DistanceIs
<1>3. ASSUME n \in Reaches(g, r), Distance(g, r, n) = 0 PROVE n \in r.starts \cap g.nodes
  BY <1>1, <1>3, DistanceFacts
<1> QED
  BY <1>2, <1>3

(* An edge leads at most one further,                                      *)
LEMMA DistanceNext ==
  ASSUME NEW g \in Graphs, NEW r, r.direction \in {"outgoing", "incoming", "both"}, NEW n \in Reaches(g, r),
         InScope(g, r.projects, n), NEW e \in g.edges, NEW m, LinksTo(g, r, n, e, m)
  PROVE  m \in Reaches(g, r) /\ Distance(g, r, m) <= Distance(g, r, n) + 1
<1>1. PICK x \in Nat : x = Distance(g, r, n) /\ \A k \in Nat : n \in Reach(g, r, k) <=> x <= k
  BY DistanceFacts
<1>2. PICK X \in SUBSET g.nodes : X = Reach(g, r, x) /\ Reach(g, r, x + 1) = WalkFurther(g, r, X)
  BY ReachFacts
<1>3. n \in X
  BY <1>1, <1>2
<1>4. m \in WalkFurther(g, r, X)
  BY <1>3, FurtherLinks
<1>5. x + 1 \in Nat /\ m \in Reach(g, r, x + 1)
  BY <1>2, <1>4
<1>6. m \in Reaches(g, r)
  BY <1>5, ReachEnds
<1> QED
  BY <1>1, <1>5, <1>6, DistanceFacts

(* and some edge leads one further to every node that is not a start.      *)
LEMMA DistanceBefore ==
  ASSUME NEW g \in Graphs, NEW r, r.direction \in {"outgoing", "incoming", "both"}, NEW m \in Reaches(g, r),
         Distance(g, r, m) > 0
  PROVE  \E n \in Reaches(g, r) : /\ InScope(g, r.projects, n) /\ Distance(g, r, n) + 1 = Distance(g, r, m)
                                  /\ \E e \in g.edges : LinksTo(g, r, n, e, m)
<1>1. PICK x \in Nat : x = Distance(g, r, m) /\ \A k \in Nat : m \in Reach(g, r, k) <=> x <= k
  BY DistanceFacts
<1>2. x - 1 \in Nat /\ (x - 1) + 1 = x
  BY <1>1
<1>3. PICK X \in SUBSET g.nodes : X = Reach(g, r, x - 1) /\ Reach(g, r, (x - 1) + 1) = WalkFurther(g, r, X)
  BY <1>2, ReachFacts
<1>4. m \in WalkFurther(g, r, X) /\ m \notin X
  BY <1>1, <1>2, <1>3
<1>5. PICK n \in X : InScope(g, r.projects, n) /\ \E e \in g.edges : LinksTo(g, r, n, e, m)
  BY <1>4, FurtherLinks
<1>6. n \in Reaches(g, r)
  BY <1>2, <1>3, <1>5, ReachEnds
<1>7. PICK y \in Nat : y = Distance(g, r, n) /\ \A k \in Nat : n \in Reach(g, r, k) <=> y <= k
  BY <1>6, DistanceFacts
<1>8. y <= x - 1
  BY <1>2, <1>3, <1>5, <1>7
<1>9. x <= y + 1
  <2>1. Distance(g, r, m) <= Distance(g, r, n) + 1
    BY <1>5, <1>6, DistanceNext
  <2> QED
    BY <1>1, <1>7, <2>1
<1>10. y + 1 = x
  BY <1>8, <1>9
<1> QED
  BY <1>1, <1>5, <1>6, <1>7, <1>10

-----------------------------------------------------------------------------
(* The shortest path                                                       *)

(* An edge that the search crosses from n to m.                            *)
Crosses(facts, undirected, n, e, m) ==
  e \in Leaving(facts, n, undirected) /\ Across(e, n, undirected) = m /\ m \in facts.nodes

(* How far every node that is reached lies from the source.                *)
Metric(facts, source, undirected, far) ==
  /\ DOMAIN far \in SUBSET facts.nodes /\ far \in [DOMAIN far -> Nat]
  /\ \A n \in DOMAIN far : far[n] <= Cardinality(Nodes) /\ (far[n] = 0 <=> n = source)
  /\ \A n \in DOMAIN far : \A e, m : Crosses(facts, undirected, n, e, m) => m \in DOMAIN far /\ far[m] <= far[n] + 1
  /\ \A m \in DOMAIN far \ {source} : \E n \in DOMAIN far :
       far[n] + 1 = far[m] /\ \E e : Crosses(facts, undirected, n, e, m)

(* What was met lies one edge further than where it was met from.          *)
Nearest(facts, source, undirected, far, by) ==
  /\ DOMAIN by \subseteq DOMAIN far
  /\ \A m \in DOMAIN by \ {source} : /\ by[m].node \in DOMAIN by /\ far[by[m].node] + 1 = far[m]
                                     /\ Crosses(facts, undirected, by[m].node, by[m].edge, m)

(* The queue is in the order of the distance, all of it from k to k + 1.   *)
Ordered(far, k, queue) ==
  /\ \A i \in DOMAIN queue : queue[i] \in DOMAIN far /\ k <= far[queue[i]] /\ far[queue[i]] <= k + 1
  /\ \A i, j \in DOMAIN queue : i <= j => far[queue[i]] <= far[queue[j]]

(* Between two nodes of a search: those of left have been expanded.        *)
Bfs(facts, source, undirected, far, queue, by, left) ==
  /\ Nearest(facts, source, undirected, far, by)
  /\ left \subseteq DOMAIN by /\ \A n \in DOMAIN by : n \in left \/ \E i \in DOMAIN queue : queue[i] = n
  /\ \A n \in left : \A e, m : Crosses(facts, undirected, n, e, m) => m \in DOMAIN by
  /\ \A n \in left : \A i \in DOMAIN queue : far[n] <= far[queue[i]]
  /\ queue # <<>> => Ordered(far, far[queue[1]], queue)

(* Whatever is no further than the queue has been met.                     *)
LEMMA NearMet ==
  ASSUME NEW facts, NEW source, NEW undirected, NEW far, Metric(facts, source, undirected, far),
         NEW queue, NEW by, NEW left, Bfs(facts, source, undirected, far, queue, by, left),
         source \in DOMAIN by, NEW k \in Nat, \A i \in DOMAIN queue : k <= far[queue[i]]
  PROVE  \A m \in DOMAIN far : far[m] <= k => m \in DOMAIN by
<1> DEFINE T == {j \in Nat : j <= k => \A m \in DOMAIN far : far[m] = j => m \in DOMAIN by}
<1>1. 0 \in T
  BY DEF Metric
<1>2. ASSUME NEW j \in Nat, j \in T PROVE j + 1 \in T
  <2>1. ASSUME j + 1 <= k, NEW m \in DOMAIN far, far[m] = j + 1 PROVE m \in DOMAIN by
    <3>1. m # source
      BY <2>1 DEF Metric
    <3>2. PICK n \in DOMAIN far : far[n] + 1 = far[m] /\ \E e : Crosses(facts, undirected, n, e, m)
      BY <3>1 DEF Metric
    <3>3. far[n] \in Nat /\ far[n] = j /\ j <= k
      BY <2>1, <3>2 DEF Metric
    <3>4. n \in DOMAIN by
      BY <1>2, <3>3
    <3>5. \A i \in DOMAIN queue : queue[i] # n
      BY <2>1, <3>3
    <3>6. n \in left
      BY <3>4, <3>5 DEF Bfs
    <3> QED
      BY <3>2, <3>6 DEF Bfs
  <2> QED
    BY <2>1
<1>3. \A j \in Nat : j \in T
  <2> HIDE DEF T
  <2> QED
    BY <1>1, <1>2, NatInductionOn
<1>4. ASSUME NEW m \in DOMAIN far, far[m] <= k PROVE m \in DOMAIN by
  <2>1. far[m] \in Nat
    BY DEF Metric
  <2> QED
    BY <1>3, <1>4, <2>1
<1> QED
  BY <1>4

(* While n is expanded, the edges of V having been crossed.                *)
Going(facts, source, undirected, far, left, n, near, c, s, V) ==
  /\ s \in Searches(facts, source) /\ Nearest(facts, source, undirected, far, s.by)
  /\ near \subseteq DOMAIN s.by
  /\ \A x \in DOMAIN s.by : x \in left \cup {n} \/ \E i \in DOMAIN s.queue : s.queue[i] = x
  /\ \A e \in V : \A m : Crosses(facts, undirected, n, e, m) => m \in DOMAIN s.by
  /\ Ordered(far, far[n], s.queue)
  /\ Cardinality(DOMAIN s.by) = c + Len(s.queue)

(* A node met from n lies one further than n. (Discover)                   *)
LEMMA DiscoverKeeps ==
  ASSUME NEW facts, facts.nodes \in SUBSET Nodes, NEW source, NEW undirected, NEW far,
         Metric(facts, source, undirected, far),
         NEW left, NEW n, NEW near, n \in near, \A m \in DOMAIN far : far[m] <= far[n] => m \in near,
         NEW c \in Int, NEW s, NEW V, Going(facts, source, undirected, far, left, n, near, c, s, V),
         NEW e \in Leaving(facts, n, undirected)
  PROVE  Going(facts, source, undirected, far, left, n, near, c,
               Discover(facts, s, n, Across(e, n, undirected), e), V \cup {e})
<1>1. PICK m : m = Across(e, n, undirected)
  OBVIOUS
<1>2. n \in DOMAIN s.by /\ s \in Searches(facts, source) /\ e \in facts.edges
  BY DEF Going, Leaving
<1>3. CASE m \notin facts.nodes \/ m \in DOMAIN s.by
  <2>1. Discover(facts, s, n, m, e) = s
    BY <1>3 DEF Discover
  <2>2. \A x : Crosses(facts, undirected, n, e, x) => x \in DOMAIN s.by
    BY <1>1, <1>3 DEF Crosses
  <2>3. Going(facts, source, undirected, far, left, n, near, c, s, V \cup {e})
    BY <2>2 DEF Going
  <2> QED
    BY <1>1, <2>1, <2>3
<1>4. CASE m \in facts.nodes /\ m \notin DOMAIN s.by
  <2>1. PICK queue, by : queue = s.queue /\ by = s.by
    OBVIOUS
  <2>2. PICK v : v = [node |-> n, edge |-> e]
    OBVIOUS
  <2>3. PICK w : w = Discover(facts, s, n, m, e)
    OBVIOUS
  <2>4. w.queue = Append(queue, m) /\ w.by = With(by, m, v)
    BY <1>4, <2>1, <2>2, <2>3 DEF Discover
  <2>5. w \in Searches(facts, source)
    BY <1>2, <2>3, DiscoverTyped
  <2>6. queue \in Seq(facts.nodes) /\ DOMAIN by \in SUBSET facts.nodes
    BY <1>2, <2>1, SearchFields DEF Shape
  <2>7. /\ DOMAIN w.by = DOMAIN by \cup {m} /\ w.by[m] = v /\ \A y \in DOMAIN by : w.by[y] = by[y]
    BY <1>4, <2>1, <2>4 DEF With
  <2>8. /\ Len(queue) \in Nat /\ DOMAIN queue = 1..Len(queue)
        /\ DOMAIN w.queue = 1..(Len(queue) + 1) /\ Len(w.queue) = Len(queue) + 1
        /\ w.queue[Len(queue) + 1] = m /\ \A i \in 1..Len(queue) : w.queue[i] = queue[i]
    BY <1>4, <2>4, <2>6
  <2>9. Crosses(facts, undirected, n, e, m)
    BY <1>1, <1>4 DEF Crosses
  <2>10. m \in DOMAIN far /\ far[n] \in Nat /\ far[m] = far[n] + 1
    <3>1. n \in DOMAIN far
      BY <1>2 DEF Going, Nearest
    <3>2. m \in DOMAIN far /\ far[m] <= far[n] + 1 /\ far[m] \in Nat /\ far[n] \in Nat
      BY <2>9, <3>1 DEF Metric
    <3>3. m \notin near
      BY <1>4 DEF Going
    <3>4. ~(far[m] <= far[n])
      BY <3>2, <3>3
    <3> QED
      BY <3>2, <3>4
  <2>11. Nearest(facts, source, undirected, far, w.by)
    <3>1. DOMAIN w.by \subseteq DOMAIN far
      BY <2>1, <2>7, <2>10 DEF Going, Nearest
    <3>2. ASSUME NEW x \in DOMAIN w.by \ {source}
          PROVE  /\ w.by[x].node \in DOMAIN w.by /\ far[w.by[x].node] + 1 = far[x]
                 /\ Crosses(facts, undirected, w.by[x].node, w.by[x].edge, x)
      <4>1. CASE x = m
        <5>1. v.node = n /\ v.edge = e
          BY <2>2
        <5> QED
          BY <1>2, <2>1, <2>7, <2>9, <2>10, <4>1, <5>1
      <4>2. CASE x # m
        <5>1. x \in DOMAIN by \ {source} /\ w.by[x] = by[x]
          BY <2>7, <3>2, <4>2
        <5>2. /\ by[x].node \in DOMAIN by /\ far[by[x].node] + 1 = far[x]
              /\ Crosses(facts, undirected, by[x].node, by[x].edge, x)
          BY <2>1, <5>1 DEF Going, Nearest
        <5> QED
          BY <2>7, <5>1, <5>2
      <4> QED
        BY <4>1, <4>2
    <3> QED
      BY <3>1, <3>2 DEF Nearest
  <2>12. near \subseteq DOMAIN w.by
    BY <2>1, <2>7 DEF Going
  <2>13. ASSUME NEW x \in DOMAIN w.by
         PROVE  x \in left \cup {n} \/ \E i \in DOMAIN w.queue : w.queue[i] = x
    <3>1. CASE x = m
      <4>1. Len(queue) + 1 \in DOMAIN w.queue
        BY <2>8
      <4> QED
        BY <2>8, <3>1, <4>1
    <3>2. CASE x # m
      <4>1. x \in left \cup {n} \/ \E i \in DOMAIN queue : queue[i] = x
        BY <2>1, <2>7, <3>2 DEF Going
      <4> QED
        BY <2>8, <4>1
    <3> QED
      BY <3>1, <3>2
  <2>14. \A d \in V \cup {e} : \A x : Crosses(facts, undirected, n, d, x) => x \in DOMAIN w.by
    <3>1. \A x : Crosses(facts, undirected, n, e, x) => x = m
      BY <1>1 DEF Crosses
    <3>2. \A d \in V : \A x : Crosses(facts, undirected, n, d, x) => x \in DOMAIN by
      BY <2>1 DEF Going
    <3> QED
      BY <2>7, <3>1, <3>2
  <2>15. Ordered(far, far[n], w.queue)
    <3>1. /\ \A i \in 1..Len(queue) : queue[i] \in DOMAIN far /\ far[n] <= far[queue[i]] /\ far[queue[i]] <= far[n] + 1
          /\ \A i, j \in 1..Len(queue) : i <= j => far[queue[i]] <= far[queue[j]]
      BY <2>1, <2>8 DEF Going, Ordered
    <3>2. \A i \in 1..(Len(queue) + 1) : i \in 1..Len(queue) \/ i = Len(queue) + 1
      BY <2>8
    <3>3. \A i \in 1..(Len(queue) + 1) :
            w.queue[i] \in DOMAIN far /\ far[n] <= far[w.queue[i]] /\ far[w.queue[i]] <= far[n] + 1
      BY <2>8, <2>10, <3>1, <3>2
    <3>4. ASSUME NEW i \in 1..(Len(queue) + 1), NEW j \in 1..(Len(queue) + 1), i <= j
          PROVE  far[w.queue[i]] <= far[w.queue[j]]
      <4>1. CASE j = Len(queue) + 1
        BY <2>8, <2>10, <3>3, <4>1
      <4>2. CASE j # Len(queue) + 1
        <5>1. i \in 1..Len(queue) /\ j \in 1..Len(queue)
          BY <2>8, <3>4, <4>2
        <5> QED
          BY <2>8, <3>1, <3>4, <5>1
      <4> QED
        BY <4>1, <4>2
    <3> QED
      BY <2>8, <3>3, <3>4 DEF Ordered
  <2>16. Cardinality(DOMAIN w.by) = c + Len(w.queue)
    <3>1. IsFiniteSet(DOMAIN by)
      <4>1. DOMAIN by \in SUBSET Nodes /\ IsFiniteSet(Nodes)
        BY <2>6, ReadsAssumption
      <4> QED
        BY <4>1, FS_Subset
    <3>2. Cardinality(DOMAIN by \cup {m}) = Cardinality(DOMAIN by) + 1
      BY <1>4, <2>1, <3>1, FS_AddElement
    <3>3. Cardinality(DOMAIN w.by) = Cardinality(DOMAIN by \cup {m})
      BY <2>7, Zenon
    <3>4. Cardinality(DOMAIN by) = c + Len(queue)
      BY <2>1 DEF Going
    <3> QED
      BY <2>8, <3>2, <3>3, <3>4
  <2>17. Going(facts, source, undirected, far, left, n, near, c, w, V \cup {e})
    BY <2>5, <2>11, <2>12, <2>13, <2>14, <2>15, <2>16 DEF Going
  <2> QED
    BY <1>1, <2>3, <2>17
<1> QED
  BY <1>3, <1>4

(* All that a node leads to has been met once it is expanded.              *)
(* (DiscoverFrom)                                                          *)
LEMMA LeaveKeeps ==
  ASSUME NEW facts, facts.nodes \in SUBSET Nodes, facts.edges \in SUBSET Edges, NEW source, NEW undirected, NEW far,
         Metric(facts, source, undirected, far),
         NEW left, NEW n, NEW near, n \in near, \A m \in DOMAIN far : far[m] <= far[n] => m \in near,
         NEW c \in Int, NEW s, Going(facts, source, undirected, far, left, n, near, c, s, {})
  PROVE  Going(facts, source, undirected, far, left, n, near, c,
               DiscoverFrom(facts, s, n, undirected), Leaving(facts, n, undirected))
<1>1. PICK E : E = Leaving(facts, n, undirected)
  OBVIOUS
<1>2. PICK seq : seq = sortedEdges(E)
  OBVIOUS
<1>3. seq \in Seq(facts.edges) /\ ToSet(seq) = E
  <2>1. E \in SUBSET Edges /\ E \in SUBSET facts.edges
    BY <1>1 DEF Leaving
  <2>2. seq \in Seq(E) /\ ToSet(seq) = E
    BY <1>2, <2>1, SortedEdgesFacts
  <2> QED
    BY <2>1, <2>2
<1>4. seq = sortedEdges(Leaving(facts, n, undirected)) /\ s \in Searches(facts, source) /\ n \in DOMAIN s.by
  BY <1>1, <1>2 DEF Going
<1>5. PICK a : DiscoverRun(a, facts, s, n, undirected, seq) /\ DiscoverFrom(facts, s, n, undirected) = a[Len(seq)]
  BY <1>3, <1>4, DiscoverFold
<1>6. Len(seq) \in Nat /\ DOMAIN seq = 1..Len(seq) /\ \A i \in 1..Len(seq) : seq[i] \in E
  BY <1>3 DEF ToSet
<1>7. PICK seen : seen = [i \in 0..Len(seq) |-> {seq[j] : j \in 1..i}]
  OBVIOUS
<1>8. \A i \in 0..Len(seq) : seen[i] = {seq[j] : j \in 1..i}
  BY <1>7
<1> DEFINE T == {i \in 0..Len(seq) : Going(facts, source, undirected, far, left, n, near, c, a[i], seen[i])}
<1>9. 0 \in T
  <2>1. 1..0 = {} /\ 0 \in 0..Len(seq)
    BY <1>6
  <2>2. seen[0] = {} /\ a[0] = s
    BY <1>5, <1>8, <2>1 DEF DiscoverRun
  <2>3. Going(facts, source, undirected, far, left, n, near, c, a[0], seen[0])
    BY <2>2, Zenon
  <2> QED
    BY <2>1, <2>3
<1>10. ASSUME NEW i \in 1..Len(seq), i - 1 \in T PROVE i \in T
  <2>1. seen[i] = seen[i - 1] \cup {seq[i]}
    <3>1. 1..i = (1..(i - 1)) \cup {i} /\ i \in 0..Len(seq) /\ i - 1 \in 0..Len(seq)
      BY <1>6
    <3>2. seen[i] = {seq[j] : j \in 1..i} /\ seen[i - 1] = {seq[j] : j \in 1..(i - 1)}
      BY <1>8, <3>1
    <3> QED
      BY <3>1, <3>2
  <2>2. PICK v, V : v = a[i - 1] /\ V = seen[i - 1]
    OBVIOUS
  <2>3. PICK e \in E : e = seq[i]
    BY <1>6
  <2>4. Going(facts, source, undirected, far, left, n, near, c, v, V)
    BY <1>10, <2>2
  <2>5. a[i] = Discover(facts, v, n, Across(e, n, undirected), e) /\ seen[i] = V \cup {e}
    BY <1>5, <2>1, <2>2, <2>3 DEF DiscoverRun
  <2>6. Going(facts, source, undirected, far, left, n, near, c,
              Discover(facts, v, n, Across(e, n, undirected), e), V \cup {e})
    BY <1>1, <2>4, DiscoverKeeps
  <2>7. Going(facts, source, undirected, far, left, n, near, c, a[i], seen[i])
    BY <2>5, <2>6, Zenon
  <2> QED
    BY <1>6, <2>7
<1>11. \A i \in 0..Len(seq) : i \in T
  <2> HIDE DEF T
  <2> QED
    BY <1>6, <1>9, <1>10, UpToInduction
<1>12. Going(facts, source, undirected, far, left, n, near, c, a[Len(seq)], seen[Len(seq)])
  BY <1>6, <1>11
<1>13. seen[Len(seq)] = E
  <2>1. Len(seq) \in 0..Len(seq)
    BY <1>6
  <2>2. seen[Len(seq)] = {seq[j] : j \in 1..Len(seq)}
    BY <1>8, <2>1
  <2>3. ToSet(seq) = {seq[j] : j \in 1..Len(seq)}
    BY <1>6 DEF ToSet
  <2> QED
    BY <1>3, <2>2, <2>3, Zenon
<1> QED
  BY <1>1, <1>5, <1>12, <1>13, Zenon

(* The search is over when it has met all or is at the target.             *)
Over(queue, target) == queue = <<>> \/ Head(queue) = target

Searched(facts, source, undirected, far, target, i, s) ==
  /\ s \in Searches(facts, source)
  /\ \E left : Bfs(facts, source, undirected, far, s.queue, s.by, left)
  /\ Over(s.queue, target) \/ Cardinality(DOMAIN s.by) >= i + Len(s.queue)

(* Every node that is taken from the queue brings the end nearer.          *)
(* (SearchFrom)                                                            *)
LEMMA SearchFromKeeps ==
  ASSUME NEW facts, facts.nodes \in SUBSET Nodes, facts.edges \in SUBSET Edges, NEW source, NEW undirected, NEW far,
         Metric(facts, source, undirected, far), NEW target, NEW i \in Nat,
         NEW s, Searched(facts, source, undirected, far, target, i, s)
  PROVE  Searched(facts, source, undirected, far, target, i + 1, SearchFrom(facts, s, target, undirected))
<1>1. CASE Over(s.queue, target)
  <2>1. SearchFrom(facts, s, target, undirected) = s
    BY <1>1 DEF SearchFrom, Over
  <2>2. Searched(facts, source, undirected, far, target, i + 1, s)
    BY <1>1 DEF Searched
  <2> QED
    BY <2>1, <2>2
<1>2. CASE ~Over(s.queue, target)
  <2>1. s = [queue |-> s.queue, by |-> s.by] /\ Shape(facts, source, s.queue, s.by)
    BY SearchFields DEF Searched
  <2>2. PICK queue, by : queue = s.queue /\ by = s.by
    OBVIOUS
  <2>3. queue # <<>> /\ Shape(facts, source, queue, by) /\ queue \in Seq(facts.nodes) /\ DOMAIN by \in SUBSET facts.nodes
    BY <1>2, <2>1, <2>2 DEF Over, Shape
  <2>4. PICK left : Bfs(facts, source, undirected, far, queue, by, left)
    BY <2>2 DEF Searched
  <2>5. PICK rest : rest = Tail(queue)
    OBVIOUS
  <2>6. /\ rest \in Seq(facts.nodes) /\ Len(queue) \in Nat /\ Len(rest) = Len(queue) - 1 /\ DOMAIN rest = 1..Len(rest)
        /\ DOMAIN queue = 1..Len(queue) /\ 1 \in DOMAIN queue /\ Len(rest) \in Nat
        /\ \A j \in DOMAIN rest : j + 1 \in DOMAIN queue /\ rest[j] = queue[j + 1]
    <3>1. /\ rest \in Seq(facts.nodes) /\ Len(rest) = Len(queue) - 1
          /\ \A j \in 1..Len(rest) : rest[j] = queue[j + 1]
      BY <2>3, <2>5, HeadTailProperties
    <3>2. Len(queue) \in Nat /\ DOMAIN queue = 1..Len(queue) /\ DOMAIN rest = 1..Len(rest) /\ Len(rest) \in Nat
      BY <2>3, <3>1
    <3>3. Len(queue) # 0
      BY <2>3
    <3>4. \A j \in 1..(Len(queue) - 1) : j + 1 \in 1..Len(queue)
      BY <3>2
    <3>5. 1 \in 1..Len(queue)
      BY <3>2, <3>3
    <3> QED
      BY <3>1, <3>2, <3>4, <3>5
  <2>7. PICK n : n = queue[1] /\ n = Head(queue)
    BY <2>3, <2>6
  <2>8. n \in DOMAIN by /\ source \in DOMAIN by
    BY <2>3, <2>6, <2>7 DEF Shape
  <2>9. DOMAIN by \subseteq DOMAIN far /\ far[n] \in Nat
    BY <2>4, <2>8 DEF Bfs, Nearest, Metric
  <2>10. Ordered(far, far[n], queue)
    BY <2>3, <2>4, <2>7 DEF Bfs
  <2>11. \A m \in DOMAIN far : far[m] <= far[n] => m \in DOMAIN by
    <3>1. \A j \in DOMAIN queue : far[n] <= far[queue[j]]
      BY <2>10 DEF Ordered
    <3> QED
      BY <2>4, <2>8, <2>9, <3>1, NearMet
  <2>12. PICK u : u = [queue |-> rest, by |-> by]
    OBVIOUS
  <2>13. u.queue = rest /\ u.by = by
    BY <2>12
  <2>14. u \in Searches(facts, source)
    <3>1. \A j \in DOMAIN rest : rest[j] \in DOMAIN by
      BY <2>3, <2>6 DEF Shape
    <3>2. Shape(facts, source, rest, by)
      BY <2>3, <2>6, <3>1 DEF Shape
    <3> QED
      BY <2>12, <3>2, SearchTyped
  <2>15. SearchFrom(facts, s, target, undirected) = DiscoverFrom(facts, u, n, undirected)
    <3>1. s = [queue |-> queue, by |-> by]
      BY <2>1, <2>2, Zenon
    <3>2. [s EXCEPT !.queue = Tail(@)] = u
      BY <2>5, <2>12, <3>1, Dequeued
    <3> QED
      BY <1>2, <2>2, <2>7, <3>2 DEF SearchFrom, Over
  <2>16. PICK c \in Int : c = Cardinality(DOMAIN by) - Len(rest)
    <3>1. DOMAIN by \in SUBSET Nodes /\ IsFiniteSet(Nodes)
      BY <2>3, ReadsAssumption
    <3>2. Cardinality(DOMAIN by) \in Nat
      BY <3>1, FS_Subset, FS_CardinalityType
    <3> QED
      BY <2>6, <3>2
  <2>17. Cardinality(DOMAIN by) \in Nat
    <3>1. DOMAIN by \in SUBSET Nodes /\ IsFiniteSet(Nodes)
      BY <2>3, ReadsAssumption
    <3> QED
      BY <3>1, FS_Subset, FS_CardinalityType
  <2>18. Going(facts, source, undirected, far, left, n, DOMAIN by, c, u, {})
    <3>1. Nearest(facts, source, undirected, far, u.by)
      BY <2>4, <2>13 DEF Bfs
    <3>2. ASSUME NEW x \in DOMAIN by PROVE x \in left \cup {n} \/ \E j \in DOMAIN rest : rest[j] = x
      <4>1. CASE x \in left
        BY <4>1
      <4>2. CASE x \notin left
        <5>1. PICK j \in DOMAIN queue : queue[j] = x
          BY <2>4, <4>2 DEF Bfs
        <5>2. CASE j = 1
          BY <2>7, <5>1, <5>2
        <5>3. CASE j # 1
          <6>1. j - 1 \in DOMAIN rest /\ (j - 1) + 1 = j
            BY <2>6, <5>3
          <6> QED
            BY <2>6, <5>1, <6>1
        <5> QED
          BY <5>2, <5>3
      <4> QED
        BY <4>1, <4>2
    <3>3. Ordered(far, far[n], rest)
      <4>1. ASSUME NEW j \in DOMAIN rest
            PROVE  rest[j] \in DOMAIN far /\ far[n] <= far[rest[j]] /\ far[rest[j]] <= far[n] + 1
        BY <2>6, <2>10 DEF Ordered
      <4>2. ASSUME NEW j \in DOMAIN rest, NEW k \in DOMAIN rest, j <= k PROVE far[rest[j]] <= far[rest[k]]
        <5>1. j + 1 \in DOMAIN queue /\ k + 1 \in DOMAIN queue /\ j + 1 <= k + 1
          BY <2>6, <4>2
        <5> QED
          BY <2>6, <2>10, <5>1 DEF Ordered
      <4> QED
        BY <4>1, <4>2 DEF Ordered
    <3>4. Cardinality(DOMAIN u.by) = c + Len(u.queue)
      BY <2>6, <2>13, <2>16, <2>17
    <3>5. Ordered(far, far[n], u.queue) /\ DOMAIN by \subseteq DOMAIN u.by
      BY <2>13, <3>3
    <3>6. \A x \in DOMAIN u.by : x \in left \cup {n} \/ \E j \in DOMAIN u.queue : u.queue[j] = x
      BY <2>13, <3>2
    <3> QED
      BY <2>14, <3>1, <3>4, <3>5, <3>6 DEF Going
  <2>19. PICK w : w = DiscoverFrom(facts, u, n, undirected)
    OBVIOUS
  <2>20. Going(facts, source, undirected, far, left, n, DOMAIN by, c, w, Leaving(facts, n, undirected))
    BY <2>8, <2>11, <2>18, <2>19, LeaveKeeps
  <2>21. Bfs(facts, source, undirected, far, w.queue, w.by, left \cup {n})
    <3>1. left \subseteq DOMAIN by /\ DOMAIN by \subseteq DOMAIN w.by
      BY <2>4, <2>20 DEF Bfs, Going
    <3>2. \A x \in left : \A e, m : Crosses(facts, undirected, x, e, m) => m \in DOMAIN by
      BY <2>4 DEF Bfs
    <3>3. \A e, m : Crosses(facts, undirected, n, e, m) => m \in DOMAIN w.by
      BY <2>20 DEF Going, Crosses
    <3>4. \A x \in left : far[x] <= far[n]
      BY <2>4, <2>6, <2>7 DEF Bfs
    <3>5. \A j \in DOMAIN w.queue : w.queue[j] \in DOMAIN far /\ far[n] <= far[w.queue[j]]
      BY <2>20 DEF Going, Ordered
    <3>6. \A x \in left \cup {n} : \A j \in DOMAIN w.queue : far[x] <= far[w.queue[j]]
      <4>1. ASSUME NEW x \in left, NEW j \in DOMAIN w.queue PROVE far[x] <= far[w.queue[j]]
        <5>1. x \in DOMAIN far /\ w.queue[j] \in DOMAIN far
          BY <2>9, <3>1, <3>5
        <5>2. far[x] \in Nat /\ far[w.queue[j]] \in Nat
          BY <5>1 DEF Metric
        <5> QED
          BY <2>9, <3>4, <3>5, <5>2
      <4> QED
        BY <3>5, <4>1
    <3>7. ASSUME w.queue # <<>> PROVE Ordered(far, far[w.queue[1]], w.queue)
      <4>1. PICK q : q = w.queue
        OBVIOUS
      <4>2. q \in Seq(facts.nodes)
        BY <2>20, <4>1, SearchFields DEF Going, Shape
      <4>3. Len(q) \in Nat /\ DOMAIN q = 1..Len(q) /\ 1 \in DOMAIN q /\ \A j \in DOMAIN q : 1 <= j
        <5>1. Len(q) \in Nat /\ Len(q) # 0 /\ DOMAIN q = 1..Len(q)
          BY <3>7, <4>1, <4>2
        <5> QED
          BY <5>1
      <4>4. /\ \A j \in DOMAIN q : q[j] \in DOMAIN far /\ far[n] <= far[q[j]] /\ far[q[j]] <= far[n] + 1
            /\ \A j, k \in DOMAIN q : j <= k => far[q[j]] <= far[q[k]]
        BY <2>20, <4>1 DEF Going, Ordered
      <4>5. ASSUME NEW j \in DOMAIN q PROVE far[q[1]] <= far[q[j]] /\ far[q[j]] <= far[q[1]] + 1
        <5>1. far[q[j]] \in Nat /\ far[q[1]] \in Nat
          BY <4>3, <4>4 DEF Metric
        <5>2. far[q[1]] <= far[q[j]] /\ far[n] <= far[q[1]] /\ far[q[j]] <= far[n] + 1
          BY <4>3, <4>4
        <5> QED
          BY <2>9, <5>1, <5>2
      <4>6. Ordered(far, far[q[1]], q)
        BY <4>4, <4>5 DEF Ordered
      <4> QED
        BY <4>1, <4>6
    <3>8. Nearest(facts, source, undirected, far, w.by)
          /\ \A x \in DOMAIN w.by : x \in left \cup {n} \/ \E j \in DOMAIN w.queue : w.queue[j] = x
      BY <2>20 DEF Going
    <3>9. left \cup {n} \subseteq DOMAIN w.by
      BY <2>8, <3>1
    <3>10. \A x \in left \cup {n} : \A e, m : Crosses(facts, undirected, x, e, m) => m \in DOMAIN w.by
      BY <3>1, <3>2, <3>3
    <3> QED
      BY <3>6, <3>7, <3>8, <3>9, <3>10 DEF Bfs
  <2>22. Cardinality(DOMAIN w.by) >= (i + 1) + Len(w.queue)
    <3>1. Cardinality(DOMAIN by) >= i + Len(queue)
      BY <1>2, <2>2 DEF Searched
    <3>2. c >= i + 1
      BY <2>6, <2>16, <2>17, <3>1
    <3>3. Cardinality(DOMAIN w.by) = c + Len(w.queue)
      BY <2>20 DEF Going
    <3>4. Len(w.queue) \in Nat
      BY <2>20, SearchFields DEF Going, Shape
    <3> QED
      BY <3>2, <3>3, <3>4
  <2>23. w \in Searches(facts, source)
    BY <2>20 DEF Going
  <2>24. Searched(facts, source, undirected, far, target, i + 1, w)
    BY <2>21, <2>22, <2>23 DEF Searched
  <2> QED
    BY <2>15, <2>19, <2>24
<1> QED
  BY <1>1, <1>2

(* A path read back from the target is a walk that comes nearer the source *)
(* with every edge.                                                        *)
Returning(facts, source, undirected, far, by, target, i, p) ==
  /\ p \in Backs(facts, by) /\ Len(p.nodes) = Len(p.edges) + 1 /\ p.nodes[Len(p.nodes)] = target
  /\ far[p.nodes[1]] + Len(p.edges) = far[target]
  /\ \A j \in DOMAIN p.edges : Crosses(facts, undirected, p.nodes[j], p.edges[j], p.nodes[j + 1])
  /\ p.nodes[1] = source \/ Len(p.edges) >= i

(* A step back is the last edge of such a walk. (StepBack)                 *)
LEMMA BackKeeps ==
  ASSUME NEW facts, NEW source, NEW undirected, NEW far, Metric(facts, source, undirected, far),
         NEW queue, NEW by, Shape(facts, source, queue, by), Nearest(facts, source, undirected, far, by),
         NEW target \in DOMAIN far, NEW i \in Nat, NEW p, Returning(facts, source, undirected, far, by, target, i, p)
  PROVE  Returning(facts, source, undirected, far, by, target, i + 1, StepBack(by, source, p))
<1>1. PICK nodes, edges : nodes = p.nodes /\ edges = p.edges
  OBVIOUS
<1>2. nodes \in Seq(DOMAIN by) /\ edges \in Seq(facts.edges) /\ nodes # <<>> /\ p \in Backs(facts, by)
  BY <1>1 DEF Returning, Backs
<1>3. Len(nodes) \in Nat /\ Len(edges) \in Nat /\ Len(nodes) = Len(edges) + 1 /\ DOMAIN edges = 1..Len(edges)
  BY <1>1, <1>2 DEF Returning
<1>4. PICK n \in DOMAIN by : n = Head(nodes) /\ n = nodes[1]
  BY <1>2
<1>5. CASE n = source
  <2>1. StepBack(by, source, p) = p
    BY <1>1, <1>4, <1>5 DEF StepBack
  <2>2. p.nodes[1] = source
    BY <1>1, <1>4, <1>5
  <2>3. Returning(facts, source, undirected, far, by, target, i + 1, p)
    BY <2>2 DEF Returning
  <2> QED
    BY <2>1, <2>3
<1>6. CASE n # source
  <2>1. /\ by[n].node \in DOMAIN by /\ by[n].edge \in facts.edges /\ far[by[n].node] + 1 = far[n]
        /\ Crosses(facts, undirected, by[n].node, by[n].edge, n)
    BY <1>6 DEF Shape, Nearest
  <2>2. PICK m, e : m = by[n].node /\ e = by[n].edge
    OBVIOUS
  <2>3. PICK back, edged : back = <<m>> \o nodes /\ edged = <<e>> \o edges
    OBVIOUS
  <2>4. PICK w : w = StepBack(by, source, p)
    OBVIOUS
  <2>5. w.nodes = back /\ w.edges = edged
    BY <1>1, <1>4, <1>6, <2>2, <2>3, <2>4 DEF StepBack
  <2>6. /\ back \in Seq(DOMAIN by) /\ Len(back) = Len(nodes) + 1 /\ back[1] = m
        /\ \A j \in 1..Len(nodes) : back[j + 1] = nodes[j]
    BY <1>2, <2>1, <2>2, <2>3, Prepended
  <2>7. /\ edged \in Seq(facts.edges) /\ Len(edged) = Len(edges) + 1 /\ edged[1] = e
        /\ \A j \in 1..Len(edges) : edged[j + 1] = edges[j]
    <3>1. PICK S : S = facts.edges
      OBVIOUS
    <3>2. e \in S /\ edges \in Seq(S)
      BY <1>2, <2>1, <2>2, <3>1
    <3>3. /\ edged \in Seq(S) /\ Len(edged) = Len(edges) + 1 /\ edged[1] = e
          /\ \A j \in 1..Len(edges) : edged[j + 1] = edges[j]
      BY <2>3, <3>2, Prepended
    <3> QED
      BY <3>1, <3>3
  <2>8. w \in Backs(facts, by)
    BY <1>2, <2>4, BackTyped
  <2>9. back[Len(back)] = target
    <3>1. Len(nodes) \in 1..Len(nodes)
      BY <1>3
    <3>2. back[Len(nodes) + 1] = nodes[Len(nodes)]
      BY <2>6, <3>1
    <3> QED
      BY <1>1, <2>6, <3>2 DEF Returning
  <2>10. far[back[1]] + Len(edged) = far[target]
    <3>1. far[n] + Len(edges) = far[target]
      BY <1>1, <1>4 DEF Returning
    <3>2. far[n] \in Nat /\ far[m] \in Nat /\ far[m] + 1 = far[n]
      BY <2>1, <2>2 DEF Nearest, Metric
    <3> QED
      BY <1>3, <2>6, <2>7, <3>1, <3>2
  <2>11. ASSUME NEW j \in DOMAIN edged
         PROVE  Crosses(facts, undirected, back[j], edged[j], back[j + 1])
    <3>1. j \in 1..(Len(edges) + 1)
      BY <1>3, <2>7
    <3>2. CASE j = 1
      <4>1. 1 \in 1..Len(nodes)
        BY <1>3
      <4>2. back[1 + 1] = n
        BY <1>4, <2>6, <4>1
      <4> QED
        BY <2>1, <2>2, <2>6, <2>7, <3>2, <4>2
    <3>3. CASE j # 1
      <4>1. PICK k \in 1..Len(edges) : j = k + 1
        <5>1. j - 1 \in 1..Len(edges) /\ j = (j - 1) + 1
          BY <1>3, <3>1, <3>3
        <5> QED
          BY <5>1
      <4>2. k \in 1..Len(nodes) /\ k + 1 \in 1..Len(nodes)
        BY <1>3
      <4>3. back[j] = nodes[k] /\ edged[j] = edges[k] /\ back[j + 1] = nodes[k + 1]
        BY <2>6, <2>7, <4>1, <4>2
      <4>4. Crosses(facts, undirected, nodes[k], edges[k], nodes[k + 1])
        BY <1>1, <1>3 DEF Returning
      <4> QED
        BY <4>3, <4>4
    <3> QED
      BY <3>2, <3>3
  <2>12. Len(edged) >= i + 1
    BY <1>1, <1>3, <1>4, <1>6, <2>7 DEF Returning
  <2>13. Len(back) = Len(edged) + 1
    BY <1>3, <2>6, <2>7
  <2>14. Returning(facts, source, undirected, far, by, target, i + 1, w)
    BY <2>5, <2>8, <2>9, <2>10, <2>11, <2>12, <2>13 DEF Returning
  <2> QED
    BY <2>4, <2>14
<1> QED
  BY <1>5, <1>6

(* A search meets the target exactly if it is reached.                     *)
LEMMA SearchEnds ==
  ASSUME NEW facts, facts.nodes \in SUBSET Nodes, facts.edges \in SUBSET Edges, NEW source \in facts.nodes,
         NEW target \in facts.nodes, NEW undirected, NEW far, Metric(facts, source, undirected, far),
         source \in DOMAIN far, NEW a, SearchRun(a, facts, source, target, undirected)
  PROVE  /\ Nearest(facts, source, undirected, far, a[Cardinality(Nodes)].by)
         /\ target \in DOMAIN far <=> target \in DOMAIN a[Cardinality(Nodes)].by
<1> DEFINE N == Cardinality(Nodes)
           T == {i \in 0..N : Searched(facts, source, undirected, far, target, i, a[i])}
<1>1. N \in Nat
  BY NodesCounted
<1>2. 0 \in T
  <2>1. PICK queue, by : queue = <<source>> /\ by = [n \in {source} |-> [node |-> NoNode]]
    OBVIOUS
  <2>2. a[0].queue = queue /\ a[0].by = by /\ a[0] \in Searches(facts, source)
    BY <1>1, <2>1 DEF SearchRun
  <2>3. DOMAIN queue = {1} /\ queue[1] = source /\ Len(queue) = 1 /\ DOMAIN by = {source}
    BY <2>1
  <2>4. far[source] \in Nat
    BY DEF Metric
  <2>5. Ordered(far, far[source], queue)
    BY <2>3, <2>4 DEF Ordered
  <2>6. Nearest(facts, source, undirected, far, by)
    BY <2>3 DEF Nearest
  <2>7. Bfs(facts, source, undirected, far, queue, by, {})
    BY <2>3, <2>5, <2>6 DEF Bfs
  <2>8. Cardinality(DOMAIN by) = 1
    <3>1. Cardinality({source}) = 1
      BY FS_Singleton
    <3> QED
      BY <2>3, <3>1, Zenon
  <2>9. Searched(facts, source, undirected, far, target, 0, a[0])
    BY <2>2, <2>3, <2>7, <2>8 DEF Searched
  <2> QED
    BY <1>1, <2>9
<1>3. ASSUME NEW i \in 1..N, i - 1 \in T PROVE i \in T
  <2>1. i - 1 \in Nat /\ (i - 1) + 1 = i
    BY <1>1
  <2>2. PICK s : s = a[i - 1]
    OBVIOUS
  <2>3. a[i] = SearchFrom(facts, s, target, undirected) /\ Searched(facts, source, undirected, far, target, i - 1, s)
    BY <1>3, <2>2 DEF SearchRun
  <2>4. Searched(facts, source, undirected, far, target, (i - 1) + 1, SearchFrom(facts, s, target, undirected))
    BY <2>1, <2>3, SearchFromKeeps
  <2> QED
    BY <1>1, <2>1, <2>3, <2>4
<1>4. \A i \in 0..N : i \in T
  <2> HIDE DEF T
  <2> QED
    BY <1>1, <1>2, <1>3, UpToInduction
<1>5. PICK s, queue, by : s = a[N] /\ queue = s.queue /\ by = s.by
  OBVIOUS
<1>6. Searched(facts, source, undirected, far, target, N, s)
  BY <1>1, <1>4, <1>5
<1>7. Shape(facts, source, queue, by)
  BY <1>5, <1>6, SearchFields DEF Searched
<1>8. PICK left : Bfs(facts, source, undirected, far, queue, by, left)
  BY <1>5, <1>6 DEF Searched
<1>9. queue \in Seq(facts.nodes) /\ Len(queue) \in Nat /\ (queue = <<>> <=> Len(queue) = 0)
      /\ DOMAIN queue = 1..Len(queue)
  BY <1>7 DEF Shape
<1>10. Over(queue, target)
  <2>1. ASSUME ~Over(queue, target) PROVE FALSE
    <3>1. Cardinality(DOMAIN by) >= N + Len(queue) /\ Len(queue) # 0
      BY <1>5, <1>6, <1>9, <2>1 DEF Searched, Over
    <3>2. DOMAIN by \in SUBSET Nodes /\ IsFiniteSet(Nodes)
      BY <1>7, ReadsAssumption DEF Shape
    <3>3. Cardinality(DOMAIN by) \in Nat /\ Cardinality(DOMAIN by) <= N
      BY <3>2, FS_Subset, FS_CardinalityType
    <3> QED
      BY <1>1, <1>9, <3>1, <3>3
  <2> QED
    BY <2>1
<1>11. ASSUME target \in DOMAIN far PROVE target \in DOMAIN by
  <2>1. CASE queue = <<>>
    <3>1. far[target] \in Nat /\ \A i \in DOMAIN queue : far[target] <= far[queue[i]]
      BY <1>9, <1>11, <2>1 DEF Metric
    <3>2. source \in DOMAIN by
      BY <1>7 DEF Shape
    <3> QED
      BY <1>8, <1>11, <3>1, <3>2, NearMet
  <2>2. CASE queue # <<>>
    <3>1. Head(queue) = target /\ Head(queue) = queue[1] /\ 1 \in DOMAIN queue
      BY <1>9, <1>10, <2>2 DEF Over
    <3> QED
      BY <1>7, <3>1 DEF Shape
  <2> QED
    BY <2>1, <2>2
<1>12. Nearest(facts, source, undirected, far, by)
  BY <1>8 DEF Bfs
<1>13. target \in DOMAIN by => target \in DOMAIN far
  BY <1>12 DEF Nearest
<1> QED
  BY <1>5, <1>11, <1>12, <1>13

(* What the path search finds: a walk along the facts as long as the target*)
(* is far, if it is reached.                                               *)
FoundPath(facts, source, target, undirected, far, p) ==
  /\ p \in [nodes : Seq(facts.nodes), edges : Seq(facts.edges)]
  /\ Len(p.nodes) = Len(p.edges) + 1 /\ p.nodes[1] = source /\ p.nodes[Len(p.nodes)] = target
  /\ \A j \in DOMAIN p.edges : Crosses(facts, undirected, p.nodes[j], p.edges[j], p.nodes[j + 1])
  /\ target \in DOMAIN far /\ Len(p.edges) = far[target]

(* The path search finds a shortest path, if there is one. (shortestPath)  *)
LEMMA ShortestFacts ==
  ASSUME NEW facts, facts.nodes \in SUBSET Nodes, facts.edges \in SUBSET Edges, NEW source \in facts.nodes,
         NEW target, NEW undirected, NEW far, Metric(facts, source, undirected, far), source \in DOMAIN far,
         NEW p, p = shortestPath(facts, source, target, undirected)
  PROVE  /\ p = NoPath <=> target \notin DOMAIN far
         /\ p # NoPath => FoundPath(facts, source, target, undirected, far, p)
<1>1. CASE target \notin facts.nodes
  <2>1. p = NoPath
    BY <1>1 DEF shortestPath
  <2>2. target \notin DOMAIN far
    BY <1>1 DEF Metric
  <2> QED
    BY <2>1, <2>2
<1>2. CASE target \in facts.nodes
  <2>1. PICK a : /\ SearchRun(a, facts, source, target, undirected)
                 /\ p = PathBack(a[Cardinality(Nodes)].by, source, target)
    BY <1>2, SearchIterates
  <2>2. PICK N \in Nat : N = Cardinality(Nodes)
    BY NodesCounted
  <2>3. PICK s \in Searches(facts, source) : s = a[Cardinality(Nodes)]
    <3>1. N \in 0..N
      BY <2>2
    <3> QED
      BY <2>1, <2>2, <3>1 DEF SearchRun
  <2>4. PICK queue, by : queue = s.queue /\ by = s.by /\ Shape(facts, source, queue, by)
    BY SearchFields
  <2>5. p = PathBack(by, source, target)
    BY <2>1, <2>3, <2>4
  <2>6. Nearest(facts, source, undirected, far, by) /\ (target \in DOMAIN far <=> target \in DOMAIN by)
    BY <1>2, <2>1, <2>3, <2>4, SearchEnds
  <2>7. CASE target \notin DOMAIN by
    BY <2>5, <2>6, <2>7 DEF PathBack
  <2>8. CASE target \in DOMAIN by
    <3>1. PICK b : BackRun(b, facts, by, source, target) /\ PathBack(by, source, target) = b[Cardinality(Nodes)]
      BY <2>4, <2>8, BackIterates
    <3> DEFINE T == {i \in 0..N : Returning(facts, source, undirected, far, by, target, i, b[i])}
    <3>2. 0 \in T
      <4>1. PICK w : w = b[0]
        OBVIOUS
      <4>2. w \in Backs(facts, by) /\ w = [nodes |-> <<target>>, edges |-> <<>>]
        BY <2>2, <3>1, <4>1 DEF BackRun
      <4>3. w.nodes = <<target>> /\ w.edges = <<>>
        BY <4>2
      <4>4. Len(w.nodes) = 1 /\ w.nodes[1] = target /\ Len(w.edges) = 0 /\ DOMAIN w.edges = {}
        BY <4>3
      <4>5. far[target] \in Nat
        BY <2>6, <2>8 DEF Metric
      <4>6. Returning(facts, source, undirected, far, by, target, 0, w)
        BY <4>2, <4>4, <4>5 DEF Returning
      <4> QED
        BY <2>2, <4>1, <4>6
    <3>3. ASSUME NEW i \in 1..N, i - 1 \in T PROVE i \in T
      <4>1. i - 1 \in Nat /\ (i - 1) + 1 = i
        BY <2>2
      <4>2. PICK w : w = b[i - 1]
        OBVIOUS
      <4>3. b[i] = StepBack(by, source, w) /\ Returning(facts, source, undirected, far, by, target, i - 1, w)
        BY <2>2, <3>1, <3>3, <4>2 DEF BackRun
      <4>4. Returning(facts, source, undirected, far, by, target, (i - 1) + 1, StepBack(by, source, w))
        BY <2>4, <2>6, <2>8, <4>1, <4>3, BackKeeps
      <4> QED
        BY <4>1, <4>3, <4>4
    <3>4. \A i \in 0..N : i \in T
      <4> HIDE DEF T
      <4> QED
        BY <2>2, <3>2, <3>3, UpToInduction
    <3>5. Returning(facts, source, undirected, far, by, target, N, p)
      BY <2>2, <2>5, <3>1, <3>4
    <3>6. p.nodes \in Seq(DOMAIN by) /\ p.edges \in Seq(facts.edges) /\ p.nodes # <<>>
          /\ p = [nodes |-> p.nodes, edges |-> p.edges]
      BY <3>5 DEF Returning, Backs
    <3>7. p.nodes \in Seq(facts.nodes)
      <4>1. DOMAIN by \in SUBSET facts.nodes
        BY <2>4 DEF Shape
      <4> QED
        BY <3>6, <4>1
    <3>8. p.nodes[1] \in DOMAIN far /\ far[p.nodes[1]] \in Nat /\ far[target] \in Nat /\ far[target] <= N
      <4>1. p.nodes[1] \in DOMAIN by
        BY <3>6
      <4> QED
        BY <2>2, <2>6, <2>8, <4>1 DEF Nearest, Metric
    <3>9. Len(p.edges) \in Nat /\ far[p.nodes[1]] + Len(p.edges) = far[target]
      BY <3>5, <3>6 DEF Returning
    <3>10. p.nodes[1] = source
      <4>1. ASSUME p.nodes[1] # source PROVE FALSE
        <5>1. Len(p.edges) >= N
          BY <3>5, <4>1 DEF Returning
        <5>2. far[p.nodes[1]] # 0
          BY <3>8, <4>1 DEF Metric
        <5> QED
          BY <3>8, <3>9, <5>1, <5>2
      <4> QED
        BY <4>1
    <3>11. far[source] = 0
      BY DEF Metric
    <3>12. Len(p.edges) = far[target]
      BY <3>9, <3>10, <3>11
    <3>13. p \in [nodes : Seq(facts.nodes), edges : Seq(facts.edges)]
      BY <3>6, <3>7
    <3>14. FoundPath(facts, source, target, undirected, far, p)
      BY <2>6, <2>8, <3>5, <3>10, <3>12, <3>13 DEF FoundPath, Returning
    <3>15. p # NoPath
      BY <3>6 DEF NoPath
    <3> QED
      BY <2>6, <2>8, <3>14, <3>15
  <2> QED
    BY <2>7, <2>8
<1> QED
  BY <1>1, <1>2

(* A request that walks from one node, along any edge in the direction of  *)
(* the search.                                                             *)
WalksFrom(q, source, undirected) ==
  /\ q.starts = {source} /\ q.projects = {} /\ q.relations = {}
  /\ undirected \in BOOLEAN /\ q.direction = IF undirected THEN "both" ELSE "outgoing"

(* The search crosses the edges that a walk takes. (DiscoverFrom)          *)
LEMMA CrossesLinks ==
  ASSUME NEW f \in Graphs, NEW facts, facts.nodes = f.nodes, facts.edges = f.edges,
         NEW r, NEW undirected \in BOOLEAN, r.direction = IF undirected THEN "both" ELSE "outgoing"
  PROVE  \A n, e, m : Crosses(facts, undirected, n, e, m) <=>
                        e \in f.edges /\ m \in f.nodes /\ traversalNeighbor(n, e, r.direction) = m
<1>1. NoNode \notin f.nodes
  BY ReadsAssumption DEF Graphs
<1>2. ASSUME NEW n, NEW e \in f.edges, NEW m \in f.nodes
      PROVE  Crosses(facts, undirected, n, e, m) <=> traversalNeighbor(n, e, r.direction) = m
  <2>1. CASE undirected
    BY <1>1, <1>2, <2>1 DEF Crosses, Leaving, Across, traversalNeighbor
  <2>2. CASE ~undirected
    BY <1>1, <1>2, <2>2 DEF Crosses, Leaving, Across, traversalNeighbor
  <2> QED
    BY <2>1, <2>2
<1>3. \A n, e, m : Crosses(facts, undirected, n, e, m) => e \in f.edges /\ m \in f.nodes
  BY DEF Crosses, Leaving
<1> QED
  BY <1>2, <1>3

(* The distances of the facts measure the search.                          *)
LEMMA DistancesMeasure ==
  ASSUME NEW f \in Graphs, NEW facts, facts.nodes = f.nodes, facts.edges = f.edges,
         NEW source \in f.nodes, NEW undirected, NEW q, WalksFrom(q, source, undirected),
         NEW far, far = [n \in Reaches(f, q) |-> Distance(f, q, n)]
  PROVE  Metric(facts, source, undirected, far) /\ source \in DOMAIN far
<1>1. DOMAIN far = Reaches(f, q) /\ \A n \in Reaches(f, q) : far[n] = Distance(f, q, n)
  OBVIOUS
<1>2. q.direction \in {"outgoing", "incoming", "both"} /\ q.projects = {} /\ q.relations = {} /\ q.starts = {source}
  BY DEF WalksFrom
<1>3. Reaches(f, q) \in SUBSET f.nodes
  BY NodesCounted, ReachFacts DEF Reaches
<1>4. \A n \in Reaches(f, q) : far[n] \in Nat /\ far[n] <= Cardinality(Nodes)
  <2>1. \A n \in Reaches(f, q) : Distance(f, q, n) \in 0..Cardinality(Nodes) /\ Distance(f, q, n) \in Nat
    BY DistanceFacts
  <2> QED
    BY <1>1, <2>1, NodesCounted
<1>5. far \in [DOMAIN far -> Nat]
  BY <1>1, <1>4
<1>6. \A n : (n \in Reaches(f, q) /\ Distance(f, q, n) = 0) <=> n = source
  <2>1. \A n : (n \in Reaches(f, q) /\ Distance(f, q, n) = 0) <=> n \in q.starts \cap f.nodes
    BY DistanceZero
  <2> QED
    BY <1>2, <2>1
<1>7. \A n, e, m : Crosses(facts, undirected, n, e, m) <=> e \in f.edges /\ LinksTo(f, q, n, e, m)
  <2>1. \A n, e, m : Crosses(facts, undirected, n, e, m) <=>
                       e \in f.edges /\ m \in f.nodes /\ traversalNeighbor(n, e, q.direction) = m
    BY CrossesLinks DEF WalksFrom
  <2>2. \A n, e, m : LinksTo(f, q, n, e, m) <=> m \in f.nodes /\ traversalNeighbor(n, e, q.direction) = m
    BY <1>2 DEF LinksTo, Allows
  <2> QED
    BY <2>1, <2>2
<1>8. \A n : InScope(f, q.projects, n)
  BY <1>2 DEF InScope
<1>9. ASSUME NEW n \in Reaches(f, q), NEW e, NEW m, Crosses(facts, undirected, n, e, m)
      PROVE  m \in Reaches(f, q) /\ far[m] <= far[n] + 1
  <2>1. e \in f.edges /\ LinksTo(f, q, n, e, m)
    BY <1>7, <1>9
  <2>2. m \in Reaches(f, q) /\ Distance(f, q, m) <= Distance(f, q, n) + 1
    BY <1>2, <1>8, <2>1, DistanceNext
  <2> QED
    BY <1>1, <2>2
<1>10. ASSUME NEW m \in Reaches(f, q), m # source
       PROVE  \E n \in Reaches(f, q) : far[n] + 1 = far[m] /\ \E e : Crosses(facts, undirected, n, e, m)
  <2>1. Distance(f, q, m) > 0
    BY <1>1, <1>4, <1>6, <1>10
  <2>2. PICK n \in Reaches(f, q) : /\ InScope(f, q.projects, n) /\ Distance(f, q, n) + 1 = Distance(f, q, m)
                                   /\ \E e \in f.edges : LinksTo(f, q, n, e, m)
    BY <1>2, <2>1, DistanceBefore
  <2> QED
    BY <1>1, <1>7, <2>2
<1>11. Metric(facts, source, undirected, far)
  BY <1>1, <1>3, <1>4, <1>5, <1>6, <1>9, <1>10 DEF Metric
<1> QED
  BY <1>1, <1>6, <1>11

(* What a search over facts promises, in the distances of the facts.       *)
PathIs(f, q, source, target, undirected, p) ==
  IF p = NoPath THEN target \notin Reaches(f, q)
  ELSE /\ p \in [nodes : Seq(f.nodes), edges : Seq(f.edges)] /\ IsWalk(p, source, target, undirected)
       /\ target \in Reaches(f, q) /\ Len(p.edges) = Distance(f, q, target)
       /\ \A j \in DOMAIN p.edges : traversalNeighbor(p.nodes[j], p.edges[j], q.direction) = p.nodes[j + 1]

(* A path is a shortest walk over the facts, if there is one.              *)
(* (shortestPath)                                                          *)
LEMMA ShortestIs ==
  ASSUME NEW f \in Graphs, NEW facts, facts.nodes = f.nodes, facts.edges = f.edges,
         NEW source \in f.nodes, NEW target, NEW undirected, NEW q, WalksFrom(q, source, undirected),
         NEW p, p = shortestPath(facts, source, target, undirected)
  PROVE  PathIs(f, q, source, target, undirected, p)
<1>1. PICK far : far = [n \in Reaches(f, q) |-> Distance(f, q, n)]
  OBVIOUS
<1>2. DOMAIN far = Reaches(f, q) /\ \A n \in Reaches(f, q) : far[n] = Distance(f, q, n)
  BY <1>1
<1>3. Metric(facts, source, undirected, far) /\ source \in DOMAIN far
  BY <1>1, DistancesMeasure
<1>4. facts.nodes \in SUBSET Nodes /\ facts.edges \in SUBSET Edges /\ source \in facts.nodes
  BY DEF Graphs
<1>5. /\ p = NoPath <=> target \notin DOMAIN far
      /\ p # NoPath => FoundPath(facts, source, target, undirected, far, p)
  BY <1>3, <1>4, ShortestFacts
<1>6. CASE p = NoPath
  BY <1>2, <1>5, <1>6 DEF PathIs
<1>7. CASE p # NoPath
  <2>1. FoundPath(facts, source, target, undirected, far, p)
    BY <1>5, <1>7
  <2>2. \A j \in DOMAIN p.edges : traversalNeighbor(p.nodes[j], p.edges[j], q.direction) = p.nodes[j + 1]
    <3>1. \A n, e, m : Crosses(facts, undirected, n, e, m) => traversalNeighbor(n, e, q.direction) = m
      BY CrossesLinks DEF WalksFrom
    <3> QED
      BY <2>1, <3>1 DEF FoundPath
  <2>3. ASSUME NEW j \in DOMAIN p.edges
        PROVE  \/ <<p.edges[j].source, p.edges[j].target>> = <<p.nodes[j], p.nodes[j + 1]>>
               \/ undirected /\ <<p.edges[j].target, p.edges[j].source>> = <<p.nodes[j], p.nodes[j + 1]>>
    <3>1. Crosses(facts, undirected, p.nodes[j], p.edges[j], p.nodes[j + 1])
      BY <2>1 DEF FoundPath
    <3>2. \/ p.edges[j].source = p.nodes[j] /\ p.edges[j].target = p.nodes[j + 1]
          \/ undirected /\ p.edges[j].target = p.nodes[j] /\ p.edges[j].source = p.nodes[j + 1]
      BY <3>1 DEF Crosses, Leaving, Across
    <3> QED
      BY <3>2
  <2>4. IsWalk(p, source, target, undirected)
    BY <2>1, <2>3 DEF FoundPath, IsWalk
  <2>5. p \in [nodes : Seq(f.nodes), edges : Seq(f.edges)]
    BY <2>1 DEF FoundPath
  <2>6. target \in Reaches(f, q) /\ Len(p.edges) = Distance(f, q, target)
    BY <1>2, <2>1 DEF FoundPath
  <2> QED
    BY <1>7, <2>2, <2>4, <2>5, <2>6 DEF PathIs
<1> QED
  BY <1>6, <1>7

(* Links from nodes in scope, one after the other.                         *)
LinkedUp(g, r, nodes, edges, k) ==
  \A j \in 1..k : /\ InScope(g, r.projects, nodes[j]) /\ edges[j] \in g.edges
                  /\ LinksTo(g, r, nodes[j], edges[j], nodes[j + 1])

(* Along such links a walk leads as far as it is long.                     *)
LEMMA WalkLeads ==
  ASSUME NEW g \in Graphs, NEW r, r.direction \in {"outgoing", "incoming", "both"},
         NEW nodes, NEW edges, NEW k \in Nat, nodes[1] \in r.starts \cap g.nodes,
         LinkedUp(g, r, nodes, edges, k)
  PROVE  nodes[k + 1] \in Reach(g, r, k)
<1> DEFINE T == {j \in 0..k : nodes[j + 1] \in Reach(g, r, j)}
<1>1. 0 \in T
  <2>1. Reach(g, r, 0) = r.starts \cap g.nodes
    BY ReachFacts
  <2>2. 0 + 1 = 1 /\ 0 \in 0..k
    OBVIOUS
  <2> QED
    BY <2>1, <2>2
<1>2. ASSUME NEW j \in 1..k, j - 1 \in T PROVE j \in T
  <2>1. j - 1 \in Nat /\ (j - 1) + 1 = j
    OBVIOUS
  <2>2. PICK X \in SUBSET g.nodes : X = Reach(g, r, j - 1) /\ Reach(g, r, (j - 1) + 1) = WalkFurther(g, r, X)
    BY <2>1, ReachFacts
  <2>3. nodes[j] \in X
    BY <1>2, <2>1, <2>2
  <2>4. nodes[j + 1] \in WalkFurther(g, r, X)
    BY <2>3, FurtherLinks DEF LinkedUp
  <2> QED
    BY <2>1, <2>2, <2>4
<1>3. \A j \in 0..k : j \in T
  <2> HIDE DEF T
  <2> QED
    BY <1>1, <1>2, UpToInduction
<1> QED
  BY <1>3

(* A walk from a node out of scope leads nowhere.                          *)
LEMMA NoWalkOut ==
  ASSUME NEW g \in Graphs, NEW r, r.direction \in {"outgoing", "incoming", "both"},
         \A n \in r.starts \cap g.nodes : ~InScope(g, r.projects, n)
  PROVE  \A d \in Nat : Reach(g, r, d) \subseteq r.starts
<1>1. Reach(g, r, 0) = r.starts \cap g.nodes
  BY ReachFacts
<1>2. PICK X \in SUBSET g.nodes : X = Reach(g, r, 0) /\ Reach(g, r, 0 + 1) = WalkFurther(g, r, X)
  BY ReachFacts
<1>3. WalkFurther(g, r, X) = X
  <2>1. \A m : m \in WalkFurther(g, r, X) <=>
               m \in X \/ \E n \in X : InScope(g, r.projects, n) /\ \E e \in g.edges : LinksTo(g, r, n, e, m)
    BY FurtherLinks
  <2>2. \A n \in X : ~InScope(g, r.projects, n)
    BY <1>1, <1>2
  <2> QED
    BY <2>1, <2>2
<1>4. \A k \in Nat : Reach(g, r, 0 + k) = Reach(g, r, 0)
  <2>1. 0 \in Nat /\ Reach(g, r, 0 + 1) = Reach(g, r, 0)
    BY <1>2, <1>3
  <2> QED
    BY <2>1, ReachStays, Zenon
<1>5. \A k \in Nat : 0 + k = k
  OBVIOUS
<1> QED
  BY <1>1, <1>4, <1>5

(* What a path within a traversal is of the graph.                         *)
PathIn(g, r, t, source, target, undirected, p) ==
  IF p = NoPath
  THEN target \notin Reach(g, r, r.maxDepth) \/ Cardinality(Reach(g, r, r.maxDepth)) > r.maxNodes
  ELSE /\ IsWalk(p, source, target, undirected) /\ Len(p.edges) \in Nat /\ Len(p.edges) <= r.maxDepth
       /\ Len(p.edges) > 0 => target \notin Reach(g, r, Len(p.edges) - 1)
       /\ \/ target \in Reach(g, r, Len(p.edges))
          \/ /\ undirected /\ t.boundary # NoNode
             /\ \E i \in 2..(Len(p.nodes) - 1) : ~InScope(g, r.projects, p.nodes[i])

(* A traversal that was not cut holds everything within its depth, however *)
(* few nodes were asked for.                                               *)
LEMMA AllTraversed ==
  ASSUME NEW g \in Graphs, NEW r, r.maxDepth \in Nat, r.maxNodes \in Nat, NEW t, TraversalOf(g, r, t), Kept(g, r, t),
         t.at = "done", ~(Cardinality(Reach(g, r, r.maxDepth)) > r.maxNodes)
  PROVE  t.nodes = Reach(g, r, r.maxDepth)
<1>1. CASE "node_limit" \notin t.reasons
  BY <1>1 DEF TraversalOf
<1>2. CASE "node_limit" \in t.reasons
  <2>1. PICK R : R = Reach(g, r, r.maxDepth)
    OBVIOUS
  <2>2. R \in SUBSET Nodes /\ IsFiniteSet(Nodes)
    BY <2>1, ReachFacts, ReadsAssumption DEF Graphs
  <2>3. IsFiniteSet(R) /\ Cardinality(R) \in Nat
    BY <2>2, FS_Subset, FS_CardinalityType
  <2>4. t.nodes \in SUBSET R /\ Cardinality(t.nodes) = r.maxNodes
    BY <1>2, <2>1 DEF TraversalOf, Kept
  <2>5. Cardinality(R) <= r.maxNodes
    BY <2>1, <2>3
  <2>6. ~(Cardinality(t.nodes) < Cardinality(R))
    BY <2>3, <2>4, <2>5
  <2>7. t.nodes = R
    BY <2>3, <2>4, <2>6, FS_Subset
  <2> QED
    BY <2>1, <2>7
<1> QED
  BY <1>1, <1>2

(* A path over the facts of a traversal is a shortest one of the graph, as *)
(* far as the scope reaches. (FindPathSnapshot, executePathPlan)           *)
LEMMA TraversedPath ==
  ASSUME NEW g \in Graphs, NEW r, NEW source \in g.nodes, r.starts = {source}, NEW undirected \in BOOLEAN,
         r.direction = IF undirected THEN "both" ELSE "outgoing", r.maxDepth \in Nat, r.maxNodes \in Nat,
         NEW t, t = Traverse(g, r), t.at # "error", NEW target,
         NEW p, p = shortestPath(t, source, target, undirected)
  PROVE  PathIn(g, r, t, source, target, undirected, p)
<1>1. r.direction \in {"outgoing", "incoming", "both"} /\ r.starts \in SUBSET Nodes
  BY DEF Graphs
<1>2. TraversalOf(g, r, t) /\ Kept(g, r, t) /\ t.at = "done" /\ t \in TraversalsOf(g)
  <2>1. TraversalOf(g, r, t) /\ Kept(g, r, t)
    BY <1>1, TraverseFacts, TraverseKept
  <2> QED
    BY <2>1 DEF TraversalOf
<1>3. PICK q : q = Free(r)
  OBVIOUS
<1>4. WalksFrom(q, source, undirected) /\ q.direction = r.direction
  BY <1>3 DEF WalksFrom, Free
<1>5. PICK f \in Graphs : f = Facts(t) /\ f.nodes = t.nodes /\ f.edges = t.edges
  <2>1. t.nodes \in SUBSET g.nodes /\ t.edges \in SUBSET g.edges
    BY <1>2 DEF TraversalsOf
  <2>2. Facts(t) \in Graphs
    BY <2>1, FactsGraph
  <2>3. Facts(t).nodes = t.nodes /\ Facts(t).edges = t.edges
    BY DEF Facts
  <2> QED
    BY <2>2, <2>3
<1>6. t.nodes \subseteq Reach(g, r, r.maxDepth) /\ t.nodes \in SUBSET g.nodes /\ t.edges \in SUBSET g.edges
  BY <1>2 DEF TraversalOf, TraversalsOf
<1>7. \A k \in Nat : \A n \in t.nodes : n \in Reach(g, r, k) => n \in Reach(f, q, k)
  BY <1>2, <1>3, <1>5 DEF Kept
<1>8. source \in f.nodes => PathIs(f, q, source, target, undirected, p)
  BY <1>4, <1>5, ShortestIs
<1>9. CASE p = NoPath
  <2>1. ASSUME target \in Reach(g, r, r.maxDepth), ~(Cardinality(Reach(g, r, r.maxDepth)) > r.maxNodes) PROVE FALSE
    <3>1. t.nodes = Reach(g, r, r.maxDepth)
      BY <1>2, <2>1, AllTraversed
    <3>2. source \in Reach(g, r, 0)
      <4>1. Reach(g, r, 0) = r.starts \cap g.nodes
        BY ReachFacts
      <4> QED
        BY <4>1
    <3>3. 0 <= r.maxDepth
      OBVIOUS
    <3>4. source \in f.nodes
      BY <1>5, <3>1, <3>2, <3>3, ReachUpTo
    <3>5. target \notin Reaches(f, q)
      BY <1>8, <1>9, <3>4 DEF PathIs
    <3>6. target \in Reach(f, q, r.maxDepth)
      BY <1>7, <2>1, <3>1
    <3> QED
      BY <3>5, <3>6, ReachEnds
  <2> QED
    BY <1>9, <2>1 DEF PathIn
<1>10. CASE p # NoPath
  <2>1. source \in f.nodes
    BY <1>5, <1>10 DEF shortestPath
  <2>2. PICK nodes \in Seq(f.nodes), edges \in Seq(f.edges) : nodes = p.nodes /\ edges = p.edges
    BY <1>8, <1>10, <2>1 DEF PathIs
  <2>3. PICK L \in Nat : L = Len(edges) /\ Len(nodes) = L + 1
    BY <1>8, <1>10, <2>1, <2>2 DEF PathIs, IsWalk
  <2>4. IsWalk(p, source, target, undirected) /\ nodes[1] = source /\ nodes[L + 1] = target
    BY <1>8, <1>10, <2>1, <2>2, <2>3 DEF PathIs, IsWalk
  <2>5. /\ target \in Reaches(f, q) /\ L = Distance(f, q, target)
        /\ \A j \in 1..L : traversalNeighbor(nodes[j], edges[j], r.direction) = nodes[j + 1]
    <3>1. DOMAIN p.edges = 1..L
      BY <2>2, <2>3
    <3> QED
      BY <1>4, <1>8, <1>10, <2>1, <2>2, <2>3, <3>1 DEF PathIs
  <2>6. \A k \in Nat : target \in Reach(f, q, k) <=> L <= k
    BY <2>5, DistanceFacts
  <2>7. \A j \in 1..L : nodes[j] \in f.nodes /\ nodes[j + 1] \in f.nodes /\ edges[j] \in f.edges
    <3>1. \A j \in 1..L : j \in 1..Len(nodes) /\ j + 1 \in 1..Len(nodes)
      BY <2>3
    <3> QED
      BY <2>3, <3>1
  <2>8. target \in t.nodes
    <3>1. L + 1 \in 1..Len(nodes)
      BY <2>3
    <3> QED
      BY <1>5, <2>4, <3>1
  <2>9. L <= r.maxDepth
    BY <1>6, <1>7, <2>6, <2>8
  <2>10. L > 0 => target \notin Reach(g, r, L - 1)
    <3>1. ASSUME L > 0, target \in Reach(g, r, L - 1) PROVE FALSE
      <4>1. L - 1 \in Nat /\ ~(L <= L - 1)
        BY <3>1
      <4> QED
        BY <1>7, <2>6, <2>8, <3>1, <4>1
    <3> QED
      BY <3>1
  <2>11. \A j \in 1..L : edges[j] \in g.edges /\ LinksTo(g, r, nodes[j], edges[j], nodes[j + 1])
    <3>1. ASSUME NEW j \in 1..L PROVE Allows(r.relations, edges[j])
      <4>1. PICK e \in t.edges : e = edges[j]
        BY <1>5, <2>7
      <4>2. PICK n \in t.nodes, m \in t.nodes : LinksTo(g, r, n, e, m)
        BY <1>2 DEF Kept
      <4> QED
        BY <4>1, <4>2 DEF LinksTo
    <3>2. \A j \in 1..L : edges[j] \in g.edges /\ nodes[j + 1] \in g.nodes
      BY <1>5, <1>6, <2>7
    <3> QED
      BY <2>5, <3>1, <3>2 DEF LinksTo
  <2>12. L > 0 => InScope(g, r.projects, source)
    <3>1. ASSUME L > 0, ~InScope(g, r.projects, source) PROVE FALSE
      <4>1. Reach(g, r, r.maxDepth) \subseteq {source}
        BY <1>1, <3>1, NoWalkOut
      <4>2. 1 \in 1..L
        BY <3>1
      <4>3. PICK e \in t.edges : e = edges[1]
        BY <1>5, <2>7, <4>2
      <4>4. PICK n \in t.nodes : InScope(g, r.projects, n)
        BY <1>2 DEF Kept
      <4> QED
        BY <1>6, <3>1, <4>1, <4>4
    <3> QED
      BY <3>1
  <2>13. (\A j \in 1..L : InScope(g, r.projects, nodes[j])) => target \in Reach(g, r, L)
    <3>1. ASSUME \A j \in 1..L : InScope(g, r.projects, nodes[j]) PROVE target \in Reach(g, r, L)
      <4>1. nodes[1] \in r.starts \cap g.nodes
        BY <2>4
      <4>2. \A j \in 1..L : /\ InScope(g, r.projects, nodes[j]) /\ edges[j] \in g.edges
                            /\ LinksTo(g, r, nodes[j], edges[j], nodes[j + 1])
        BY <2>11, <3>1
      <4>3. nodes[L + 1] \in Reach(g, r, L)
        <5>1. LinkedUp(g, r, nodes, edges, L)
          BY <4>2 DEF LinkedUp
        <5> QED
          BY <1>1, <4>1, <5>1, WalkLeads
      <4> QED
        BY <2>4, <4>3
    <3> QED
      BY <3>1
  <2>14. CASE ~undirected
    <3>1. ASSUME NEW j \in 1..L PROVE InScope(g, r.projects, nodes[j])
      <4>1. PICK e \in t.edges : e = edges[j]
        BY <1>5, <2>7
      <4>2. PICK n \in t.nodes, m \in t.nodes : InScope(g, r.projects, n) /\ LinksTo(g, r, n, e, m)
        BY <1>2 DEF Kept
      <4>3. NoNode \notin g.nodes
        BY ReadsAssumption DEF Graphs
      <4>4. r.direction = "outgoing"
        BY <2>14
      <4>5. e.source = n
        BY <4>2, <4>3, <4>4 DEF LinksTo, traversalNeighbor
      <4>6. e.source = nodes[j]
        <5>1. LinksTo(g, r, nodes[j], e, nodes[j + 1])
          BY <2>11, <4>1
        <5> QED
          BY <4>3, <4>4, <5>1 DEF LinksTo, traversalNeighbor
      <4> QED
        BY <4>2, <4>5, <4>6
    <3>2. target \in Reach(g, r, L)
      BY <2>13, <3>1
    <3> QED
      BY <1>10, <2>2, <2>3, <2>4, <2>9, <2>10, <3>2 DEF PathIn
  <2>15. CASE undirected
    <3>1. CASE \A i \in 2..(Len(nodes) - 1) : InScope(g, r.projects, nodes[i])
      <4>1. ASSUME NEW j \in 1..L PROVE InScope(g, r.projects, nodes[j])
        <5>1. CASE j = 1
          <6>1. L > 0
            OBVIOUS
          <6> QED
            BY <2>4, <2>12, <5>1, <6>1
        <5>2. CASE j # 1
          <6>1. j \in 2..(Len(nodes) - 1)
            BY <2>3, <5>2
          <6> QED
            BY <3>1, <6>1
        <5> QED
          BY <5>1, <5>2
      <4>2. target \in Reach(g, r, L)
        BY <2>13, <4>1
      <4> QED
        BY <1>10, <2>2, <2>3, <2>4, <2>9, <2>10, <4>2 DEF PathIn
    <3>2. CASE \E i \in 2..(Len(nodes) - 1) : ~InScope(g, r.projects, nodes[i])
      <4>1. PICK i \in 2..(Len(nodes) - 1) : ~InScope(g, r.projects, nodes[i])
        BY <3>2
      <4>2. nodes[i] \in t.nodes
        <5>1. i \in 1..Len(nodes)
          BY <2>3
        <5> QED
          BY <1>5, <5>1
      <4>3. t.boundary # NoNode
        BY <1>2, <4>1, <4>2 DEF Kept
      <4> QED
        BY <1>10, <2>2, <2>3, <2>4, <2>9, <2>10, <2>15, <3>2, <4>3 DEF PathIn
    <3> QED
      BY <3>1, <3>2
  <2> QED
    BY <2>14, <2>15
<1> QED
  BY <1>9, <1>10

-----------------------------------------------------------------------------
(* The answer of a path                                                    *)

(* A walk from one node, as the question asks for it.                      *)
WalkAsked(source, projects, relations, depth, direction) ==
  [starts |-> {source}, projects |-> projects, relations |-> relations, maxDepth |-> depth, direction |-> direction]

(* A path is as short as walks in g can be, or none exists or may be known.*)
Shortest(g, p, r, target, maxNodes) ==
  IF p = NoPath
  THEN target \notin Reach(g, r, r.maxDepth) \/ Cardinality(Reach(g, r, r.maxDepth)) > maxNodes
  ELSE /\ Len(p.edges) <= r.maxDepth /\ target \in Reach(g, r, Len(p.edges))
       /\ Len(p.edges) > 0 => target \notin Reach(g, r, Len(p.edges) - 1)

(* The answer of path for its two endpoints.                               *)
CommandAnswer(g, p, source, target, answer) ==
  LET r(direction) == WalkAsked(source, p.projects, p.relations, p.maxDepth, direction)
  IN /\ answer.path # NoPath => IsWalk(answer.path, source, target, answer.fallback)
     /\ answer.fallback => Shortest(g, NoPath, r("outgoing"), target, p.maxNodes)
     /\ \/ /\ answer.fallback /\ answer.boundary # NoNode
           /\ \E i \in 2..(Len(answer.path.nodes) - 1) : ~InScope(g, p.projects, answer.path.nodes[i])
        \/ Shortest(g, answer.path, r(IF answer.fallback THEN "both" ELSE "outgoing"), target, p.maxNodes)

(* The answer of a question for a path.                                    *)
QuestionAnswer(g, sources, targets, relations, answer) ==
  LET r(n) == WalkAsked(n, run.projects, relations, run.maxDepth, "outgoing")
  IN IF answer.path = NoPath
     THEN \A n \in sources, m \in targets : Shortest(g, NoPath, r(n), m, run.maxNodes)
     ELSE \E n \in sources, m \in targets : /\ IsWalk(answer.path, n, m, FALSE)
                                           /\ Shortest(g, answer.path, r(n), m, run.maxNodes)

(* A path within a traversal by r is as s asks.                            *)
PathFits(g, r, t, source, target, undirected, p, s) ==
  /\ p # NoPath => IsWalk(p, source, target, undirected)
  /\ \/ /\ undirected /\ t.boundary # NoNode /\ p # NoPath
        /\ \E i \in 2..(Len(p.nodes) - 1) : ~InScope(g, r.projects, p.nodes[i])
     \/ Shortest(g, p, s, target, r.maxNodes)

(* A path within a traversal is as the question asks.                      *)
LEMMA PathShortest ==
  ASSUME NEW g \in Graphs, NEW r, r.direction \in {"outgoing", "incoming", "both"}, r.maxDepth \in Nat,
         NEW t, NEW source, NEW target, NEW undirected \in BOOLEAN,
         NEW p, PathIn(g, r, t, source, target, undirected, p),
         NEW s, SameWalks(r, s), s.maxDepth = r.maxDepth
  PROVE  PathFits(g, r, t, source, target, undirected, p, s)
<1>1. \A d \in Nat : Reach(g, r, d) = Reach(g, s, d)
  BY ReachSame
<1>2. CASE p = NoPath
  <2>1. Reach(g, r, r.maxDepth) = Reach(g, s, s.maxDepth)
    BY <1>1
  <2>2. target \notin Reach(g, s, s.maxDepth) \/ Cardinality(Reach(g, s, s.maxDepth)) > r.maxNodes
    BY <1>2, <2>1, Zenon DEF PathIn
  <2> QED
    BY <1>2, <2>2 DEF Shortest, PathFits
<1>3. CASE p # NoPath
  <2>1. /\ IsWalk(p, source, target, undirected) /\ Len(p.edges) \in Nat /\ Len(p.edges) <= r.maxDepth
        /\ Len(p.edges) > 0 => target \notin Reach(g, r, Len(p.edges) - 1)
        /\ \/ target \in Reach(g, r, Len(p.edges))
           \/ /\ undirected /\ t.boundary # NoNode
              /\ \E i \in 2..(Len(p.nodes) - 1) : ~InScope(g, r.projects, p.nodes[i])
    BY <1>3 DEF PathIn
  <2>2. CASE target \in Reach(g, r, Len(p.edges))
    <3>1. target \in Reach(g, s, Len(p.edges))
      BY <1>1, <2>1, <2>2
    <3>2. Len(p.edges) > 0 => target \notin Reach(g, s, Len(p.edges) - 1)
      <4>1. ASSUME Len(p.edges) > 0 PROVE target \notin Reach(g, s, Len(p.edges) - 1)
        <5>1. Len(p.edges) - 1 \in Nat
          BY <2>1, <4>1
        <5> QED
          BY <1>1, <2>1, <4>1, <5>1
      <4> QED
        BY <4>1
    <3> QED
      BY <1>3, <2>1, <3>1, <3>2 DEF Shortest, PathFits
  <2>3. CASE target \notin Reach(g, r, Len(p.edges))
    BY <1>3, <2>1, <2>3 DEF PathFits
  <2> QED
    BY <2>2, <2>3
<1> QED
  BY <1>2, <1>3

(* The endpoints of path are nodes of the graph. (pathEndpointMatches)     *)
LEMMA EndpointFacts ==
  ASSUME NEW g \in Graphs, NEW text
  PROVE  pathEndpointMatches(g, text, MaxSeeds) \in Seq(g.nodes)
<1>1. MaxSeeds + 1 \in Nat
  BY RankingAssumption
<1>2. CASE LookupExactNodes(g, text) # <<>>
  BY <1>2, LookupExactFacts DEF pathEndpointMatches
<1>3. CASE LookupExactNodes(g, text) = <<>>
  <2>1. LookupNodes(g, text, {}, {}, MaxSeeds + 1) \in Seq(g.nodes)
    BY <1>1, LookupFacts
  <2> QED
    BY <1>3, <2>1 DEF pathEndpointMatches
<1> QED
  BY <1>2, <1>3

(* What a search in one direction found is as path asks.                   *)
PathSound(g, p, source, target, undirected, direction, d) ==
  /\ d.fallback = undirected
  /\ d.path # NoPath => IsWalk(d.path, source, target, undirected)
  /\ \/ /\ undirected /\ d.boundary # NoNode
        /\ \E i \in 2..(Len(d.path.nodes) - 1) : ~InScope(g, p.projects, d.path.nodes[i])
     \/ Shortest(g, d.path, WalkAsked(source, p.projects, p.relations, p.maxDepth, direction), target, p.maxNodes)

(* The traversal of path, in the direction of the search.                  *)
LEMMA PathTraversed ==
  ASSUME NEW g \in Graphs, NEW p, p.maxDepth \in Nat, p.maxNodes \in Nat, NEW source \in g.nodes, NEW target,
         NEW undirected \in BOOLEAN, NEW direction, direction = IF undirected THEN "both" ELSE "outgoing",
         NEW t, t = PathTraversal(g, p, source, direction),
         NEW d, d = PathSearched(t, source, target, undirected), ~d.error
  PROVE  PathSound(g, p, source, target, undirected, direction, d)
<1>1. PICK path : path = shortestPath(t, source, target, undirected)
  OBVIOUS
<1>2. d = PathFound(t, path, undirected)
  BY <1>1 DEF PathSearched
<1>3. t.at # "error"
  BY <1>2 DEF PathFound, NoPathResult
<1>4. d.path = path /\ d.fallback = undirected /\ d.boundary = IF path = NoPath THEN NoNode ELSE t.boundary
  BY <1>2, <1>3 DEF PathFound, NoPathResult
<1>5. PICK r : r = [starts |-> {source}, projects |-> p.projects, direction |-> direction,
                    relations |-> p.relations, maxDepth |-> p.maxDepth, maxNodes |-> p.maxNodes]
  OBVIOUS
<1>6. t = Traverse(g, r)
  BY <1>5 DEF PathTraversal
<1>7. PICK s : s = WalkAsked(source, p.projects, p.relations, p.maxDepth, direction)
  OBVIOUS
<1>8. /\ SameWalks(r, s) /\ s.maxDepth = r.maxDepth /\ r.starts = {source} /\ r.projects = p.projects
      /\ r.direction = direction /\ r.maxDepth = p.maxDepth /\ r.maxNodes = p.maxNodes
  BY <1>5, <1>7 DEF SameWalks, WalkAsked
<1>9. PathIn(g, r, t, source, target, undirected, path)
  BY <1>1, <1>3, <1>6, <1>8, TraversedPath
<1>10. r.direction \in {"outgoing", "incoming", "both"}
  BY <1>8
<1>11. PathFits(g, r, t, source, target, undirected, path, s)
  BY <1>8, <1>9, <1>10, PathShortest
<1> QED
  BY <1>4, <1>7, <1>8, <1>11 DEF PathSound, PathFits

(* path answers what it was asked. (FindPathSnapshot)                      *)
LEMMA CommandAnswered ==
  ASSUME NEW g \in Graphs, NEW p, p.maxDepth \in Nat, p.maxNodes \in Nat,
         NEW sources, sources = pathEndpointMatches(g, p.source, MaxSeeds), Len(sources) = 1,
         NEW targets, targets = pathEndpointMatches(g, p.target, MaxSeeds), Len(targets) = 1,
         NEW answer, answer = FindPathSnapshot(g, p, MaxSeeds), ~answer.error
  PROVE  CommandAnswer(g, p, sources[1], targets[1], answer)
<1>1. sources \in Seq(g.nodes)
  BY EndpointFacts
<1>2. PICK source, target : source \in g.nodes /\ source = sources[1] /\ target = targets[1]
  BY <1>1
<1>3. PICK d : d = PathSearched(PathTraversal(g, p, source, "outgoing"), source, target, FALSE)
  OBVIOUS
<1>4. answer = OrUndirected(g, p, source, target, d)
  BY <1>2, <1>3 DEF FindPathSnapshot, PathBetween
<1>5. PICK r, u : /\ r = WalkAsked(source, p.projects, p.relations, p.maxDepth, "outgoing")
                  /\ u = WalkAsked(source, p.projects, p.relations, p.maxDepth, "both")
  OBVIOUS
<1>6. CASE d.error
  BY <1>4, <1>6 DEF OrUndirected
<1>7. CASE ~d.error
  <2>1. /\ d.fallback = FALSE
        /\ d.path # NoPath => IsWalk(d.path, source, target, FALSE)
        /\ Shortest(g, d.path, r, target, p.maxNodes)
    <3>1. PICK t : t = PathTraversal(g, p, source, "outgoing")
      OBVIOUS
    <3>2. source \in g.nodes
      BY <1>2
    <3>3. PICK undirected, direction : undirected \in BOOLEAN /\ undirected = FALSE /\ direction = "outgoing"
      OBVIOUS
    <3>4. direction = IF undirected THEN "both" ELSE "outgoing"
      BY <3>3
    <3>5. t = PathTraversal(g, p, source, direction) /\ d = PathSearched(t, source, target, undirected) /\ ~d.error
      BY <1>3, <1>7, <3>1, <3>3
    <3>6. PathSound(g, p, source, target, undirected, direction, d)
      BY ONLY g \in Graphs, p.maxDepth \in Nat, p.maxNodes \in Nat, <3>2, <3>3, <3>4, <3>5, PathTraversed
    <3> QED
      BY <1>5, <3>3, <3>6 DEF PathSound
  <2>2. CASE d.path # NoPath \/ ~p.undirected
    <3>1. answer = d
      BY <1>4, <2>2 DEF OrUndirected
    <3>2. CommandAnswer(g, p, source, target, d)
      BY <1>5, <2>1 DEF CommandAnswer
    <3> QED
      BY <1>2, <3>1, <3>2
  <2>3. CASE ~(d.path # NoPath \/ ~p.undirected)
    <3>1. answer = PathSearched(PathTraversal(g, p, source, "both"), source, target, TRUE)
      BY <1>4, <1>7, <2>3 DEF OrUndirected
    <3>2. /\ answer.fallback = TRUE
          /\ answer.path # NoPath => IsWalk(answer.path, source, target, TRUE)
          /\ \/ /\ answer.boundary # NoNode
                /\ \E i \in 2..(Len(answer.path.nodes) - 1) : ~InScope(g, p.projects, answer.path.nodes[i])
             \/ Shortest(g, answer.path, u, target, p.maxNodes)
      <4>1. PICK t : t = PathTraversal(g, p, source, "both")
        OBVIOUS
      <4>2. answer = PathSearched(t, source, target, TRUE)
        BY <3>1, <4>1
      <4>3. PICK undirected, direction : undirected \in BOOLEAN /\ undirected = TRUE /\ direction = "both"
        OBVIOUS
      <4>4. direction = IF undirected THEN "both" ELSE "outgoing"
        BY <4>3
      <4>5. t = PathTraversal(g, p, source, direction) /\ answer = PathSearched(t, source, target, undirected) /\ ~answer.error
        BY <4>1, <4>2, <4>3
      <4>6. PathSound(g, p, source, target, undirected, direction, answer)
        BY ONLY g \in Graphs, p.maxDepth \in Nat, p.maxNodes \in Nat, <1>2, <4>3,
                <4>4, <4>5, PathTraversed
      <4> QED
        BY <1>5, <4>3, <4>6 DEF PathSound
    <3>3. Shortest(g, NoPath, r, target, p.maxNodes)
      BY <2>1, <2>3
    <3>4. CommandAnswer(g, p, source, target, answer)
      BY <1>5, <3>2, <3>3 DEF CommandAnswer
    <3> QED
      BY <1>2, <3>4
  <2> QED
    BY <2>2, <2>3
<1> QED
  BY <1>6, <1>7

-----------------------------------------------------------------------------
(* The answer of a question for a path                                     *)

(* What one source was tried for, and with what outcome.                   *)
Tried(g, source, targets, relations, try) ==
  LET r == WalkAsked(source, run.projects, relations, run.maxDepth, "outgoing")
  IN IF try.path = NoPath
     THEN \A m \in targets : Shortest(g, NoPath, r, m, run.maxNodes)
     ELSE \E m \in targets : IsWalk(try.path, source, m, FALSE) /\ Shortest(g, try.path, r, m, run.maxNodes)

(* The first target that a source leads to. (executePathPlan)              *)
LEMMA SourceTried ==
  ASSUME NEW g \in Graphs, run.maxDepth \in Nat, run.maxNodes \in Nat,
         NEW source \in Seeds(g.nodes), NEW targets \in Seq(Seeds(g.nodes)), NEW relations,
         NEW r, r = Request({source.node}, "outgoing", relations, run.maxDepth),
         NEW t, t = Traverse(g, r), t.at # "error",
         NEW try, try = PathFrom(t, source, targets)
  PROVE  Tried(g, source.node, SeedNodes(targets), relations, try)
<1>1. PICK paths : paths = [j \in DOMAIN targets |-> shortestPath(t, source.node, targets[j].node, FALSE)]
  OBVIOUS
<1>2. PICK hits : hits = {j \in DOMAIN targets : paths[j] # NoPath}
  OBVIOUS
<1>3. try.path = IF hits = {} THEN NoPath ELSE paths[Min(hits)]
  BY <1>1, <1>2 DEF PathFrom
<1>4. PICK n : n = source.node
  OBVIOUS
<1>5. PICK s : s = WalkAsked(n, run.projects, relations, run.maxDepth, "outgoing")
  OBVIOUS
<1>6. /\ SameWalks(r, s) /\ s.maxDepth = r.maxDepth /\ r.starts = {n} /\ r.direction = "outgoing"
      /\ r.maxDepth = run.maxDepth /\ r.maxNodes = run.maxNodes
  BY <1>4, <1>5 DEF SameWalks, WalkAsked, Request
<1>7. ASSUME NEW j \in DOMAIN targets
      PROVE  /\ paths[j] # NoPath => IsWalk(paths[j], n, targets[j].node, FALSE)
             /\ Shortest(g, paths[j], s, targets[j].node, run.maxNodes)
  <2>0. PICK undirected \in BOOLEAN : undirected = FALSE
    OBVIOUS
  <2>1. PICK p, m : p = paths[j] /\ m = targets[j].node /\ undirected = FALSE
    BY <2>0
  <2>2. p = shortestPath(t, n, m, undirected)
    BY <1>1, <1>4, <2>1
  <2>3. r.direction = IF undirected THEN "both" ELSE "outgoing"
    BY <1>6, <2>1
  <2>4. n \in g.nodes
    BY <1>4 DEF Seeds
  <2>5. PathIn(g, r, t, n, m, undirected, p)
    BY <1>6, <2>2, <2>3, <2>4, TraversedPath
  <2>6. r.direction \in {"outgoing", "incoming", "both"} /\ r.maxDepth \in Nat
    BY <1>6
  <2>7. PathFits(g, r, t, n, m, undirected, p, s)
    BY <1>6, <2>5, <2>6, PathShortest
  <2> QED
    BY <1>6, <2>1, <2>7 DEF PathFits
<1>8. CASE hits = {}
  <2>1. ASSUME NEW m \in SeedNodes(targets) PROVE Shortest(g, NoPath, s, m, run.maxNodes)
    <3>1. PICK j \in DOMAIN targets : targets[j].node = m
      BY DEF SeedNodes
    <3>2. paths[j] = NoPath
      BY <1>2, <1>8
    <3> QED
      BY <1>7, <3>1, <3>2
  <2> QED
    BY <1>3, <1>4, <1>5, <1>8, <2>1 DEF Tried
<1>9. CASE hits # {}
  <2>1. hits \in SUBSET Nat
    BY <1>2
  <2>2. PICK j \in hits : j = Min(hits)
    BY <1>9, <2>1, LeastFacts
  <2>3. j \in DOMAIN targets /\ paths[j] # NoPath /\ try.path = paths[j]
    BY <1>2, <1>3, <1>9, <2>2
  <2>4. PICK m \in SeedNodes(targets) : m = targets[j].node
    BY <2>3 DEF SeedNodes
  <2>5. IsWalk(try.path, n, m, FALSE) /\ Shortest(g, try.path, s, m, run.maxNodes)
    BY <1>7, <2>3, <2>4
  <2> QED
    BY <1>4, <1>5, <2>3, <2>5 DEF Tried
<1> QED
  BY <1>8, <1>9

(* The first source that leads to a target answers. (executePathPlan)      *)
LEMMA QuestionAnswered ==
  ASSUME snapshot \in Graphs, run.maxDepth \in Nat, run.maxNodes \in Nat,
         NEW sources \in Seq(Seeds(snapshot.nodes)), sources # <<>>,
         NEW targets \in Seq(Seeds(snapshot.nodes)),
         NEW answer, answer = PathOfCandidates(sources, targets),
         answer.error = "none", "ambiguous_path_endpoints" \notin answer.warnings
  PROVE  QuestionAnswer(snapshot, SeedNodes(sources), SeedNodes(targets), callRelations(plan.relations), answer)
<1>1. ~((Len(sources) # 1 \/ Len(targets) # 1) /\ ~pathCandidatesNeedDisambiguation)
  <2>1. CASE (Len(sources) # 1 \/ Len(targets) # 1) /\ ~pathCandidatesNeedDisambiguation
    <3>1. answer = [NoResult EXCEPT !.warnings = {"ambiguous_path_endpoints"}]
      BY <2>1 DEF PathOfCandidates
    <3> QED
      BY <3>1 DEF NoResult
  <2> QED
    BY <2>1
<1>2. PICK relations : relations = callRelations(plan.relations)
  OBVIOUS
<1> DEFINE from(i) == Request({sources[i].node}, "outgoing", relations, run.maxDepth)
<1>3. PICK tries : tries = [i \in DOMAIN sources |-> PathFrom(Traverse(snapshot, from(i)), sources[i], targets)]
  OBVIOUS
<1>4. answer = PathResult(LastTried(tries))
  BY <1>1, <1>2, <1>3 DEF PathOfCandidates
<1>5. ASSUME NEW i \in DOMAIN sources, tries[i].t.at # "error"
      PROVE  Tried(snapshot, sources[i].node, SeedNodes(targets), relations, tries[i])
  <2>0. PICK source \in Seeds(snapshot.nodes) : source = sources[i]
    OBVIOUS
  <2>1. PICK r : r = from(i) /\ source = sources[i]
    BY <2>0
  <2>2. PICK t : t = Traverse(snapshot, r)
    OBVIOUS
  <2>3. tries[i] = PathFrom(t, source, targets)
    BY <1>3, <2>1, <2>2
  <2>4. tries[i].t = t
    BY <2>3 DEF PathFrom
  <2>5. r = Request({source.node}, "outgoing", relations, run.maxDepth)
    BY <2>1
  <2> QED
    BY <1>5, <2>1, <2>2, <2>3, <2>4, <2>5, SourceTried
<1>6. PICK stops : stops = {i \in DOMAIN tries : tries[i].t.at = "error" \/ tries[i].path # NoPath}
  OBVIOUS
<1>7. DOMAIN tries = DOMAIN sources /\ Len(tries) = Len(sources)
  BY <1>3
<1>8. DOMAIN sources = 1..Len(sources) /\ Len(sources) \in Nat \ {0}
  OBVIOUS
<1>9. stops \in SUBSET Nat
  BY <1>6, <1>7, <1>8
<1>10. PICK last, tried : last = LastSource(stops, Len(tries)) /\ tried = tries[last]
  OBVIOUS
<1>11. answer = PathResult(tried)
  BY <1>4, <1>6, <1>10 DEF LastTried
<1>12. tried.t.at # "error"
  BY <1>11 DEF PathResult, Failed, NoResult
<1>13. answer.path = tried.path
  <2>1. CASE tried.path = NoPath
    <3>1. answer = [NoResult EXCEPT !.reasons = tried.t.reasons, !.warnings = {"no_directed_path"}]
      BY <1>11, <1>12, <2>1 DEF PathResult
    <3> QED
      BY <2>1, <3>1 DEF NoResult
  <2>2. CASE tried.path # NoPath
    BY <1>11, <1>12, <2>2 DEF PathResult, NoResult
  <2> QED
    BY <2>1, <2>2
<1>14. CASE stops = {}
  <2>1. last \in DOMAIN sources
    BY <1>7, <1>8, <1>10, <1>14 DEF LastSource
  <2>2. answer.path = NoPath
    BY <1>6, <1>7, <1>10, <1>13, <1>14, <2>1
  <2>3. ASSUME NEW n \in SeedNodes(sources), NEW m \in SeedNodes(targets)
        PROVE  Shortest(snapshot, NoPath, WalkAsked(n, run.projects, relations, run.maxDepth, "outgoing"), m, run.maxNodes)
    <3>1. PICK i \in DOMAIN sources : sources[i].node = n
      BY DEF SeedNodes
    <3>2. tries[i].t.at # "error" /\ tries[i].path = NoPath
      BY <1>6, <1>7, <1>14
    <3> QED
      BY <1>5, <3>1, <3>2 DEF Tried
  <2> QED
    BY <1>2, <2>2, <2>3 DEF QuestionAnswer
<1>15. CASE stops # {}
  <2>1. last \in stops
    BY <1>9, <1>10, <1>15, LeastFacts DEF LastSource
  <2>2. last \in DOMAIN sources /\ tried.path # NoPath
    BY <1>6, <1>7, <1>10, <1>12, <2>1
  <2>3. Tried(snapshot, sources[last].node, SeedNodes(targets), relations, tried)
    BY <1>5, <1>10, <1>12, <2>2
  <2>4. sources[last].node \in SeedNodes(sources)
    BY <2>2 DEF SeedNodes
  <2> QED
    BY <1>2, <1>13, <2>2, <2>3, <2>4 DEF Tried, QuestionAnswer
<1> QED
  BY <1>14, <1>15

-----------------------------------------------------------------------------
(* The answers of paths in the state                                       *)

(* What path prints, and what a question for a path is answered with.      *)
QuestionPath == PathOfCandidates(pathEndpointCandidates(seeds[1]), pathEndpointCandidates(seeds[2]))

AsksPath == run.command = "query" /\ plan # NoPlan /\ plan.operator = "path" /\ ~EndsWithSeeds

PathInv ==
  /\ run.command = "path" => run.path.maxDepth \in Nat /\ run.path.maxNodes \in Nat
  /\ at = "start" => snapshot = graph
  /\ at = "done" /\ run.command = "path" => result = FindPathSnapshot(snapshot, run.path, MaxSeeds)
  /\ at = "done" /\ AsksPath => result = QuestionPath

(* The question stays with its seeds.                                      *)
LEMMA PathFrozen ==
  ASSUME run' = run, plan' = plan, snapshot' = snapshot, seeds' = seeds
  PROVE  QuestionPath' = QuestionPath /\ (AsksPath' <=> AsksPath)
<1>1. EndsWithSeeds' <=> EndsWithSeeds
  BY Frozen
<1>2. pathCandidatesNeedDisambiguation' <=> pathCandidatesNeedDisambiguation
  BY DEF pathCandidatesNeedDisambiguation
<1>3. QuestionPath' = QuestionPath
  BY <1>2 DEF QuestionPath, PathOfCandidates, Request
<1>4. AsksPath' <=> AsksPath
  BY <1>1 DEF AsksPath
<1> QED
  BY <1>3, <1>4

(* A command starts at the published graph                                 *)
LEMMA PathInit == Init => PathInv
<1> SUFFICES ASSUME Init PROVE PathInv
  OBVIOUS
<1>1. PICK family \in DOMAIN Invocations : run \in Invocations[family]
  BY DEF Init
<1>2. run.command = "path" => run.path.maxDepth \in Nat /\ run.path.maxNodes \in Nat \ {0}
  BY <1>1, InvocationAssumption
<1>3. at = "start" /\ graph = run.graph /\ snapshot = run.graph
  BY DEF Init
<1> QED
  BY <1>2, <1>3 DEF PathInv

(* and answers a path from the snapshot it opened.                         *)
LEMMA PathStep == QueryInv /\ PathInv /\ [Next]_vars => PathInv'
<1> SUFFICES ASSUME QueryInv, PathInv, [Next]_vars PROVE PathInv'
  OBVIOUS
<1>1. CASE UNCHANGED vars
  <2>1. /\ run' = run /\ snapshot' = snapshot /\ seeds' = seeds /\ plan' = plan
        /\ at' = at /\ result' = result /\ graph' = graph
    BY <1>1 DEF vars, plannerVars, answerVars
  <2> QED
    BY <2>1, PathFrozen DEF PathInv
<1>2. CASE Republish \/ OpenSnapshot \/ RankSeeds
  <2>1. run' = run /\ at' \notin {"start", "done"}
    BY <1>2 DEF Republish, OpenSnapshot, RankSeeds, plannerVars
  <2> QED
    BY <2>1 DEF PathInv
<1>3. CASE PlanQuery
  <2>1. run' = run /\ seeds' = seeds /\ at' # "start" /\ run.command = "query" /\ at \in {"start", "ollama", "claude", "copilot"}
    BY <1>3, PlanningFacts
  <2>2. seeds = <<>>
    BY <2>1 DEF QueryInv, SeedsInv
  <2>3. EndsWithSeeds'
    <3>1. DOMAIN seeds' = {}
      BY <2>1, <2>2
    <3>2. StartNodes' = {}
      BY <3>1 DEF StartNodes
    <3> QED
      BY <3>2 DEF EndsWithSeeds
  <2> QED
    BY <2>1, <2>3 DEF PathInv, AsksPath
<1>4. CASE PathCommand
  <2>1. /\ run' = run /\ snapshot' = snapshot /\ at = "start" /\ run.command = "path" /\ at' = "done"
        /\ result' = FindPathSnapshot(graph, run.path, MaxSeeds)
    BY <1>4 DEF PathCommand, Finish
  <2>2. snapshot = graph
    BY <2>1 DEF PathInv
  <2> QED
    BY <2>1, <2>2 DEF PathInv, AsksPath
<1>5. CASE InspectCommand \/ ExportCommand
  <2>1. run' = run /\ run.command \in {"inspect", "export"} /\ at' = "done"
    BY <1>5 DEF InspectCommand, ExportCommand, Finish
  <2> QED
    BY <2>1 DEF PathInv, AsksPath
<1>6. CASE AnswerSeeds \/ AnswerCatalog \/ AnswerTraversal \/ AnswerIntersection
  <2>1. /\ run' = run /\ snapshot' = snapshot /\ seeds' = seeds /\ plan' = plan /\ run.command = "query"
        /\ at' # "start"
    BY <1>6, AnswerFacts
  <2>2. ~AsksPath'
    <3>1. CASE AnswerSeeds
      <4>1. EndsWithSeeds
        BY <3>1 DEF AnswerSeeds
      <4> QED
        BY <2>1, <4>1, PathFrozen DEF AsksPath
    <3>2. CASE AnswerCatalog
      <4>1. at = "catalog"
        BY <3>2 DEF AnswerCatalog
      <4>2. seeds = <<>> \/ EndsWithSeeds
        BY <4>1 DEF QueryInv, ResultInv
      <4>3. EndsWithSeeds
        BY <4>2, NoSeedsEnd
      <4> QED
        BY <2>1, <4>3, PathFrozen DEF AsksPath
    <3>3. CASE AnswerTraversal
      BY <2>1, <3>3, PathFrozen DEF AnswerTraversal, AsksPath
    <3>4. CASE AnswerIntersection
      BY <2>1, <3>4, PathFrozen DEF AnswerIntersection, AsksPath
    <3> QED
      BY <1>6, <3>1, <3>2, <3>3, <3>4
  <2> QED
    BY <2>1, <2>2 DEF PathInv
<1>7. CASE AnswerPath
  <2>1. /\ run' = run /\ snapshot' = snapshot /\ seeds' = seeds /\ plan' = plan /\ run.command = "query"
        /\ at' = "done"
    BY <1>7, AnswerFacts DEF AnswerPath, Finish
  <2>2. result' = QuestionPath
    BY <1>7 DEF AnswerPath, Finish, QuestionPath
  <2> QED
    BY <2>1, <2>2, PathFrozen DEF PathInv
<1> QED
  BY <1>1, <1>2, <1>3, <1>4, <1>5, <1>6, <1>7 DEF Next

(* What the invariants say of a path is what was asked.                    *)
LEMMA PathAnswered == QueryInv /\ PathInv => PathAnswer
<1> SUFFICES ASSUME QueryInv, PathInv PROVE PathAnswer
  OBVIOUS
<1>1. snapshot \in Graphs
  BY DEF QueryInv, CommandInv
<1>2. ASSUME at = "done", run.command = "path",
             Len(pathEndpointMatches(snapshot, run.path.source, MaxSeeds)) = 1,
             Len(pathEndpointMatches(snapshot, run.path.target, MaxSeeds)) = 1, ~result.error
      PROVE  CommandAnswer(snapshot, run.path, pathEndpointMatches(snapshot, run.path.source, MaxSeeds)[1],
                           pathEndpointMatches(snapshot, run.path.target, MaxSeeds)[1], result)
  <2>1. PICK p, answer : p = run.path /\ answer = result
    OBVIOUS
  <2>2. p.maxDepth \in Nat /\ p.maxNodes \in Nat /\ answer = FindPathSnapshot(snapshot, p, MaxSeeds) /\ ~answer.error
    BY <1>2, <2>1 DEF PathInv
  <2>3. PICK sources, targets : /\ sources = pathEndpointMatches(snapshot, p.source, MaxSeeds)
                                /\ targets = pathEndpointMatches(snapshot, p.target, MaxSeeds)
    OBVIOUS
  <2>4. Len(sources) = 1 /\ Len(targets) = 1
    BY <1>2, <2>1, <2>3
  <2>5. CommandAnswer(snapshot, p, sources[1], targets[1], answer)
    BY <1>1, <2>2, <2>3, <2>4, CommandAnswered
  <2> QED
    BY <2>1, <2>3, <2>5
<1>3. ASSUME Answered, plan # NoPlan, plan.operator = "path", ~EndsWithSeeds,
             "ambiguous_path_endpoints" \notin result.warnings
      PROVE  QuestionAnswer(snapshot, SeedNodes(pathEndpointCandidates(seeds[1])),
                            SeedNodes(pathEndpointCandidates(seeds[2])), callRelations(plan.relations), result)
  <2>1. at = "done" /\ run.command = "query" /\ result.error = "none"
    BY <1>3 DEF Answered
  <2>2. result = QuestionPath
    BY <1>3, <2>1 DEF PathInv, AsksPath
  <2>3. run.maxDepth \in Nat /\ run.maxNodes \in Nat
    BY <2>1 DEF QueryInv, CommandInv, RunTyped
  <2>4. seeds = Ranked /\ PlanOK(plan)
    <3>1. seeds # <<>>
      BY <1>3, NoSeedsEnd
    <3> QED
      BY <1>3, <2>1, <3>1 DEF QueryInv, SeedsInv, CommandInv
  <2>5. DOMAIN seeds = DOMAIN plan.slots /\ DOMAIN plan.slots = 1..2
    BY <1>3, <2>4 DEF Ranked, PlanOK
  <2>6. \A k \in DOMAIN seeds : seeds[k] \in Seq(Seeds(snapshot.nodes))
    BY <2>4, SeedsTyped DEF SeedsOf
  <2>7. seeds[1] # <<>> /\ seeds[2] # <<>>
    BY <1>3, <2>5 DEF EndsWithSeeds, EmptySlot
  <2>8. PICK sources, targets : sources = pathEndpointCandidates(seeds[1]) /\ targets = pathEndpointCandidates(seeds[2])
    OBVIOUS
  <2>9. /\ sources \in Seq(Seeds(snapshot.nodes)) /\ sources # <<>>
        /\ targets \in Seq(Seeds(snapshot.nodes))
    BY <2>5, <2>6, <2>7, <2>8, CandidateFacts
  <2>10. PICK answer : answer = result
    OBVIOUS
  <2>11. answer = PathOfCandidates(sources, targets)
    BY <2>2, <2>8, <2>10 DEF QuestionPath
  <2>12. QuestionAnswer(snapshot, SeedNodes(sources), SeedNodes(targets), callRelations(plan.relations), answer)
    BY <1>1, <1>3, <2>1, <2>3, <2>9, <2>10, <2>11, QuestionAnswered
  <2> QED
    BY <2>8, <2>10, <2>12
<1> QED
  BY <1>2, <1>3 DEF PathAnswer, CommandAnswer, QuestionAnswer, Shortest, WalkAsked

(* A path is a shortest walk within what was asked, and none is reported   *)
(* only if there is none or the traversal was cut, in every reachable      *)
(* state. (FindPathSnapshot and executePathPlan, query.go)                 *)
THEOREM PathAnswerAlways == Spec => []PathAnswer
<1>1. Init => QueryInv /\ PathInv
  BY QueryInit, PathInit
<1>2. QueryInv /\ PathInv /\ [Next]_vars => QueryInv' /\ PathInv'
  BY QueryStep, PathStep
<1> QED
  BY <1>1, <1>2, PathAnswered, PTL DEF Spec

-----------------------------------------------------------------------------
(* First reaches                                                           *)

Arrivals == {[distance |-> 0]} \cup [distance : Nat, edge : Edges]

Reachings == [next : Seq(Nodes), reached : UNION {[D -> Arrivals] : D \in SUBSET Nodes}]

(* What has been reached is a function on some nodes.                      *)
LEMMA ReachingTyped ==
  ASSUME NEW next \in Seq(Nodes), NEW reached, DOMAIN reached \in SUBSET Nodes, reached \in [DOMAIN reached -> Arrivals]
  PROVE  [next |-> next, reached |-> reached] \in Reachings
<1>1. reached \in UNION {[D -> Arrivals] : D \in SUBSET Nodes}
  OBVIOUS
<1> QED
  BY <1>1, Zenon DEF Reachings

(* and has its parts in return.                                            *)
LEMMA ReachingFields ==
  ASSUME NEW s \in Reachings
  PROVE  /\ s = [next |-> s.next, reached |-> s.reached]
         /\ s.next \in Seq(Nodes) /\ DOMAIN s.reached \in SUBSET Nodes /\ s.reached \in [DOMAIN s.reached -> Arrivals]
<1>1. s = [next |-> s.next, reached |-> s.reached] /\ s.next \in Seq(Nodes)
      /\ s.reached \in UNION {[D -> Arrivals] : D \in SUBSET Nodes}
  BY Zenon DEF Reachings
<1>2. PICK D \in SUBSET Nodes : s.reached \in [D -> Arrivals]
  BY <1>1
<1> QED
  BY <1>1, <1>2

(* What one edge adds.                                                     *)
Arrives(s, m, e, distance, u) ==
  /\ DOMAIN u.reached = DOMAIN s.reached \cup {m} /\ DOMAIN u.next = DOMAIN s.next \cup {Len(s.next) + 1}
  /\ u.reached[m] = [distance |-> distance, edge |-> e] /\ \A n \in DOMAIN s.reached : u.reached[n] = s.reached[n]
  /\ u.next[Len(s.next) + 1] = m /\ \A i \in DOMAIN s.next : u.next[i] = s.next[i]

(* An edge reaches at most one node more. (traversalEvidence)              *)
LEMMA ReachNodeFacts ==
  ASSUME NEW s \in Reachings, NEW m \in Nodes \cup {NoNode}, NEW e \in Edges, NEW d \in Nat, NEW u, u = ReachNode(s, m, e, d)
  PROVE  /\ u \in Reachings
         /\ m = NoNode \/ m \in DOMAIN s.reached => u = s
         /\ m # NoNode /\ m \notin DOMAIN s.reached => Arrives(s, m, e, d, u)
<1>1. CASE m = NoNode \/ m \in DOMAIN s.reached
  BY <1>1 DEF ReachNode
<1>2. CASE m # NoNode /\ m \notin DOMAIN s.reached
  <2>1. PICK next, reached : next = Append(s.next, m) /\ reached = With(s.reached, m, [distance |-> d, edge |-> e])
    OBVIOUS
  <2>2. u = [next |-> next, reached |-> reached]
    BY <1>2, <2>1 DEF ReachNode
  <2>3. PICK old \in Seq(Nodes) : old = s.next
    BY ReachingFields
  <2>4. DOMAIN s.reached \in SUBSET Nodes /\ s.reached \in [DOMAIN s.reached -> Arrivals]
    BY ReachingFields
  <2>5. m \in Nodes
    BY <1>2
  <2>6. next = Append(old, m)
    BY <2>1, <2>3
  <2>7. next \in Seq(Nodes) /\ DOMAIN next = DOMAIN old \cup {Len(old) + 1} /\ next[Len(old) + 1] = m
        /\ \A i \in DOMAIN old : next[i] = old[i]
    BY <2>5, <2>6
  <2>8. PICK v : v = [distance |-> d, edge |-> e]
    OBVIOUS
  <2>9. v \in Arrivals
    BY <2>8 DEF Arrivals
  <2>10. reached = [y \in DOMAIN s.reached \cup {m} |-> IF y = m THEN v ELSE s.reached[y]]
    BY <2>1, <2>8 DEF With
  <2>11. DOMAIN reached = DOMAIN s.reached \cup {m} /\ reached[m] = v /\ \A y \in DOMAIN s.reached : reached[y] = s.reached[y]
    BY <1>2, <2>10
  <2>12. reached \in [DOMAIN reached -> Arrivals]
    <3>1. \A y \in DOMAIN reached : reached[y] \in Arrivals
      BY <2>4, <2>9, <2>11
    <3>2. reached = [y \in DOMAIN reached |-> reached[y]]
      BY <2>10
    <3> QED
      BY <3>1, <3>2
  <2>13. u \in Reachings
    BY <2>2, <2>4, <2>5, <2>7, <2>11, <2>12, ReachingTyped
  <2>14. Arrives(s, m, e, d, u)
    BY <2>2, <2>3, <2>7, <2>8, <2>11 DEF Arrives
  <2> QED
    BY <1>2, <2>13, <2>14
<1> QED
  BY <1>1, <1>2

(* A neighbour is a node, or there is none.                                *)
LEMMA NeighborTyped ==
  ASSUME NEW n, NEW e \in Edges, NEW direction
  PROVE  traversalNeighbor(n, e, direction) \in Nodes \cup {NoNode}
BY DEF traversalNeighbor, Edges

ReachRun(a, s, n, edges, direction, d) ==
  a[0] = s /\ \A i \in 1..Len(edges) :
                a[i] = ReachNode(a[i - 1], traversalNeighbor(n, edges[i], direction), edges[i], d)

(* A node is left edge by edge,                                            *)
LEMMA ReachFold ==
  ASSUME NEW s \in Reachings, NEW x, NEW edges \in Seq(Edges), NEW direction, NEW d \in Nat
  PROVE  \E a : /\ ReachRun(a, s, x, edges, direction, d) /\ ReachFrom(s, x, edges, direction, d) = a[Len(edges)]
                /\ \A i \in 0..Len(edges) : a[i] \in Reachings
<1> DEFINE W == Reachings
           n == Len(edges)
           next(w, e) == ReachNode(w, traversalNeighbor(x, e, direction), e, d)
           raw(h) == h = [u \in SUBSET (1..n) |-> IF u = {} THEN s ELSE next(h[u \ {Max(u)}], edges[Max(u)])]
           step == [i \in 1..n |-> [w \in W |-> next(w, edges[i])]]
<1>1. n \in Nat /\ DOMAIN edges = 1..n
  OBVIOUS
<1>2. s \in W
  OBVIOUS
<1>3. \A w \in W, i \in 1..n : next(w, edges[i]) \in W
  <2>1. ASSUME NEW w \in W, NEW e \in Edges PROVE next(w, e) \in W
    BY NeighborTyped, ReachNodeFacts
  <2> HIDE DEF W, next
  <2> QED
    BY <1>1, <2>1
<1>4. step \in [1..n -> [W -> W]]
  <2> HIDE DEF W, next
  <2> QED
    BY <1>3
<1>5. PICK h \in [SUBSET (1..n) -> W] : FoldsUpTo(h, n, s, step)
  <2> HIDE DEF W, step, n
  <2> QED
    BY <1>1, <1>2, <1>4, FoldUpToExists
<1>6. raw(h)
  <2>1. ASSUME NEW u \in SUBSET (1..n), u # {}
        PROVE  step[Max(u)][h[u \ {Max(u)}]] = next(h[u \ {Max(u)}], edges[Max(u)])
    <3>2. Max(u) \in 1..n
      <4> HIDE DEF n
      <4> QED
        BY <1>1, <2>1, LastOfRange
    <3>3. h[u \ {Max(u)}] \in W
      OBVIOUS
    <3> HIDE DEF W, next
    <3> QED
      BY <3>2, <3>3
  <2>2. \A u \in SUBSET (1..n) : h[u] = IF u = {} THEN s ELSE step[Max(u)][h[u \ {Max(u)}]]
    BY <1>5 DEF FoldsUpTo
  <2> HIDE DEF W, step, n, next
  <2>3. \A u \in SUBSET (1..n) : h[u] = IF u = {} THEN s ELSE next(h[u \ {Max(u)}], edges[Max(u)])
    BY <2>1, <2>2
  <2> QED
    BY <2>3
<1>7. PICK H : H = CHOOSE f : raw(f)
  OBVIOUS
<1>8. raw(H)
  <2> HIDE DEF raw
  <2> QED
    BY <1>6, <1>7
<1>9. H[1..n] = FoldLeft(LAMBDA u, e : ReachNode(u, traversalNeighbor(x, e, direction), e, d), s, edges)
  BY <1>1, <1>7 DEF FoldLeft, MapThenFoldSet
<1> DEFINE a == [i \in 0..n |-> H[1..i]]
<1>10. a[0] = s
  <2>1. 1..0 = {} /\ {} \in SUBSET (1..n) /\ 0 \in 0..n
    OBVIOUS
  <2>2. H[{}] = s
    BY <1>8, <2>1
  <2> QED
    BY <2>1, <2>2
<1>11. ASSUME NEW i \in 1..n PROVE a[i] = next(a[i - 1], edges[i])
  <2>1. /\ 1..i \in SUBSET (1..n) /\ 1..i # {} /\ Max(1..i) = i /\ (1..i) \ {i} = 1..(i - 1)
    BY <1>1, RangeFacts
  <2> HIDE DEF next
  <2>2. \A u \in SUBSET (1..n) : u # {} => H[u] = next(H[u \ {Max(u)}], edges[Max(u)])
    BY <1>8
  <2>3. H[1..i] = next(H[1..(i - 1)], edges[i])
    BY <2>1, <2>2
  <2>4. i \in 0..n /\ i - 1 \in 0..n
    OBVIOUS
  <2> QED
    BY <2>3, <2>4
<1>12. a[n] = H[1..n]
  BY <1>1
<1>13. \A i \in 0..n : a[i] \in W
  <2> DEFINE T == {i \in 0..n : a[i] \in W}
  <2> HIDE DEF a, W, n, next
  <2>1. 0 \in T
    BY <1>1, <1>2, <1>10
  <2>2. ASSUME NEW i \in 1..n, i - 1 \in T PROVE i \in T
    BY <1>1, <1>11, <1>3, <2>2
  <2>3. \A i \in 0..n : i \in T
    <3> HIDE DEF T
    <3> QED
      BY <1>1, <2>1, <2>2, UpToInduction
  <2> QED
    BY <2>3
<1>14. ReachFrom(s, x, edges, direction, d) = a[n]
  BY <1>9, <1>12 DEF ReachFrom
<1>15. ReachRun(a, s, x, edges, direction, d)
  BY <1>10, <1>11 DEF ReachRun
<1> QED
  BY <1>13, <1>14, <1>15

LevelRun(a, s, edges, direction, d) ==
  /\ a[0] = [next |-> <<>>, reached |-> s.reached]
  /\ \A i \in 1..Len(s.next) : a[i] = ReachFrom(a[i - 1], s.next[i], edges, direction, d)

(* and a level node by node.                                               *)
LEMMA LevelFold ==
  ASSUME NEW s \in Reachings, NEW edges \in Seq(Edges), NEW direction, NEW d \in Nat
  PROVE  \E a : /\ LevelRun(a, s, edges, direction, d) /\ ReachLevel(s, edges, direction, d) = a[Len(s.next)]
                /\ \A i \in 0..Len(s.next) : a[i] \in Reachings
<1> DEFINE W == Reachings
           seq == s.next
           n == Len(seq)
           base == [s EXCEPT !.next = <<>>]
           next(w, x) == ReachFrom(w, x, edges, direction, d)
           raw(h) == h = [u \in SUBSET (1..n) |-> IF u = {} THEN base ELSE next(h[u \ {Max(u)}], seq[Max(u)])]
           step == [i \in 1..n |-> [w \in W |-> next(w, seq[i])]]
<1>1. n \in Nat /\ DOMAIN seq = 1..n
  BY ReachingFields
<1>2. base \in W /\ base = [next |-> <<>>, reached |-> s.reached]
  <2>1. s = [next |-> s.next, reached |-> s.reached] /\ DOMAIN s.reached \in SUBSET Nodes
        /\ s.reached \in [DOMAIN s.reached -> Arrivals]
    BY ReachingFields
  <2>2. base = [next |-> <<>>, reached |-> s.reached]
    BY <2>1
  <2>3. <<>> \in Seq(Nodes)
    OBVIOUS
  <2> HIDE DEF base
  <2> QED
    BY <2>1, <2>2, <2>3, ReachingTyped
<1>3. \A w \in W, i \in 1..n : next(w, seq[i]) \in W
  <2>1. ASSUME NEW w \in W, NEW x PROVE next(w, x) \in W
    <3>1. PICK a : ReachFrom(w, x, edges, direction, d) = a[Len(edges)] /\ \A i \in 0..Len(edges) : a[i] \in Reachings
      BY ReachFold
    <3>2. Len(edges) \in 0..Len(edges)
      OBVIOUS
    <3> QED
      BY <3>1, <3>2
  <2> HIDE DEF W, next
  <2> QED
    BY <2>1
<1>4. step \in [1..n -> [W -> W]]
  <2> HIDE DEF W, next, seq
  <2> QED
    BY <1>3
<1> HIDE DEF seq
<1>5. PICK h \in [SUBSET (1..n) -> W] : FoldsUpTo(h, n, base, step)
  <2> HIDE DEF W, step, n, base
  <2> QED
    BY <1>1, <1>2, <1>4, FoldUpToExists
<1>6. raw(h)
  <2>1. ASSUME NEW u \in SUBSET (1..n), u # {}
        PROVE  step[Max(u)][h[u \ {Max(u)}]] = next(h[u \ {Max(u)}], seq[Max(u)])
    <3>2. Max(u) \in 1..n
      <4> HIDE DEF n
      <4> QED
        BY <1>1, <2>1, LastOfRange
    <3>3. h[u \ {Max(u)}] \in W
      OBVIOUS
    <3> HIDE DEF W, next
    <3> QED
      BY <3>2, <3>3
  <2>2. \A u \in SUBSET (1..n) : h[u] = IF u = {} THEN base ELSE step[Max(u)][h[u \ {Max(u)}]]
    BY <1>5 DEF FoldsUpTo
  <2> HIDE DEF W, step, n, next
  <2>3. \A u \in SUBSET (1..n) : h[u] = IF u = {} THEN base ELSE next(h[u \ {Max(u)}], seq[Max(u)])
    BY <2>1, <2>2
  <2> QED
    BY <2>3
<1>7. PICK H : H = CHOOSE f : raw(f)
  OBVIOUS
<1>8. raw(H)
  <2> HIDE DEF raw
  <2> QED
    BY <1>6, <1>7
<1>9. H[1..n] = FoldLeft(LAMBDA u, x : ReachFrom(u, x, edges, direction, d), base, seq)
  BY <1>1, <1>7 DEF FoldLeft, MapThenFoldSet
<1> DEFINE a == [i \in 0..n |-> H[1..i]]
<1>10. a[0] = base
  <2>1. 1..0 = {} /\ {} \in SUBSET (1..n) /\ 0 \in 0..n
    BY <1>1
  <2>2. H[{}] = base
    BY <1>8, <2>1
  <2> QED
    BY <2>1, <2>2
<1>11. ASSUME NEW i \in 1..n PROVE a[i] = next(a[i - 1], seq[i])
  <2>1. /\ 1..i \in SUBSET (1..n) /\ 1..i # {} /\ Max(1..i) = i /\ (1..i) \ {i} = 1..(i - 1)
    BY <1>1, RangeFacts
  <2> HIDE DEF next
  <2>2. \A u \in SUBSET (1..n) : u # {} => H[u] = next(H[u \ {Max(u)}], seq[Max(u)])
    BY <1>8
  <2>3. H[1..i] = next(H[1..(i - 1)], seq[i])
    BY <2>1, <2>2
  <2>4. i \in 0..n /\ i - 1 \in 0..n
    BY <1>1
  <2> QED
    BY <2>3, <2>4
<1>12. a[n] = H[1..n]
  BY <1>1
<1>13. \A i \in 0..n : a[i] \in W
  <2> DEFINE T == {i \in 0..n : a[i] \in W}
  <2> HIDE DEF a, W, n, next, base
  <2>1. 0 \in T
    BY <1>1, <1>2, <1>10
  <2>2. ASSUME NEW i \in 1..n, i - 1 \in T PROVE i \in T
    BY <1>1, <1>11, <1>3, <2>2
  <2>3. \A i \in 0..n : i \in T
    <3> HIDE DEF T
    <3> QED
      BY <1>1, <2>1, <2>2, UpToInduction
  <2> QED
    BY <2>3
<1>14. ReachLevel(s, edges, direction, d) = a[n]
  BY <1>9, <1>12 DEF ReachLevel, seq
<1>15. LevelRun(a, s, edges, direction, d)
  <2> HIDE DEF base, a
  <2> QED
    BY <1>2, <1>10, <1>11 DEF LevelRun, seq
<1> HIDE DEF a
<1> QED
  BY <1>13, <1>14, <1>15 DEF seq

-----------------------------------------------------------------------------
(* Breadth first                                                           *)

(* An edge that leads from n to m in this direction.                       *)
Leads(f, direction, n, e, m) == e \in f.edges /\ m \in f.nodes /\ traversalNeighbor(n, e, direction) = m

(* How far everything that is reached lies from the starts.                *)
Spreads(f, direction, starts, far) ==
  /\ DOMAIN far \in SUBSET f.nodes /\ far \in [DOMAIN far -> Nat]
  /\ \A n \in DOMAIN far : far[n] <= Cardinality(Nodes) /\ (far[n] = 0 <=> n \in starts)
  /\ \A n \in starts : n \in f.nodes => n \in DOMAIN far
  /\ \A n \in DOMAIN far : \A e, m : Leads(f, direction, n, e, m) => m \in DOMAIN far /\ far[m] <= far[n] + 1
  /\ \A m \in DOMAIN far : far[m] > 0 => \E n \in DOMAIN far : far[n] + 1 = far[m] /\ \E e : Leads(f, direction, n, e, m)

(* Both ends of every fact are facts.                                      *)
Closed(f) ==
  /\ f.nodes \in SUBSET Nodes /\ f.edges \in SUBSET Edges
  /\ \A e \in f.edges : e.source \in f.nodes /\ e.target \in f.nodes

(* Each node that is not a start was reached by an edge from one nearer.   *)
Arrived(f, direction, starts, far, h, m) ==
  /\ m \in DOMAIN far /\ far[m] > 0 /\ h[m].distance = far[m]
  /\ \E n \in DOMAIN far : far[n] + 1 = far[m] /\ Leads(f, direction, n, h[m].edge, m)

FirstMet(f, direction, starts, far, h) ==
  \A m \in DOMAIN h : IF m \in starts THEN h[m].distance = 0 ELSE Arrived(f, direction, starts, far, h, m)

(* While the nodes at distance d are left: all that the pairs of C lead to *)
(* is reached, and what is new is next.                                    *)
Widening(f, direction, starts, far, d, s, C) ==
  /\ s \in Reachings /\ FirstMet(f, direction, starts, far, s.reached) /\ starts \subseteq DOMAIN s.reached
  /\ \A m \in DOMAIN far : far[m] <= d => m \in DOMAIN s.reached
  /\ \A m \in DOMAIN s.reached \ starts : far[m] <= d + 1 /\ (far[m] = d + 1 => \E i \in DOMAIN s.next : s.next[i] = m)
  /\ \A i \in DOMAIN s.next : s.next[i] \in DOMAIN far /\ far[s.next[i]] = d + 1
  /\ \A n, e, m : <<n, e>> \in C /\ Leads(f, direction, n, e, m) => m \in DOMAIN s.reached

(* All that lies at distance d is next.                                    *)
Level(f, direction, starts, far, d, s) ==
  /\ s \in Reachings /\ FirstMet(f, direction, starts, far, s.reached) /\ starts \subseteq DOMAIN s.reached
  /\ \A m \in DOMAIN far : far[m] <= d => m \in DOMAIN s.reached
  /\ \A m \in DOMAIN s.reached \ starts : far[m] <= d
  /\ \A m \in DOMAIN far : far[m] = d => \E i \in DOMAIN s.next : s.next[i] = m
  /\ \A i \in DOMAIN s.next : s.next[i] \in f.nodes => s.next[i] \in DOMAIN far /\ far[s.next[i]] = d

(* An edge of a node at distance d reaches what it leads to.               *)
LEMMA NodeWidens ==
  ASSUME NEW f, Closed(f), NEW direction, NEW starts, NEW far, Spreads(f, direction, starts, far), NEW d \in Nat,
         NEW s, NEW C, Widening(f, direction, starts, far, d, s, C),
         NEW n, n \in f.nodes => n \in DOMAIN far /\ far[n] = d, NEW e \in f.edges
  PROVE  Widening(f, direction, starts, far, d, ReachNode(s, traversalNeighbor(n, e, direction), e, d + 1), C \cup {<<n, e>>})
<1>1. PICK m : m = traversalNeighbor(n, e, direction)
  OBVIOUS
<1>2. e \in Edges /\ e.source \in f.nodes /\ e.target \in f.nodes /\ NoNode \notin f.nodes /\ d + 1 \in Nat
  <2>1. e \in Edges /\ e.source \in f.nodes /\ e.target \in f.nodes
    BY DEF Closed
  <2>2. NoNode \notin f.nodes
    BY ReadsAssumption DEF Closed
  <2>3. d + 1 \in Nat
    OBVIOUS
  <2> QED
    BY <2>1, <2>2, <2>3
<1>3. m \in Nodes \cup {NoNode}
  BY <1>1, <1>2, NeighborTyped
<1>4. PICK u : u = ReachNode(s, m, e, d + 1)
  OBVIOUS
<1>5. s \in Reachings
  BY DEF Widening
<1>6. PICK D : D = C \cup {<<n, e>>}
  OBVIOUS
<1>7. /\ u \in Reachings
      /\ m = NoNode \/ m \in DOMAIN s.reached => u = s
      /\ m # NoNode /\ m \notin DOMAIN s.reached => Arrives(s, m, e, d + 1, u)
  <2>1. PICK k \in Nat : k = d + 1
    BY <1>2
  <2>2. u = ReachNode(s, m, e, k)
    BY <1>4, <2>1
  <2>3. /\ u \in Reachings
        /\ m = NoNode \/ m \in DOMAIN s.reached => u = s
        /\ m # NoNode /\ m \notin DOMAIN s.reached => Arrives(s, m, e, k, u)
    BY ONLY <1>2, <1>3, <1>5, <2>1, <2>2, ReachNodeFacts
  <2> QED
    BY <2>1, <2>3
<1>8. CASE m = NoNode \/ m \in DOMAIN s.reached
  <2>1. ASSUME NEW x, NEW y, NEW z, <<x, y>> \in D, Leads(f, direction, x, y, z) PROVE z \in DOMAIN s.reached
    <3>1. CASE <<x, y>> \in C
      BY <2>1, <3>1 DEF Widening
    <3>2. CASE <<x, y>> = <<n, e>>
      BY <1>1, <1>2, <1>8, <2>1, <3>2 DEF Leads
    <3> QED
      BY <1>6, <2>1, <3>1, <3>2
  <2>2. Widening(f, direction, starts, far, d, s, D)
    BY <2>1 DEF Widening
  <2>3. u = s
    BY <1>7, <1>8
  <2> QED
    BY <1>1, <1>4, <1>6, <2>2, <2>3
<1>9. CASE m # NoNode /\ m \notin DOMAIN s.reached
  <2>1. Arrives(s, m, e, d + 1, u)
    BY <1>7, <1>9
  <2>2. n \in f.nodes /\ m \in f.nodes
    BY <1>1, <1>2, <1>9 DEF traversalNeighbor
  <2>3. n \in DOMAIN far /\ far[n] = d /\ Leads(f, direction, n, e, m)
    BY <1>1, <2>2 DEF Leads
  <2>4. m \in DOMAIN far /\ far[m] <= d + 1 /\ far[m] \in Nat
    BY <2>3 DEF Spreads
  <2>5. far[m] = d + 1
    BY <1>9, <2>4 DEF Widening
  <2>6. m \notin starts
    BY <1>9 DEF Widening
  <2>7. PICK next, old, reached, was : next = u.next /\ old = s.next /\ reached = u.reached /\ was = s.reached
    OBVIOUS
  <2>8. /\ DOMAIN reached = DOMAIN was \cup {m} /\ DOMAIN next = DOMAIN old \cup {Len(old) + 1}
        /\ reached[m].distance = d + 1 /\ reached[m].edge = e /\ \A x \in DOMAIN was : reached[x] = was[x]
        /\ next[Len(old) + 1] = m /\ \A i \in DOMAIN old : next[i] = old[i]
    BY <2>1, <2>7 DEF Arrives
  <2>9. FirstMet(f, direction, starts, far, reached)
    <3>1. Arrived(f, direction, starts, far, reached, m)
      BY <2>3, <2>4, <2>5, <2>8 DEF Arrived
    <3>2. ASSUME NEW x \in DOMAIN was
          PROVE IF x \in starts THEN reached[x].distance = 0 ELSE Arrived(f, direction, starts, far, reached, x)
      <4>1. reached[x] = was[x]
        BY <2>8
      <4>2. IF x \in starts THEN was[x].distance = 0 ELSE Arrived(f, direction, starts, far, was, x)
        BY <2>7 DEF Widening, FirstMet
      <4> QED
        BY <4>1, <4>2 DEF Arrived
    <3> QED
      BY <2>6, <2>8, <3>1, <3>2 DEF FirstMet
  <2>10. /\ starts \subseteq DOMAIN reached
         /\ \A x \in DOMAIN far : far[x] <= d => x \in DOMAIN reached
    BY <2>7, <2>8 DEF Widening
  <2>11. ASSUME NEW x \in DOMAIN reached \ starts
         PROVE  far[x] <= d + 1 /\ (far[x] = d + 1 => \E i \in DOMAIN next : next[i] = x)
    <3>1. CASE x = m
      BY <2>5, <2>8, <3>1
    <3>2. CASE x # m
      <4>1. x \in DOMAIN was \ starts
        BY <2>8, <3>2
      <4>2. far[x] <= d + 1 /\ (far[x] = d + 1 => \E i \in DOMAIN old : old[i] = x)
        BY <2>7, <4>1 DEF Widening
      <4> QED
        BY <2>8, <4>2
    <3> QED
      BY <3>1, <3>2
  <2>12. \A i \in DOMAIN next : next[i] \in DOMAIN far /\ far[next[i]] = d + 1
    <3>1. \A i \in DOMAIN old : old[i] \in DOMAIN far /\ far[old[i]] = d + 1
      BY <2>7 DEF Widening
    <3> QED
      BY <2>4, <2>5, <2>8, <3>1
  <2>13. ASSUME NEW x, NEW y, NEW z, <<x, y>> \in D, Leads(f, direction, x, y, z) PROVE z \in DOMAIN reached
    <3>1. CASE <<x, y>> \in C
      BY <2>7, <2>8, <2>13, <3>1 DEF Widening
    <3>2. CASE <<x, y>> = <<n, e>>
      BY <1>1, <2>8, <2>13, <3>2 DEF Leads
    <3> QED
      BY <1>6, <2>13, <3>1, <3>2
  <2>14. Widening(f, direction, starts, far, d, u, D)
    BY <1>7, <2>7, <2>9, <2>10, <2>11, <2>12, <2>13 DEF Widening
  <2> QED
    BY <1>1, <1>4, <1>6, <2>14
<1> QED
  BY <1>8, <1>9

(* A node at distance d reaches all that it leads to,                      *)
LEMMA FromWidens ==
  ASSUME NEW f, Closed(f), NEW direction, NEW starts, NEW far, Spreads(f, direction, starts, far), NEW d \in Nat,
         NEW edges \in Seq(f.edges), ToSet(edges) = f.edges,
         NEW s, NEW C, Widening(f, direction, starts, far, d, s, C),
         NEW n, n \in f.nodes => n \in DOMAIN far /\ far[n] = d
  PROVE  Widening(f, direction, starts, far, d, ReachFrom(s, n, edges, direction, d + 1), C \cup {<<n, e>> : e \in f.edges})
<1>1. s \in Reachings /\ edges \in Seq(Edges) /\ d + 1 \in Nat
  <2>1. s \in Reachings /\ f.edges \subseteq Edges
    BY DEF Widening, Closed
  <2>2. \A i \in 1..Len(edges) : edges[i] \in Edges
    BY <2>1
  <2>3. edges \in Seq(Edges)
    BY <2>2
  <2> QED
    BY <2>1, <2>3
<1>2. PICK a : ReachRun(a, s, n, edges, direction, d + 1) /\ ReachFrom(s, n, edges, direction, d + 1) = a[Len(edges)]
  BY <1>1, ReachFold
<1>3. Len(edges) \in Nat /\ DOMAIN edges = 1..Len(edges) /\ \A i \in 1..Len(edges) : edges[i] \in f.edges
  OBVIOUS
<1>4. PICK seen : seen = [i \in 0..Len(edges) |-> C \cup {<<n, edges[j]>> : j \in 1..i}]
  OBVIOUS
<1>5. \A i \in 0..Len(edges) : seen[i] = C \cup {<<n, edges[j]>> : j \in 1..i}
  BY <1>4
<1> DEFINE T == {i \in 0..Len(edges) : Widening(f, direction, starts, far, d, a[i], seen[i])}
<1>6. 0 \in T
  <2>1. 1..0 = {} /\ 0 \in 0..Len(edges)
    BY <1>3
  <2>2. seen[0] = C /\ a[0] = s
    BY <1>2, <1>5, <2>1 DEF ReachRun
  <2>3. Widening(f, direction, starts, far, d, a[0], seen[0])
    BY <2>2, Zenon
  <2> QED
    BY <2>1, <2>3
<1>7. ASSUME NEW i \in 1..Len(edges), i - 1 \in T PROVE i \in T
  <2>1. seen[i] = seen[i - 1] \cup {<<n, edges[i]>>}
    <3>1. 1..i = (1..(i - 1)) \cup {i} /\ i \in 0..Len(edges) /\ i - 1 \in 0..Len(edges)
      BY <1>3
    <3>2. seen[i] = C \cup {<<n, edges[j]>> : j \in 1..i} /\ seen[i - 1] = C \cup {<<n, edges[j]>> : j \in 1..(i - 1)}
      BY <1>5, <3>1
    <3> QED
      BY <3>1, <3>2
  <2>2. PICK v, V : v = a[i - 1] /\ V = seen[i - 1]
    OBVIOUS
  <2>3. PICK e \in f.edges : e = edges[i]
    BY <1>3
  <2>4. Widening(f, direction, starts, far, d, v, V)
    BY <1>7, <2>2
  <2>5. a[i] = ReachNode(v, traversalNeighbor(n, e, direction), e, d + 1) /\ seen[i] = V \cup {<<n, e>>}
    BY <1>2, <2>1, <2>2, <2>3 DEF ReachRun
  <2>6. Widening(f, direction, starts, far, d, ReachNode(v, traversalNeighbor(n, e, direction), e, d + 1), V \cup {<<n, e>>})
    BY <2>4, NodeWidens
  <2>7. Widening(f, direction, starts, far, d, a[i], seen[i])
    BY <2>5, <2>6, Zenon
  <2> QED
    BY <1>3, <2>7
<1>8. \A i \in 0..Len(edges) : i \in T
  <2> HIDE DEF T
  <2> QED
    BY <1>3, <1>6, <1>7, UpToInduction
<1>9. Widening(f, direction, starts, far, d, a[Len(edges)], seen[Len(edges)])
  BY <1>3, <1>8
<1>10. seen[Len(edges)] = C \cup {<<n, e>> : e \in f.edges}
  <2>1. Len(edges) \in 0..Len(edges)
    BY <1>3
  <2>2. seen[Len(edges)] = C \cup {<<n, edges[j]>> : j \in 1..Len(edges)}
    BY <1>5, <2>1
  <2>3. f.edges = {edges[j] : j \in 1..Len(edges)}
    BY <1>3 DEF ToSet
  <2>4. {<<n, edges[j]>> : j \in 1..Len(edges)} = {<<n, e>> : e \in f.edges}
    BY <1>3, <2>3
  <2> QED
    BY <2>2, <2>4
<1> QED
  BY <1>2, <1>9, <1>10, Zenon

(* and a level the next one.                                               *)
LEMMA LevelWidens ==
  ASSUME NEW f, Closed(f), NEW direction, NEW starts, NEW far, Spreads(f, direction, starts, far), NEW d \in Nat,
         NEW edges \in Seq(f.edges), ToSet(edges) = f.edges, NEW s, Level(f, direction, starts, far, d, s)
  PROVE  Level(f, direction, starts, far, d + 1, ReachLevel(s, edges, direction, d + 1))
<1>1. s \in Reachings /\ edges \in Seq(Edges) /\ d + 1 \in Nat
  <2>1. s \in Reachings /\ f.edges \subseteq Edges
    BY DEF Level, Closed
  <2>2. \A i \in 1..Len(edges) : edges[i] \in Edges
    BY <2>1
  <2>3. edges \in Seq(Edges)
    BY <2>2
  <2> QED
    BY <2>1, <2>3
<1>2. PICK a : LevelRun(a, s, edges, direction, d + 1) /\ ReachLevel(s, edges, direction, d + 1) = a[Len(s.next)]
               /\ \A i \in 0..Len(s.next) : a[i] \in Reachings
  BY <1>1, LevelFold
<1>3. PICK seq \in Seq(Nodes) : seq = s.next
  BY <1>1, ReachingFields
<1>4. Len(seq) \in Nat /\ DOMAIN seq = 1..Len(seq)
  OBVIOUS
<1>5. PICK C : C = [i \in 0..Len(seq) |-> UNION {{<<seq[j], e>> : e \in f.edges} : j \in 1..i}]
  OBVIOUS
<1>6. \A i \in 0..Len(seq) : C[i] = UNION {{<<seq[j], e>> : e \in f.edges} : j \in 1..i}
  BY <1>5
<1> DEFINE T == {i \in 0..Len(seq) : Widening(f, direction, starts, far, d, a[i], C[i])}
<1>7. 0 \in T
  <2>1. 1..0 = {} /\ 0 \in 0..Len(seq)
    BY <1>4
  <2>2. C[0] = {} /\ a[0] = [next |-> <<>>, reached |-> s.reached]
    BY <1>2, <1>6, <2>1 DEF LevelRun
  <2>3. PICK u : u = a[0]
    OBVIOUS
  <2>4. u \in Reachings /\ u.next = <<>> /\ u.reached = s.reached /\ DOMAIN u.next = {}
    BY <1>2, <1>3, <2>1, <2>2, <2>3
  <2>5. \A m \in DOMAIN s.reached \ starts : far[m] \in Nat
    BY DEF Level, FirstMet, Arrived, Spreads
  <2>6. \A m \in DOMAIN s.reached \ starts : far[m] <= d + 1 /\ far[m] # d + 1
    BY <2>5 DEF Level
  <2>7. Widening(f, direction, starts, far, d, u, {})
    BY <2>4, <2>6 DEF Widening, Level
  <2>8. Widening(f, direction, starts, far, d, a[0], C[0])
    BY <2>2, <2>3, <2>7, Zenon
  <2> QED
    BY <2>1, <2>8
<1>8. ASSUME NEW i \in 1..Len(seq), i - 1 \in T PROVE i \in T
  <2>1. PICK v, V, n : v = a[i - 1] /\ V = C[i - 1] /\ n = seq[i]
    OBVIOUS
  <2>2. C[i] = V \cup {<<n, e>> : e \in f.edges}
    <3>1. 1..i = (1..(i - 1)) \cup {i} /\ i \in 0..Len(seq) /\ i - 1 \in 0..Len(seq)
      BY <1>4
    <3>2. /\ C[i] = UNION {{<<seq[j], e>> : e \in f.edges} : j \in 1..i}
          /\ C[i - 1] = UNION {{<<seq[j], e>> : e \in f.edges} : j \in 1..(i - 1)}
      BY <1>6, <3>1
    <3> QED
      BY <2>1, <3>1, <3>2
  <2>3. Widening(f, direction, starts, far, d, v, V)
    BY <1>8, <2>1
  <2>4. n \in f.nodes => n \in DOMAIN far /\ far[n] = d
    BY <1>3, <1>4, <2>1 DEF Level
  <2>5. a[i] = ReachFrom(v, n, edges, direction, d + 1)
    BY <1>2, <1>3, <2>1 DEF LevelRun
  <2>6. Widening(f, direction, starts, far, d, ReachFrom(v, n, edges, direction, d + 1), V \cup {<<n, e>> : e \in f.edges})
    BY <2>3, <2>4, FromWidens
  <2>7. Widening(f, direction, starts, far, d, a[i], C[i])
    BY <2>2, <2>5, <2>6, Zenon
  <2> QED
    BY <1>4, <2>7
<1>9. \A i \in 0..Len(seq) : i \in T
  <2> HIDE DEF T
  <2> QED
    BY <1>4, <1>7, <1>8, UpToInduction
<1>10. PICK u, D : u = a[Len(seq)] /\ D = C[Len(seq)]
  OBVIOUS
<1>11. Len(seq) \in 0..Len(seq)
  BY <1>4
<1>12. Widening(f, direction, starts, far, d, u, D)
  BY <1>9, <1>10, <1>11
<1>13. \A j \in 1..Len(seq), e \in f.edges : <<seq[j], e>> \in D
  BY <1>6, <1>10, <1>11
<1>14. ASSUME NEW m \in DOMAIN far, far[m] = d + 1 PROVE m \in DOMAIN u.reached /\ m \notin starts
  <2>1. PICK n, e : n \in DOMAIN far /\ far[n] + 1 = far[m] /\ Leads(f, direction, n, e, m)
    BY <1>14 DEF Spreads
  <2>2. far[n] = d
    BY <1>14, <2>1 DEF Spreads
  <2>3. PICK j \in 1..Len(seq) : seq[j] = n
    BY <1>3, <1>4, <2>1, <2>2 DEF Level
  <2>4. e \in f.edges
    BY <2>1 DEF Leads
  <2>5. <<n, e>> \in D
    BY <1>13, <2>3, <2>4
  <2>6. m \in DOMAIN u.reached
    BY <1>12, <2>1, <2>5 DEF Widening
  <2>7. far[m] # 0
    BY <1>14
  <2> QED
    BY <2>6, <2>7 DEF Spreads
<1>15. Level(f, direction, starts, far, d + 1, u)
  <2>1. /\ u \in Reachings /\ FirstMet(f, direction, starts, far, u.reached) /\ starts \subseteq DOMAIN u.reached
        /\ \A m \in DOMAIN u.reached \ starts : far[m] <= d + 1
    BY <1>12 DEF Widening
  <2>2. \A m \in DOMAIN far : far[m] <= d + 1 => m \in DOMAIN u.reached
    <3>1. \A m \in DOMAIN far : far[m] \in Nat /\ (far[m] <= d + 1 => far[m] <= d \/ far[m] = d + 1)
      BY DEF Spreads
    <3> QED
      BY <1>12, <1>14, <3>1 DEF Widening
  <2>3. \A m \in DOMAIN far : far[m] = d + 1 => \E i \in DOMAIN u.next : u.next[i] = m
    BY <1>12, <1>14 DEF Widening
  <2>4. \A i \in DOMAIN u.next : u.next[i] \in f.nodes => u.next[i] \in DOMAIN far /\ far[u.next[i]] = d + 1
    BY <1>12 DEF Widening
  <2> QED
    BY <2>1, <2>2, <2>3, <2>4 DEF Level
<1> QED
  BY <1>2, <1>3, <1>10, <1>15

(* The starts are the first level.                                         *)
LEMMA FirstLevel ==
  ASSUME NEW f, Closed(f), NEW direction, NEW starts \in SUBSET Nodes, NEW far, Spreads(f, direction, starts, far),
         NEW order \in Seq(Nodes), ToSet(order) = starts,
         NEW s, s = [next |-> order, reached |-> [n \in ToSet(order) |-> [distance |-> 0]]]
  PROVE  Level(f, direction, starts, far, 0, s)
<1>1. PICK reached : reached = [n \in starts |-> [distance |-> 0]]
  OBVIOUS
<1>2. s = [next |-> order, reached |-> reached] /\ s.next = order /\ s.reached = reached
  BY <1>1
<1>3. DOMAIN reached = starts /\ \A n \in starts : reached[n] = [distance |-> 0]
  BY <1>1
<1>4. [distance |-> 0] \in Arrivals
  BY DEF Arrivals
<1>5. reached \in [DOMAIN reached -> Arrivals]
  BY <1>1, <1>3, <1>4
<1>6. s \in Reachings
  BY <1>2, <1>3, <1>5, ReachingTyped
<1>7. FirstMet(f, direction, starts, far, s.reached) /\ starts \subseteq DOMAIN s.reached
  BY <1>2, <1>3 DEF FirstMet
<1>8. \A m \in DOMAIN far : far[m] \in Nat /\ (far[m] <= 0 => m \in starts)
  BY DEF Spreads
<1>9. DOMAIN order = 1..Len(order) /\ starts = {order[i] : i \in DOMAIN order}
  BY DEF ToSet
<1>10. \A m \in DOMAIN far : far[m] = 0 => \E i \in DOMAIN s.next : s.next[i] = m
  BY <1>2, <1>8, <1>9
<1>11. \A i \in DOMAIN s.next : s.next[i] \in f.nodes => s.next[i] \in DOMAIN far /\ far[s.next[i]] = 0
  BY <1>2, <1>9 DEF Spreads
<1> QED
  BY <1>2, <1>3, <1>6, <1>7, <1>8, <1>10, <1>11 DEF Level

LevelsRun(a, order, edges, direction, h) ==
  /\ h = a[Cardinality(Nodes)].reached
  /\ a[0] = [next |-> order, reached |-> [n \in ToSet(order) |-> [distance |-> 0]]]
  /\ \A i \in 1..Cardinality(Nodes) : a[i] = ReachLevel(a[i - 1], edges, direction, i)

(* The search goes on level by level.                                      *)
LEMMA ReachLevels ==
  ASSUME NEW order \in Seq(Nodes), NEW edges \in Seq(Edges), NEW direction, NEW h, h = firstReaches(order, edges, direction)
  PROVE  \E a : LevelsRun(a, order, edges, direction, h)
<1> DEFINE W == Reachings
           base == [next |-> order, reached |-> [n \in ToSet(order) |-> [distance |-> 0]]]
           next(w, i) == ReachLevel(w, edges, direction, i)
           N == Cardinality(Nodes)
           step == [i \in 1..N |-> [w \in W |-> next(w, i)]]
           raw(w) == w = [i \in 0..N |-> IF i = 0 THEN base ELSE next(w[i - 1], i)]
<1>1. N \in Nat
  BY NodesCounted
<1>2. base \in W
  <2>1. PICK reached, starts : reached = [n \in starts |-> [distance |-> 0]] /\ starts = ToSet(order)
    OBVIOUS
  <2>2. starts \in SUBSET Nodes
    BY <2>1 DEF ToSet
  <2>3. DOMAIN reached = starts /\ [distance |-> 0] \in Arrivals
    BY <2>1 DEF Arrivals
  <2>4. reached \in [DOMAIN reached -> Arrivals]
    BY <2>1, <2>3
  <2>5. [next |-> order, reached |-> reached] \in Reachings
    BY <2>2, <2>3, <2>4, ReachingTyped
  <2> QED
    BY <2>1, <2>5
<1>3. \A w \in W, i \in 1..N : next(w, i) \in W
  <2>1. ASSUME NEW w \in W, NEW d \in Nat PROVE ReachLevel(w, edges, direction, d) \in W
    <3>1. PICK a : ReachLevel(w, edges, direction, d) = a[Len(w.next)] /\ \A i \in 0..Len(w.next) : a[i] \in Reachings
      BY LevelFold
    <3>2. Len(w.next) \in 0..Len(w.next)
      BY ReachingFields
    <3> QED
      BY <3>1, <3>2
  <2>2. \A i \in 1..N : i \in Nat
    BY <1>1
  <2> HIDE DEF W
  <2> QED
    BY <2>1, <2>2
<1>4. PICK a : Iterates(a, N, W, base, step)
  <2>1. step \in [1..N -> [W -> W]]
    <3> HIDE DEF W, next, N
    <3> QED
      BY <1>3
  <2> HIDE DEF W, base, step, N
  <2> QED
    BY <1>1, <1>2, <2>1, RecursionExists
<1>5. a \in [0..N -> W] /\ a[0] = base /\ \A i \in 1..N : a[i] = next(a[i - 1], i)
  <2>1. a \in [0..N -> W] /\ a[0] = base /\ \A i \in 1..N : a[i] = step[i][a[i - 1]]
    BY <1>4 DEF Iterates
  <2>2. \A i \in 1..N : i - 1 \in 0..N
    BY <1>1
  <2>3. \A i \in 1..N : a[i - 1] \in W
    BY <2>1, <2>2
  <2> HIDE DEF W, base, N, next
  <2> QED
    BY <2>1, <2>3
<1>6. raw(a)
  <2> HIDE DEF W, base, N, next
  <2>1. \A i \in 0..N : a[i] = IF i = 0 THEN base ELSE next(a[i - 1], i)
    <3>1. \A i \in 0..N : i = 0 \/ i \in 1..N
      BY <1>1
    <3> QED
      BY <1>5, <3>1
  <2> QED
    BY <1>5, <2>1
<1>7. PICK w : w = CHOOSE x : raw(x)
  OBVIOUS
<1>8. h = w[N].reached
  BY <1>7 DEF firstReaches
<1>9. raw(w)
  <2> HIDE DEF raw
  <2> QED
    BY <1>6, <1>7
<1>10. w[0] = base /\ \A i \in 1..N : w[i] = next(w[i - 1], i)
  <2> HIDE DEF base, N, next
  <2>1. 0 \in 0..N /\ \A i \in 1..N : i \in 0..N /\ i # 0
    BY <1>1
  <2> QED
    BY <1>9, <2>1
<1>11. LevelsRun(w, order, edges, direction, h)
  BY <1>8, <1>10 DEF LevelsRun
<1> QED
  BY ONLY <1>11

(* Every node but the starts is reached by an edge from one nearer, and all*)
(* that a walk leads to is. (traversalEvidence, rankImpactEvidence)        *)
LEMMA FirstReachesFacts ==
  ASSUME NEW f, Closed(f), NEW direction, NEW starts \in SUBSET Nodes, NEW far, Spreads(f, direction, starts, far),
         NEW order \in Seq(Nodes), ToSet(order) = starts, NEW edges \in Seq(f.edges), ToSet(edges) = f.edges,
         NEW h, h = firstReaches(order, edges, direction)
  PROVE  FirstMet(f, direction, starts, far, h) /\ starts \subseteq DOMAIN h /\ DOMAIN far \subseteq DOMAIN h
<1>1. edges \in Seq(Edges)
  <2>1. \A i \in 1..Len(edges) : edges[i] \in Edges
    BY DEF Closed
  <2> QED
    BY <2>1
<1>2. PICK a : LevelsRun(a, order, edges, direction, h)
  BY <1>1, ReachLevels
<1>3. PICK N \in Nat : N = Cardinality(Nodes)
  BY NodesCounted
<1> DEFINE T == {i \in 0..N : Level(f, direction, starts, far, i, a[i])}
<1>4. 0 \in T
  <2>1. PICK s : s = a[0]
    OBVIOUS
  <2>2. Level(f, direction, starts, far, 0, s)
    BY <1>2, <2>1, FirstLevel DEF LevelsRun
  <2> QED
    BY <2>1, <2>2
<1>5. ASSUME NEW i \in 1..N, i - 1 \in T PROVE i \in T
  <2>1. PICK d, s : d = i - 1 /\ s = a[i - 1]
    OBVIOUS
  <2>9. d \in Nat
    BY <2>1
  <2>2. Level(f, direction, starts, far, d, s)
    BY <1>5, <2>1
  <2>3. Level(f, direction, starts, far, d + 1, ReachLevel(s, edges, direction, d + 1))
    BY <2>2, <2>9, LevelWidens
  <2>4. d + 1 = i /\ a[i] = ReachLevel(s, edges, direction, i)
    BY <1>2, <1>3, <2>1 DEF LevelsRun
  <2>5. Level(f, direction, starts, far, i, a[i])
    BY <2>3, <2>4
  <2> QED
    BY <2>5
<1>6. \A i \in 0..N : i \in T
  <2> HIDE DEF T
  <2> QED
    BY <1>4, <1>5, UpToInduction
<1>7. PICK s : s = a[N]
  OBVIOUS
<1>8. Level(f, direction, starts, far, N, s) /\ h = s.reached
  BY <1>2, <1>3, <1>6, <1>7 DEF LevelsRun
<1>9. \A m \in DOMAIN far : far[m] <= N
  BY <1>3 DEF Spreads
<1> QED
  BY <1>8, <1>9 DEF Level

(* Walks over facts are such layers.                                       *)
LEMMA DistancesLayered ==
  ASSUME NEW g \in Graphs, NEW q, q.direction \in {"outgoing", "incoming", "both"}, q.projects = {}, q.relations = {},
         NEW far, far = [n \in Reaches(g, q) |-> Distance(g, q, n)]
  PROVE  Spreads(g, q.direction, q.starts, far)
<1>1. DOMAIN far = Reaches(g, q) /\ \A n \in Reaches(g, q) : far[n] = Distance(g, q, n)
  OBVIOUS
<1>2. Reaches(g, q) \in SUBSET g.nodes
  BY NodesCounted, ReachFacts DEF Reaches
<1>3. \A n \in Reaches(g, q) : far[n] \in Nat /\ far[n] <= Cardinality(Nodes)
  <2>1. \A n \in Reaches(g, q) : Distance(g, q, n) \in 0..Cardinality(Nodes) /\ Distance(g, q, n) \in Nat
    BY DistanceFacts
  <2> QED
    BY <1>1, <2>1, NodesCounted
<1>4. far \in [DOMAIN far -> Nat]
  BY <1>1, <1>3
<1>5. \A n : (n \in Reaches(g, q) /\ Distance(g, q, n) = 0) <=> n \in q.starts \cap g.nodes
  BY DistanceZero
<1>6. \A n, e, m : Leads(g, q.direction, n, e, m) <=> e \in g.edges /\ LinksTo(g, q, n, e, m)
  BY DEF LinksTo, Allows, Leads
<1>7. \A n : InScope(g, q.projects, n)
  BY DEF InScope
<1>8. ASSUME NEW n \in Reaches(g, q), NEW e, NEW m, Leads(g, q.direction, n, e, m)
      PROVE  m \in Reaches(g, q) /\ far[m] <= far[n] + 1
  <2>1. e \in g.edges /\ LinksTo(g, q, n, e, m)
    BY <1>6, <1>8
  <2>2. m \in Reaches(g, q) /\ Distance(g, q, m) <= Distance(g, q, n) + 1
    BY <1>7, <2>1, DistanceNext
  <2> QED
    BY <1>1, <2>2
<1>9. ASSUME NEW m \in Reaches(g, q), far[m] > 0
      PROVE  \E n \in Reaches(g, q) : far[n] + 1 = far[m] /\ \E e : Leads(g, q.direction, n, e, m)
  <2>1. Distance(g, q, m) > 0
    BY <1>1, <1>9
  <2>2. PICK n \in Reaches(g, q) : Distance(g, q, n) + 1 = Distance(g, q, m) /\ \E e \in g.edges : LinksTo(g, q, n, e, m)
    BY <2>1, DistanceBefore
  <2>3. PICK e \in g.edges : LinksTo(g, q, n, e, m)
    BY <2>2
  <2> QED
    BY <1>1, <1>6, <2>2, <2>3
<1>10. \A n \in Reaches(g, q) : far[n] = 0 <=> n \in q.starts
  BY <1>1, <1>2, <1>5
<1>11. \A n \in q.starts : n \in g.nodes => n \in Reaches(g, q)
  BY <1>5
<1> QED
  BY <1>1, <1>2, <1>3, <1>4, <1>8, <1>9, <1>10, <1>11 DEF Spreads

-----------------------------------------------------------------------------
(* Evidence                                                                *)

NodeOrder(ranked) == [i \in DOMAIN ranked |-> ranked[i].node]

OrderRun(a, s) == a[0] = <<>> /\ \A i \in 1..Len(s) : a[i] = a[i - 1] \o NodeOrder(s[i])

(* The starts are put in order slot by slot,                               *)
LEMMA OrderFold ==
  ASSUME seeds \in Seq(Seq(Seeds(Nodes)))
  PROVE  \E a : /\ OrderRun(a, seeds) /\ StartOrder = a[Len(seeds)]
                /\ \A i \in 0..Len(seeds) : a[i] \in Seq(Nodes)
<1> DEFINE W == Seq(Nodes)
           n == Len(seeds)
           base == <<>>
           next(w, x) == w \o [i \in DOMAIN x |-> x[i].node]
           raw(h) == h = [u \in SUBSET (1..n) |-> IF u = {} THEN base ELSE next(h[u \ {Max(u)}], seeds[Max(u)])]
           step == [i \in 1..n |-> [w \in W |-> next(w, seeds[i])]]
<1>1. n \in Nat /\ DOMAIN seeds = 1..n
  OBVIOUS
<1>2. base \in W
  OBVIOUS
<1>3. \A w \in W, i \in 1..n : next(w, seeds[i]) \in W
  <2>1. ASSUME NEW w \in W, NEW x \in Seq(Seeds(Nodes)) PROVE next(w, x) \in W
    <3>1. \A i \in 1..Len(x) : x[i] \in Seeds(Nodes)
      OBVIOUS
    <3>2. \A i \in 1..Len(x) : x[i].node \in Nodes
      BY <3>1 DEF Seeds
    <3>3. DOMAIN x = 1..Len(x) /\ Len(x) \in Nat
      OBVIOUS
    <3>4. PICK s : s = [i \in DOMAIN x |-> x[i].node]
      OBVIOUS
    <3>5. s = [i \in 1..Len(x) |-> x[i].node]
      BY <3>3, <3>4
    <3>6. s \in Seq(Nodes)
      BY <3>2, <3>3, <3>5
    <3> QED
      BY <3>4, <3>6
  <2>2. \A i \in 1..n : seeds[i] \in Seq(Seeds(Nodes))
    BY <1>1
  <2> HIDE DEF W, next
  <2> QED
    BY <2>1, <2>2
<1>4. step \in [1..n -> [W -> W]]
  <2> HIDE DEF W, next
  <2> QED
    BY <1>3
<1>5. PICK h \in [SUBSET (1..n) -> W] : FoldsUpTo(h, n, base, step)
  <2> HIDE DEF W, step, n, base
  <2> QED
    BY <1>1, <1>2, <1>4, FoldUpToExists
<1>6. raw(h)
  <2>1. ASSUME NEW u \in SUBSET (1..n), u # {}
        PROVE  step[Max(u)][h[u \ {Max(u)}]] = next(h[u \ {Max(u)}], seeds[Max(u)])
    <3>1. Max(u) \in 1..n
      <4> HIDE DEF n
      <4> QED
        BY <1>1, <2>1, LastOfRange
    <3>2. h[u \ {Max(u)}] \in W
      OBVIOUS
    <3> HIDE DEF W, next
    <3> QED
      BY <3>1, <3>2
  <2>2. \A u \in SUBSET (1..n) : h[u] = IF u = {} THEN base ELSE step[Max(u)][h[u \ {Max(u)}]]
    BY <1>5 DEF FoldsUpTo
  <2> HIDE DEF W, step, n, next, base
  <2>3. \A u \in SUBSET (1..n) : h[u] = IF u = {} THEN base ELSE next(h[u \ {Max(u)}], seeds[Max(u)])
    BY <2>1, <2>2
  <2> QED
    BY <2>3
<1>7. PICK H : H = CHOOSE f : raw(f)
  OBVIOUS
<1>8. raw(H)
  <2> HIDE DEF raw
  <2> QED
    BY <1>6, <1>7
<1>9. StartOrder = H[1..n]
  BY <1>1, <1>7 DEF StartOrder, FoldLeft, MapThenFoldSet
<1> DEFINE a == [i \in 0..n |-> H[1..i]]
<1>10. a[0] = base
  <2>1. 1..0 = {} /\ {} \in SUBSET (1..n) /\ 0 \in 0..n
    BY <1>1
  <2>2. H[{}] = base
    BY <1>8, <2>1
  <2> QED
    BY <2>1, <2>2
<1>11. ASSUME NEW i \in 1..n PROVE a[i] = next(a[i - 1], seeds[i])
  <2>1. /\ 1..i \in SUBSET (1..n) /\ 1..i # {} /\ Max(1..i) = i /\ (1..i) \ {i} = 1..(i - 1)
    BY <1>1, RangeFacts
  <2> HIDE DEF next
  <2>2. \A u \in SUBSET (1..n) : u # {} => H[u] = next(H[u \ {Max(u)}], seeds[Max(u)])
    BY <1>8
  <2>3. H[1..i] = next(H[1..(i - 1)], seeds[i])
    BY <2>1, <2>2
  <2>4. i \in 0..n /\ i - 1 \in 0..n
    BY <1>1
  <2> QED
    BY <2>3, <2>4
<1>12. a[n] = H[1..n]
  BY <1>1
<1>13. \A i \in 0..n : a[i] \in W
  <2> DEFINE T == {i \in 0..n : a[i] \in W}
  <2> HIDE DEF a, W, n, next, base
  <2>1. 0 \in T
    BY <1>1, <1>2, <1>10
  <2>2. ASSUME NEW i \in 1..n, i - 1 \in T PROVE i \in T
    BY <1>1, <1>3, <1>11, <2>2
  <2>3. \A i \in 0..n : i \in T
    <3> HIDE DEF T
    <3> QED
      BY <1>1, <2>1, <2>2, UpToInduction
  <2> QED
    BY <2>3
<1>14. OrderRun(a, seeds)
  <2> HIDE DEF a
  <2> QED
    BY <1>10, <1>11 DEF OrderRun, NodeOrder
<1> HIDE DEF a
<1> QED
  BY <1>9, <1>12, <1>13, <1>14

(* and hold each start.                                                    *)
LEMMA StartOrderFacts ==
  ASSUME QueryInv, plan # NoPlan, seeds = Ranked
  PROVE  StartOrder \in Seq(Nodes) /\ ToSet(StartOrder) = StartNodes
<1>1. snapshot \in Graphs /\ PlanOK(plan)
  BY DEF QueryInv, CommandInv
<1>2. DOMAIN seeds = DOMAIN plan.slots
  BY DEF Ranked
<1>3. PICK n \in Nat : DOMAIN seeds = 1..n
  <2>1. DOMAIN seeds = {} \/ DOMAIN seeds = 1..1 \/ DOMAIN seeds = 1..2
    BY <1>1, <1>2 DEF PlanOK
  <2>2. 1..0 = {} /\ 0 \in Nat /\ 1 \in Nat /\ 2 \in Nat
    OBVIOUS
  <2> QED
    BY <2>1, <2>2
<1>4. \A k \in 1..n : seeds[k] \in Seq(Seeds(Nodes))
  <2> SUFFICES ASSUME NEW k \in 1..n PROVE seeds[k] \in Seq(Seeds(Nodes))
    OBVIOUS
  <2>1. PICK s : s = seeds[k]
    OBVIOUS
  <2>2. s \in Seq(Seeds(snapshot.nodes))
    BY <1>3, <2>1, SeedsTyped DEF SeedsOf
  <2>3. Seeds(snapshot.nodes) \subseteq Seeds(Nodes)
    BY <1>1 DEF Seeds, Graphs
  <2>4. s \in Seq(Seeds(Nodes))
    BY <2>2, <2>3
  <2> QED
    BY <2>1, <2>4
<1>5. seeds \in Seq(Seq(Seeds(Nodes))) /\ Len(seeds) = n
  <2>1. seeds = [k \in 1..n |-> seeds[k]]
    BY <1>3 DEF Ranked
  <2>2. [k \in 1..n |-> seeds[k]] \in Seq(Seq(Seeds(Nodes))) /\ Len([k \in 1..n |-> seeds[k]]) = n
    BY <1>4
  <2> QED
    BY <2>1, <2>2
<1>6. PICK a : /\ OrderRun(a, seeds) /\ StartOrder = a[Len(seeds)]
               /\ \A i \in 0..Len(seeds) : a[i] \in Seq(Nodes)
  BY <1>5, OrderFold
<1>12. PICK A : A = [k \in 1..n |-> SeedNodes(seeds[k])]
  OBVIOUS
<1>13. \A k \in 1..n : A[k] = SeedNodes(seeds[k])
  BY <1>12
<1>15. PICK U : U = [i \in 0..n |-> UNION {A[k] : k \in 1..i}]
  OBVIOUS
<1>16. \A i \in 0..n : \A x : x \in U[i] <=> \E k \in 1..i : x \in A[k]
  BY <1>15
<1> DEFINE T == {i \in 0..n : ToSet(a[i]) = U[i]}
<1>7. 0 \in T
  <2>1. 1..0 = {} /\ 0 \in 0..n /\ a[0] = <<>>
    BY <1>6 DEF OrderRun
  <2>2. ToSet(<<>>) = {}
    BY DEF ToSet
  <2>3. U[0] = {}
    BY <1>16, <2>1
  <2> QED
    BY <2>1, <2>2, <2>3
<1>8. ASSUME NEW i \in 1..n, i - 1 \in T PROVE i \in T
  <2>1. PICK s \in Seq(Seeds(Nodes)) : s = seeds[i]
    BY <1>4
  <2>2. PICK v \in Seq(Nodes) : v = a[i - 1]
    <3>1. i - 1 \in 0..Len(seeds)
      BY <1>5
    <3> QED
      BY <1>6, <3>1
  <2>3. PICK o : o = NodeOrder(s)
    OBVIOUS
  <2>4. o = [j \in 1..Len(s) |-> s[j].node] /\ Len(s) \in Nat /\ \A j \in 1..Len(s) : s[j] \in Seeds(Nodes)
    BY <2>3 DEF NodeOrder
  <2>5. \A j \in 1..Len(s) : s[j].node \in Nodes
    BY <2>4 DEF Seeds
  <2>6. o \in Seq(Nodes) /\ Len(o) = Len(s)
    BY <2>4, <2>5
  <2>7. a[i] = v \o o
    BY <1>5, <1>6, <2>1, <2>2, <2>3 DEF OrderRun
  <2>8. ToSet(v \o o) = ToSet(v) \cup ToSet(o)
    <3>1. PICK l : l = v \o o
      OBVIOUS
    <3>2. /\ DOMAIN l = 1..(Len(v) + Len(o)) /\ DOMAIN v = 1..Len(v) /\ DOMAIN o = 1..Len(o)
          /\ \A j \in DOMAIN l : l[j] = IF j <= Len(v) THEN v[j] ELSE o[j - Len(v)]
          /\ Len(v) \in Nat /\ Len(o) \in Nat
      <4>1. Len(v) \in Nat /\ Len(o) \in Nat /\ DOMAIN v = 1..Len(v) /\ DOMAIN o = 1..Len(o)
        BY <2>6
      <4>2. l \in Seq(Nodes) /\ Len(l) = Len(v) + Len(o)
        BY <2>6, <3>1, ConcatProperties
      <4>3. DOMAIN l = 1..(Len(v) + Len(o))
        BY <4>2
      <4>4. \A j \in 1..(Len(v) + Len(o)) : l[j] = IF j <= Len(v) THEN v[j] ELSE o[j - Len(v)]
        BY <2>6, <3>1
      <4> QED
        BY <4>1, <4>3, <4>4
    <3>3. ASSUME NEW x \in ToSet(l) PROVE x \in ToSet(v) \cup ToSet(o)
      <4>1. PICK j \in DOMAIN l : x = l[j]
        BY DEF ToSet
      <4>2. CASE j <= Len(v)
        BY <3>2, <4>1, <4>2 DEF ToSet
      <4>3. CASE ~(j <= Len(v))
        <5>1. j - Len(v) \in DOMAIN o
          BY <3>2, <4>3
        <5> QED
          BY <3>2, <4>1, <4>3, <5>1 DEF ToSet
      <4> QED
        BY <4>2, <4>3
    <3>4. ASSUME NEW x \in ToSet(v) PROVE x \in ToSet(l)
      <4>1. PICK j \in DOMAIN v : x = v[j]
        BY DEF ToSet
      <4>2. j \in DOMAIN l /\ l[j] = v[j]
        BY <3>2
      <4> QED
        BY <4>1, <4>2 DEF ToSet
    <3>5. ASSUME NEW x \in ToSet(o) PROVE x \in ToSet(l)
      <4>1. PICK j \in DOMAIN o : x = o[j]
        BY DEF ToSet
      <4>2. j + Len(v) \in DOMAIN l /\ l[j + Len(v)] = o[j]
        BY <3>2
      <4> QED
        BY <4>1, <4>2 DEF ToSet
    <3> QED
      BY <3>1, <3>3, <3>4, <3>5
  <2>9. ToSet(o) = SeedNodes(s)
    BY <2>4 DEF ToSet, SeedNodes
  <2>10. U[i] = U[i - 1] \cup SeedNodes(s)
    <3>1. 1..i = (1..(i - 1)) \cup {i} /\ A[i] = SeedNodes(s) /\ i \in 0..n /\ i - 1 \in 0..n
      BY <1>13, <2>1
    <3>2. \A x : x \in U[i] <=> x \in U[i - 1] \/ x \in A[i]
      BY <1>16, <3>1
    <3> QED
      BY <3>1, <3>2
  <2>11. ToSet(a[i]) = ToSet(v) \cup SeedNodes(s)
    BY <2>7, <2>8, <2>9, Zenon
  <2>12. ToSet(v) = U[i - 1]
    BY <1>8, <2>2
  <2>13. ToSet(a[i]) = U[i]
    BY <2>10, <2>11, <2>12, Zenon
  <2> QED
    BY <2>13
<1>9. \A i \in 0..n : i \in T
  <2> HIDE DEF T
  <2> QED
    BY <1>7, <1>8, UpToInduction
<1>10. ToSet(a[n]) = U[n]
  BY <1>9
<1>11. StartNodes = U[n]
  <2>1. \A x : x \in StartNodes <=> \E k \in 1..n : x \in SeedNodes(seeds[k])
    BY <1>3 DEF StartNodes
  <2>2. \A x : x \in StartNodes <=> x \in U[n]
    BY <1>13, <1>16, <2>1
  <2> QED
    BY <2>2
<1>14. StartOrder = a[n] /\ a[n] \in Seq(Nodes)
  BY <1>5, <1>6
<1> QED
  BY <1>10, <1>11, <1>14, Zenon

-----------------------------------------------------------------------------
(* Groups of evidence                                                      *)

TotalEdges(evidence) == FoldLeft(LAMBDA sum, g : sum + Cardinality(g.edges), 0, evidence)

TotalRun(a, s) == a[0] = 0 /\ \A i \in 1..Len(s) : a[i] = a[i - 1] + Cardinality(s[i].edges)

(* Edges are counted group by group.                                       *)
LEMMA TotalFold ==
  ASSUME NEW S, NEW s \in Seq(S), \A i \in 1..Len(s) : Cardinality(s[i].edges) \in Nat
  PROVE  \E a : /\ TotalRun(a, s) /\ TotalEdges(s) = a[Len(s)]
                /\ \A i \in 0..Len(s) : a[i] \in Nat
<1> DEFINE W == Nat
           n == Len(s)
           base == 0
           next(w, x) == w + Cardinality(x.edges)
           raw(h) == h = [u \in SUBSET (1..n) |-> IF u = {} THEN base ELSE next(h[u \ {Max(u)}], s[Max(u)])]
           step == [i \in 1..n |-> [w \in W |-> next(w, s[i])]]
<1>1. n \in Nat /\ DOMAIN s = 1..n
  OBVIOUS
<1>2. base \in W
  OBVIOUS
<1>3. \A w \in W, i \in 1..n : next(w, s[i]) \in W
  OBVIOUS
<1>4. step \in [1..n -> [W -> W]]
  <2> HIDE DEF W, next
  <2> QED
    BY <1>3
<1>5. PICK h \in [SUBSET (1..n) -> W] : FoldsUpTo(h, n, base, step)
  <2> HIDE DEF W, step, n, base
  <2> QED
    BY <1>1, <1>2, <1>4, FoldUpToExists
<1>6. raw(h)
  <2>1. ASSUME NEW u \in SUBSET (1..n), u # {}
        PROVE  step[Max(u)][h[u \ {Max(u)}]] = next(h[u \ {Max(u)}], s[Max(u)])
    <3>1. Max(u) \in 1..n
      <4> HIDE DEF n
      <4> QED
        BY <1>1, <2>1, LastOfRange
    <3>2. h[u \ {Max(u)}] \in W
      OBVIOUS
    <3> HIDE DEF W, next
    <3> QED
      BY <3>1, <3>2
  <2>2. \A u \in SUBSET (1..n) : h[u] = IF u = {} THEN base ELSE step[Max(u)][h[u \ {Max(u)}]]
    BY <1>5 DEF FoldsUpTo
  <2> HIDE DEF W, step, n, next, base
  <2>3. \A u \in SUBSET (1..n) : h[u] = IF u = {} THEN base ELSE next(h[u \ {Max(u)}], s[Max(u)])
    BY <2>1, <2>2
  <2> QED
    BY <2>3
<1>7. PICK H : H = CHOOSE f : raw(f)
  OBVIOUS
<1>8. raw(H)
  <2> HIDE DEF raw
  <2> QED
    BY <1>6, <1>7
<1>9. TotalEdges(s) = H[1..n]
  BY <1>1, <1>7 DEF TotalEdges, FoldLeft, MapThenFoldSet
<1> DEFINE a == [i \in 0..n |-> H[1..i]]
<1>10. a[0] = base
  <2>1. 1..0 = {} /\ {} \in SUBSET (1..n) /\ 0 \in 0..n
    BY <1>1
  <2>2. H[{}] = base
    BY <1>8, <2>1
  <2> QED
    BY <2>1, <2>2
<1>11. ASSUME NEW i \in 1..n PROVE a[i] = next(a[i - 1], s[i])
  <2>1. /\ 1..i \in SUBSET (1..n) /\ 1..i # {} /\ Max(1..i) = i /\ (1..i) \ {i} = 1..(i - 1)
    BY <1>1, RangeFacts
  <2> HIDE DEF next
  <2>2. \A u \in SUBSET (1..n) : u # {} => H[u] = next(H[u \ {Max(u)}], s[Max(u)])
    BY <1>8
  <2>3. H[1..i] = next(H[1..(i - 1)], s[i])
    BY <2>1, <2>2
  <2>4. i \in 0..n /\ i - 1 \in 0..n
    BY <1>1
  <2> QED
    BY <2>3, <2>4
<1>12. a[n] = H[1..n]
  BY <1>1
<1>13. \A i \in 0..n : a[i] \in W
  <2> DEFINE T == {i \in 0..n : a[i] \in W}
  <2> HIDE DEF a, W, n, next, base
  <2>1. 0 \in T
    BY <1>1, <1>2, <1>10
  <2>2. ASSUME NEW i \in 1..n, i - 1 \in T PROVE i \in T
    BY <1>1, <1>3, <1>11, <2>2
  <2>3. \A i \in 0..n : i \in T
    <3> HIDE DEF T
    <3> QED
      BY <1>1, <2>1, <2>2, UpToInduction
  <2> QED
    BY <2>3
<1>14. TotalRun(a, s)
  <2> HIDE DEF a
  <2> QED
    BY <1>10, <1>11 DEF TotalRun
<1> HIDE DEF a
<1> QED
  BY <1>9, <1>12, <1>13, <1>14

(* Groups without an edge in common have as many edges as they have        *)
(* together.                                                               *)
LEMMA TotalOfDisjoint ==
  ASSUME NEW S, NEW s \in Seq(S), \A i \in 1..Len(s) : IsFiniteSet(s[i].edges),
         \A i, j \in 1..Len(s) : i # j => s[i].edges \cap s[j].edges = {}
  PROVE  TotalEdges(s) = Cardinality(UNION {s[i].edges : i \in 1..Len(s)})
<1>1. PICK n \in Nat : n = Len(s)
  OBVIOUS
<1>2. PICK A : A = [i \in 1..n |-> s[i].edges]
  OBVIOUS
<1>3. \A i \in 1..n : A[i] = s[i].edges /\ IsFiniteSet(A[i])
  BY <1>1, <1>2
<1>4. PICK a : TotalRun(a, s) /\ TotalEdges(s) = a[n] /\ \A i \in 0..n : a[i] \in Nat
  <2>1. \A i \in 1..Len(s) : Cardinality(s[i].edges) \in Nat
    BY FS_CardinalityType
  <2> QED
    BY <1>1, <2>1, TotalFold
<1>5. PICK U : U = [i \in 0..n |-> UNION {A[j] : j \in 1..i}]
  OBVIOUS
<1>6. \A i \in 0..n : \A x : x \in U[i] <=> \E j \in 1..i : x \in A[j]
  BY <1>5
<1> DEFINE T == {i \in 0..n : IsFiniteSet(U[i]) /\ a[i] = Cardinality(U[i])}
<1>7. 0 \in T
  <2>1. 0 \in 0..n /\ 1..0 = {}
    OBVIOUS
  <2>2. U[0] = {}
    BY <1>6, <2>1
  <2>3. a[0] = 0
    BY <1>4 DEF TotalRun
  <2> QED
    BY <2>1, <2>2, <2>3, FS_EmptySet
<1>8. ASSUME NEW i \in 1..n, i - 1 \in T PROVE i \in T
  <2>1. PICK V, B : V = U[i - 1] /\ B = A[i]
    OBVIOUS
  <2>2. 1..i = (1..(i - 1)) \cup {i} /\ i \in 0..n /\ i - 1 \in 0..n
    OBVIOUS
  <2>3. \A x : x \in U[i] <=> x \in V \cup B
    BY <1>6, <2>1, <2>2
  <2>4. U[i] = V \cup B
    BY <2>3
  <2>5. V \cap B = {}
    <3>1. \A j \in 1..(i - 1) : A[j] \cap A[i] = {}
      BY <1>1, <1>3
    <3>2. \A x : x \in V <=> \E j \in 1..(i - 1) : x \in A[j]
      BY <1>6, <2>1, <2>2
    <3> QED
      BY <2>1, <3>1, <3>2
  <2>6. IsFiniteSet(V) /\ IsFiniteSet(B) /\ a[i - 1] = Cardinality(V)
    BY <1>3, <1>8, <2>1
  <2>7. /\ IsFiniteSet(V \cup B)
        /\ Cardinality(V \cup B) = Cardinality(V) + Cardinality(B) - Cardinality(V \cap B)
    BY <2>6, FS_Union
  <2>8. Cardinality(V \cap B) = 0
    BY <2>5, FS_EmptySet, Zenon
  <2>9. Cardinality(V) \in Nat /\ Cardinality(B) \in Nat
    BY <2>6, FS_CardinalityType
  <2>10. a[i] = Cardinality(V) + Cardinality(B)
    BY <1>1, <1>3, <1>4, <2>1, <2>6 DEF TotalRun
  <2>11. a[i] = Cardinality(V \cup B)
    BY <2>7, <2>8, <2>9, <2>10
  <2>12. IsFiniteSet(U[i]) /\ a[i] = Cardinality(U[i])
    BY <2>4, <2>7, <2>11, Zenon
  <2> QED
    BY <2>2, <2>12
<1>9. \A i \in 0..n : i \in T
  <2> HIDE DEF T
  <2> QED
    BY <1>7, <1>8, UpToInduction
<1>10. a[n] = Cardinality(U[n])
  BY <1>9
<1>11. U[n] = UNION {s[i].edges : i \in 1..n}
  <2>1. \A x : x \in U[n] <=> \E j \in 1..n : x \in A[j]
    BY <1>6
  <2>2. \A x : x \in U[n] <=> \E j \in 1..n : x \in s[j].edges
    BY <1>3, <2>1
  <2> QED
    BY <2>2
<1> QED
  BY <1>1, <1>4, <1>10, <1>11, Zenon

SameReach(found, x) == {y.edge : y \in {z \in found : z.distance = x.distance /\ z.edge.relation = x.edge.relation}}

GroupFor(t, found, x) == EvidenceGroup(t, x.distance, x.edge.relation, SameReach(found, x))

GroupsOf(t, found, evidence) ==
  /\ Len(evidence) \in Nat /\ DOMAIN evidence = 1..Len(evidence)
  /\ evidence \in Seq({GroupFor(t, found, x) : x \in found})
  /\ \A y : y \in {evidence[i] : i \in 1..Len(evidence)} <=> \E x \in found : y = GroupFor(t, found, x)
  /\ \A i, j \in 1..Len(evidence) : evidence[i] = evidence[j] => i = j

(* Each distance and relation has one group. (traversalEvidence)           *)
LEMMA GroupsListed ==
  ASSUME NEW t, NEW found, IsFiniteSet(found), \A x \in found : x.distance \in Nat \ {0} /\ x.edge \in Edges,
         NEW evidence, evidence = EvidenceGroups(t, found)
  PROVE  GroupsOf(t, found, evidence)
<1>1. PICK F : F = [x \in found |-> GroupFor(t, found, x)]
  OBVIOUS
<1>2. PICK G : G = {F[x] : x \in found}
  OBVIOUS
<1>3. G = {GroupFor(t, found, x) : x \in found}
  BY <1>1, <1>2
<1>4. IsFiniteSet(G)
  BY <1>2, ImageFinite
<1>5. \A y \in G : \E x \in found : y = GroupFor(t, found, x)
  BY <1>3
<1>6. PICK key : key = [y \in G |-> <<-y.score, y.distance, RelationRank[y.relation]>>]
  OBVIOUS
<1>7. evidence = Sorted(key)
  <2>1. G = {EvidenceGroup(t, x.distance, x.edge.relation,
                           {y.edge : y \in {z \in found : /\ z.distance = x.distance
                                                         /\ z.edge.relation = x.edge.relation}}) : x \in found}
    BY <1>3 DEF GroupFor, SameReach
  <2> QED
    BY <1>6, <2>1, Zenon DEF EvidenceGroups
<1>8. ASSUME NEW x \in found
      PROVE  /\ GroupFor(t, found, x).distance = x.distance /\ GroupFor(t, found, x).relation = x.edge.relation
             /\ GroupFor(t, found, x).score \in Nat
  <2>1. PICK E : E = SameReach(found, x)
    OBVIOUS
  <2>2. E \in SUBSET Edges
    BY <2>1 DEF SameReach
  <2>3. IsFiniteSet(E) /\ Cardinality(E) \in Nat
    BY <2>2, EdgesFinite, FS_Subset, FS_CardinalityType
  <2>4. PICK c \in Nat : c = Cardinality(E)
    BY <2>3
  <2>5. PICK q \in Nat : q = DistanceUnit \div x.distance
    <3>1. x.distance \in Nat \ {0} /\ DistanceUnit \in Nat
      BY InvocationAssumption
    <3> QED
      BY <3>1, DivideFacts
  <2>6. PICK w \in {1, 2} : w = IF relationFit(plan.relations, x.edge.relation) THEN 2 ELSE 1
    OBVIOUS
  <2>7. GroupFor(t, found, x).score = w * c * q
    BY <2>1, <2>4, <2>5, <2>6, Zenon DEF GroupFor, EvidenceGroup
  <2>8. w * c \in Nat
    BY <2>6
  <2>9. (w * c) * q \in Nat
    BY <2>8
  <2> QED
    BY <2>7, <2>9 DEF GroupFor, EvidenceGroup
<1>9. Keyed(key, G, 3)
  <2>1. \A y \in G : y.score \in Nat /\ y.distance \in Nat /\ y.relation \in Relations
    BY <1>5, <1>8 DEF Edges
  <2>2. \A y \in G : key[y] = <<-y.score, y.distance, RelationRank[y.relation]>>
    BY <1>6
  <2>3. \A y \in G : key[y] \in [1..3 -> Int]
    <3> SUFFICES ASSUME NEW y \in G PROVE key[y] \in [1..3 -> Int]
      OBVIOUS
    <3>1. PICK u \in Int, d \in Int, v \in Int : u = -y.score /\ d = y.distance /\ v = RelationRank[y.relation]
      <4>1. RelationRank[y.relation] \in Int /\ y.distance \in Int /\ -y.score \in Int
        BY <2>1, ReadsAssumption
      <4> QED
        BY <4>1
    <3>2. key[y] = <<u, d, v>>
      BY <2>2, <3>1
    <3> QED
      BY <3>2
  <2>4. key = [y \in G |-> key[y]]
    BY <1>6
  <2>5. key \in [G -> [1..3 -> Int]]
    BY <2>3, <2>4
  <2>6. ASSUME NEW y \in G, NEW z \in G, key[y] = key[z] PROVE y = z
    <3>1. y.distance = z.distance /\ RelationRank[y.relation] = RelationRank[z.relation]
      BY <2>2, <2>6
    <3>2. y.relation = z.relation
      BY <2>1, <3>1, ReadsAssumption
    <3>3. PICK x \in found, k \in found : y = GroupFor(t, found, x) /\ z = GroupFor(t, found, k)
      BY <1>5
    <3>4. x.distance = k.distance /\ x.edge.relation = k.edge.relation
      BY <1>8, <3>1, <3>2, <3>3
    <3> QED
      BY <3>3, <3>4 DEF GroupFor, SameReach
  <2> QED
    BY <2>5, <2>6 DEF Keyed
<1>10. Lists(evidence, G, key)
  BY <1>4, <1>7, <1>9, SortedFacts
<1>11. /\ ToSet(evidence) = G /\ \A i, j \in DOMAIN evidence : evidence[i] = evidence[j] => i = j
  BY <1>9, <1>10, ListsFacts
<1>12. evidence \in Seq(G)
  BY <1>10 DEF Lists
<1>13. Len(evidence) \in Nat /\ DOMAIN evidence = 1..Len(evidence)
  BY <1>12
<1>14. \A y : y \in {evidence[i] : i \in 1..Len(evidence)} <=> y \in G
  BY <1>11, <1>13 DEF ToSet
<1>15. \A y : y \in G <=> \E x \in found : y = GroupFor(t, found, x)
  BY <1>3
<1> QED
  BY <1>3, <1>11, <1>12, <1>13, <1>14, <1>15 DEF GroupsOf

(* Evidence that explains the nodes that are not starts.                   *)
Explained(nodes, starts, far, evidence) ==
  /\ (UNION {g.nodes : g \in ToSet(evidence)}) \ starts = nodes \ starts
  /\ \A g \in ToSet(evidence) : \A e \in g.edges : g.distance \in {far[n] : n \in {e.source, e.target} \cap (nodes \ starts)}
  /\ TotalEdges(evidence) = Cardinality(nodes \ starts)

(* What a node was reached by leads to no other.                           *)
LEMMA ReachedOnce ==
  ASSUME NEW t, Closed(t), NEW direction, NEW starts, NEW far, Spreads(t, direction, starts, far), NEW h,
         NEW m, NEW k, Arrived(t, direction, starts, far, h, m), Arrived(t, direction, starts, far, h, k), h[m].edge = h[k].edge
  PROVE  m = k
<1>1. PICK e : e = h[m].edge /\ e = h[k].edge
  OBVIOUS
<1>2. PICK n : n \in DOMAIN far /\ far[n] + 1 = far[m] /\ Leads(t, direction, n, e, m)
  BY <1>1 DEF Arrived
<1>3. PICK l : l \in DOMAIN far /\ far[l] + 1 = far[k] /\ Leads(t, direction, l, e, k)
  BY <1>1 DEF Arrived
<1>4. m \in DOMAIN far /\ k \in DOMAIN far /\ \A x \in DOMAIN far : far[x] \in Nat
  BY DEF Arrived, Spreads
<1>5. ASSUME m # k PROVE l = m /\ n = k
  <2>1. NoNode \notin t.nodes
    BY ReadsAssumption DEF Closed
  <2> QED
    BY <1>2, <1>3, <1>5, <2>1 DEF Leads, traversalNeighbor
<1> QED
  BY <1>2, <1>3, <1>4, <1>5

(* An edge is at both ends of the nodes it leads between.                  *)
LEMMA LeadsBetween ==
  ASSUME NEW t, Closed(t), NEW direction, NEW n, NEW e, NEW m, Leads(t, direction, n, e, m)
  PROVE  m \in {e.source, e.target} /\ e \in t.edges
<1>1. NoNode \notin t.nodes
  BY ReadsAssumption DEF Closed
<1> QED
  BY <1>1 DEF Leads, traversalNeighbor

(* The groups explain what was reached. (traversalEvidence)                *)
LEMMA GroupsExplain ==
  ASSUME NEW t, Closed(t), NEW direction, NEW starts \in SUBSET Nodes, NEW far, Spreads(t, direction, starts, far),
         DOMAIN far = t.nodes, NEW h, FirstMet(t, direction, starts, far, h), DOMAIN h = starts \cup t.nodes,
         NEW evidence, evidence = EvidenceGroups(t, Found(h))
  PROVE  Explained(t.nodes, starts, far, evidence)
<1>1. PICK mets : mets = t.nodes \ starts
  OBVIOUS
<1>2. \A m \in mets : Arrived(t, direction, starts, far, h, m)
  BY <1>1 DEF FirstMet
<1>3. \A m \in mets : h[m].distance = far[m] /\ far[m] \in Nat \ {0} /\ h[m].edge \in t.edges /\ h[m].edge \in Edges
                      /\ m \in {h[m].edge.source, h[m].edge.target}
  <2> SUFFICES ASSUME NEW m \in mets
               PROVE  h[m].distance = far[m] /\ far[m] \in Nat \ {0} /\ h[m].edge \in t.edges /\ h[m].edge \in Edges
                      /\ m \in {h[m].edge.source, h[m].edge.target}
    OBVIOUS
  <2>1. h[m].distance = far[m] /\ far[m] > 0 /\ far[m] \in Nat
    BY <1>2 DEF Arrived, Spreads
  <2>2. PICK n : Leads(t, direction, n, h[m].edge, m)
    BY <1>2 DEF Arrived
  <2>3. m \in {h[m].edge.source, h[m].edge.target} /\ h[m].edge \in t.edges
    BY <2>2, LeadsBetween
  <2> QED
    BY <2>1, <2>3 DEF Closed
<1>4. PICK found : found = {h[m] : m \in mets}
  OBVIOUS
<1>5. Found(h) = found
  <2>1. \A m \in starts : h[m].distance = 0
    BY DEF FirstMet
  <2>2. \A m \in DOMAIN h : h[m].distance > 0 <=> m \in mets
    BY <1>1, <1>3, <2>1
  <2>3. {m \in DOMAIN h : h[m].distance > 0} = mets
    BY <1>1, <2>2
  <2> QED
    BY <1>4, <2>3, Zenon DEF Found
<1>6. IsFiniteSet(mets)
  BY <1>1, ReadsAssumption, FS_Subset DEF Closed
<1>7. IsFiniteSet(found)
  BY <1>4, <1>6, ImageFinite
<1>8. \A x \in found : x.distance \in Nat \ {0} /\ x.edge \in Edges
  BY <1>3, <1>4
<1>9. PICK G : G = {GroupFor(t, found, x) : x \in found}
  OBVIOUS
<1>25. evidence = EvidenceGroups(t, found)
  BY <1>5, Zenon
<1>26. GroupsOf(t, found, evidence)
  BY ONLY <1>7, <1>8, <1>25, GroupsListed
<1>10. PICK n \in Nat : n = Len(evidence) /\ DOMAIN evidence = 1..n
  BY <1>26 DEF GroupsOf
<1>11. /\ evidence \in Seq(G)
       /\ \A y : y \in {evidence[i] : i \in 1..n} <=> \E x \in found : y = GroupFor(t, found, x)
       /\ \A i, j \in 1..n : evidence[i] = evidence[j] => i = j
  BY <1>9, <1>10, <1>26 DEF GroupsOf
<1>27. PICK grp : grp = [m \in mets |-> GroupFor(t, found, h[m])]
  OBVIOUS
<1>12. \A y : y \in ToSet(evidence) <=> \E m \in mets : y = grp[m]
  <2>1. \A y : y \in ToSet(evidence) <=> \E x \in found : y = GroupFor(t, found, x)
    BY <1>10, <1>11 DEF ToSet
  <2>2. \A y : (\E x \in found : y = GroupFor(t, found, x)) <=> \E m \in mets : y = GroupFor(t, found, h[m])
    BY <1>4
  <2> QED
    BY <1>27, <2>1, <2>2
<1>13. \A m \in mets : /\ grp[m].distance = far[m] /\ grp[m].relation = h[m].edge.relation
                       /\ \A e : e \in grp[m].edges <=>
                            \E k \in mets : e = h[k].edge /\ far[k] = far[m] /\ e.relation = h[m].edge.relation
                       /\ \A x : x \in grp[m].nodes <=>
                            x \in t.nodes /\ \E e \in grp[m].edges : x \in {e.source, e.target}
  <2> SUFFICES ASSUME NEW m \in mets
               PROVE /\ grp[m].distance = far[m] /\ grp[m].relation = h[m].edge.relation
                     /\ \A e : e \in grp[m].edges <=>
                          \E k \in mets : e = h[k].edge /\ far[k] = far[m] /\ e.relation = h[m].edge.relation
                     /\ \A x : x \in grp[m].nodes <=>
                          x \in t.nodes /\ \E e \in grp[m].edges : x \in {e.source, e.target}
    OBVIOUS
  <2>1. PICK E : E = SameReach(found, h[m])
    OBVIOUS
  <2>2. \A e : e \in E <=> \E k \in mets : e = h[k].edge /\ far[k] = far[m] /\ e.relation = h[m].edge.relation
    BY <1>3, <1>4, <2>1 DEF SameReach
  <2>3. PICK y : y = GroupFor(t, found, h[m])
    OBVIOUS
  <2>4. PICK D : D = UNION {{e.source, e.target} : e \in E}
    OBVIOUS
  <2>5. /\ y.distance = h[m].distance /\ y.relation = h[m].edge.relation /\ y.edges = E /\ y.nodes = D \cap t.nodes
    <3>1. y = EvidenceGroup(t, h[m].distance, h[m].edge.relation, E)
      BY <2>1, <2>3 DEF GroupFor
    <3>2. y.nodes = D \cap t.nodes
      BY <2>4, <3>1, Zenon DEF EvidenceGroup
    <3> QED
      BY <3>1, <3>2 DEF EvidenceGroup
  <2>6. \A x : x \in D <=> \E e \in E : x \in {e.source, e.target}
    BY ONLY <2>4
  <2>7. y = grp[m]
    BY <1>27, <2>3
  <2> QED
    BY <1>3, <2>2, <2>5, <2>6, <2>7
<1>14. (UNION {g.nodes : g \in ToSet(evidence)}) \ starts = mets
  <2>1. ASSUME NEW g \in ToSet(evidence), NEW x \in g.nodes, x \notin starts PROVE x \in mets
    <3>1. PICK m \in mets : g = grp[m]
      BY <1>12
    <3> QED
      BY <1>1, <1>13, <2>1, <3>1
  <2>2. ASSUME NEW m \in mets PROVE \E g \in ToSet(evidence) : m \in g.nodes
    <3>1. PICK g : g = grp[m]
      OBVIOUS
    <3>2. g \in ToSet(evidence) /\ m \in t.nodes
      BY <1>1, <1>12, <3>1
    <3>3. h[m].edge \in g.edges
      BY <1>13, <3>1
    <3>4. m \in g.nodes
      BY <1>3, <1>13, <3>1, <3>2, <3>3
    <3> QED
      BY <3>2, <3>4
  <2>3. PICK U : U = UNION {g.nodes : g \in ToSet(evidence)}
    OBVIOUS
  <2>4. \A x : x \in U <=> \E g \in ToSet(evidence) : x \in g.nodes
    BY ONLY <2>3
  <2>5. U \ starts = mets
    BY <1>1, <2>1, <2>2, <2>4
  <2> QED
    BY <2>3, <2>5, Zenon
<1>15. ASSUME NEW g \in ToSet(evidence), NEW e \in g.edges
       PROVE  g.distance \in {far[k] : k \in {e.source, e.target} \cap mets}
  <2>1. PICK m \in mets : g = grp[m]
    BY <1>12
  <2>2. PICK k \in mets : e = h[k].edge /\ far[k] = far[m]
    BY <1>13, <1>15, <2>1
  <2>3. k \in {e.source, e.target} \cap mets
    BY <1>3, <2>2
  <2> QED
    BY <1>13, <2>1, <2>2, <2>3
<1>16. PICK via : via = [m \in mets |-> h[m].edge]
  OBVIOUS
<1>17. PICK E : E = {via[m] : m \in mets}
  OBVIOUS
<1>18. \A m, k \in mets : via[m] = via[k] => m = k
  BY <1>2, <1>16, ReachedOnce
<1>19. Cardinality(E) = Cardinality(mets) /\ E \in SUBSET Edges
  <2>1. via \in Surjection(mets, E) /\ via \in Injection(mets, E)
    BY <1>16, <1>17, <1>18 DEF Surjection, Injection, IsInjective
  <2>2. Cardinality(E) = Cardinality(mets)
    BY <1>6, <2>1, FS_Surjection
  <2> QED
    BY <1>3, <1>16, <1>17, <2>2
<1>20. \A i \in 1..n : IsFiniteSet(evidence[i].edges)
  <2> SUFFICES ASSUME NEW i \in 1..n PROVE IsFiniteSet(evidence[i].edges)
    OBVIOUS
  <2>1. evidence[i] \in ToSet(evidence)
    BY <1>10 DEF ToSet
  <2>2. PICK m \in mets : evidence[i] = grp[m]
    BY <1>12, <2>1
  <2>3. evidence[i].edges \in SUBSET Edges
    BY <1>3, <1>13, <2>2
  <2> QED
    BY <2>3, EdgesFinite, FS_Subset
<1>21. ASSUME NEW i \in 1..n, NEW j \in 1..n, i # j PROVE evidence[i].edges \cap evidence[j].edges = {}
  <2>1. evidence[i] \in ToSet(evidence) /\ evidence[j] \in ToSet(evidence)
    BY <1>10 DEF ToSet
  <2>2. PICK m \in mets : evidence[i] = grp[m]
    BY <1>12, <2>1
  <2>3. PICK k \in mets : evidence[j] = grp[k]
    BY <1>12, <2>1
  <2>4. ASSUME NEW e \in evidence[i].edges, e \in evidence[j].edges PROVE FALSE
    <3>1. PICK a \in mets : e = h[a].edge /\ far[a] = far[m] /\ e.relation = h[m].edge.relation
      BY <1>13, <2>2, <2>4
    <3>2. PICK b \in mets : e = h[b].edge /\ far[b] = far[k] /\ e.relation = h[k].edge.relation
      BY <1>13, <2>3, <2>4
    <3>3. a = b
      BY <1>16, <1>18, <3>1, <3>2
    <3>4. h[m].distance = h[k].distance /\ h[m].edge.relation = h[k].edge.relation
      BY <1>3, <3>1, <3>2, <3>3
    <3>5. grp[m] = grp[k]
      BY <1>27, <3>4 DEF GroupFor, SameReach
    <3> QED
      BY <1>11, <1>21, <2>2, <2>3, <3>5
  <2> QED
    BY <2>4
<1>22. TotalEdges(evidence) = Cardinality(UNION {evidence[i].edges : i \in 1..n})
  BY <1>10, <1>11, <1>20, <1>21, TotalOfDisjoint
<1>23. UNION {evidence[i].edges : i \in 1..n} = E
  <2>1. ASSUME NEW i \in 1..n, NEW e \in evidence[i].edges PROVE e \in E
    <3>1. evidence[i] \in ToSet(evidence)
      BY <1>10 DEF ToSet
    <3>2. PICK m \in mets : evidence[i] = grp[m]
      BY <1>12, <3>1
    <3>3. PICK k \in mets : e = h[k].edge
      BY <1>13, <2>1, <3>2
    <3> QED
      BY <1>16, <1>17, <3>3
  <2>2. ASSUME NEW e \in E PROVE \E i \in 1..n : e \in evidence[i].edges
    <3>1. PICK m \in mets : e = h[m].edge
      BY <1>16, <1>17
    <3>2. PICK g : g = grp[m]
      OBVIOUS
    <3>3. g \in ToSet(evidence) /\ e \in g.edges
      BY <1>12, <1>13, <3>1, <3>2
    <3>4. PICK i \in 1..n : g = evidence[i]
      BY <1>10, <3>3 DEF ToSet
    <3> QED
      BY <3>3, <3>4
  <2> QED
    BY <2>1, <2>2
<1>24. TotalEdges(evidence) = Cardinality(mets)
  BY <1>19, <1>22, <1>23, Zenon
<1> QED
  BY <1>1, <1>14, <1>15, <1>24, Zenon DEF Explained

-----------------------------------------------------------------------------
(* Impact                                                                  *)

(* What is listed first although it is further weighs more.                *)
LEMMA FurtherWeighsMore ==
  ASSUME NEW U \in Nat \ {0}, NEW c \in Nat \ {0}, NEW d \in Nat \ {0}, U % c = 0, U % d = 0, d < c,
         NEW v \in {5, 18, 20}, NEW w \in {5, 18, 20}, w * (U \div d) < v * (U \div c)
  PROVE  \/ w = 5 /\ c < 4 * d
         \/ w = 18 /\ 9 * c < 10 * d
<1>1. PICK q \in Nat : q = U \div c /\ U = c * q
  <2>1. U \div c \in Nat /\ U = c * (U \div c) + (U % c)
    OBVIOUS
  <2>2. U = c * (U \div c)
    BY <2>1
  <2> QED
    BY <2>1, <2>2
<1>2. PICK p \in Nat : p = U \div d /\ U = d * p
  <2>1. U \div d \in Nat /\ U = d * (U \div d) + (U % d)
    OBVIOUS
  <2>2. U = d * (U \div d)
    BY <2>1
  <2> QED
    BY <2>1, <2>2
<1>3. w * p < v * q
  BY <1>1, <1>2
<1>4. PICK A \in Nat : A = d * q
  <2>1. d * q \in Nat
    OBVIOUS
  <2> QED
    BY <2>1
<1>5. w * U < v * A
  <2>1. PICK x \in Nat, y \in Nat, e \in Nat : x = v * q /\ y = w * p /\ x = y + 1 + e
    <3>1. v * q \in Nat /\ w * p \in Nat
      OBVIOUS
    <3>2. v * q - w * p - 1 \in Nat /\ v * q = w * p + 1 + (v * q - w * p - 1)
      BY <1>3, <3>1
    <3> QED
      BY <3>1, <3>2
  <2>2. d * x = d * y + d + d * e /\ d * e \in Nat /\ d * y \in Nat /\ d * x \in Nat
    BY <2>1
  <2>3. d * x = v * A
    <3>1. d * (v * q) = v * (d * q)
      OBVIOUS
    <3> QED
      BY <1>4, <2>1, <3>1
  <2>4. d * y = w * U
    <3>1. d * (w * p) = w * (d * p)
      OBVIOUS
    <3> QED
      BY <1>2, <2>1, <3>1
  <2>5. PICK a \in Nat, b \in Nat, k \in Nat : a = d * x /\ b = d * y /\ k = d * e
    BY <2>2
  <2>6. a = b + d + k
    BY <2>2, <2>5
  <2>7. b < a
    BY <2>6
  <2> QED
    BY <2>3, <2>4, <2>5, <2>7
<1>6. w * c < v * d
  <2> SUFFICES ASSUME v * d <= w * c PROVE FALSE
    OBVIOUS
  <2>1. PICK x \in Nat, y \in Nat, e \in Nat : x = v * d /\ y = w * c /\ y = x + e
    <3>1. v * d \in Nat /\ w * c \in Nat
      OBVIOUS
    <3>2. w * c - v * d \in Nat /\ w * c = v * d + (w * c - v * d)
      BY <3>1
    <3> QED
      BY <3>1, <3>2
  <2>2. y * q = x * q + e * q /\ e * q \in Nat /\ x * q \in Nat /\ y * q \in Nat
    BY <2>1
  <2>3. y * q = w * U
    <3>1. (w * c) * q = w * (c * q)
      OBVIOUS
    <3> QED
      BY <1>1, <2>1, <3>1
  <2>4. x * q = v * A
    <3>1. (v * d) * q = v * (d * q)
      OBVIOUS
    <3> QED
      BY <1>4, <2>1, <3>1
  <2>5. PICK a \in Nat, b \in Nat, k \in Nat : a = y * q /\ b = x * q /\ k = e * q
    BY <2>2
  <2>6. a = b + k
    BY <2>2, <2>5
  <2> QED
    BY <1>5, <2>3, <2>4, <2>5, <2>6
<1> QED
  BY <1>6

(* Impacts in the order of the evidence.                                   *)
Ranks(nodes, edges, starts, far, impact) ==
  /\ {impact[i].node : i \in DOMAIN impact} = nodes \ starts
  /\ Len(impact) = Cardinality(nodes \ starts)
  /\ \A i \in DOMAIN impact : impact[i].distance = far[impact[i].node]
  /\ \A i, j \in DOMAIN impact :
       i < j /\ impact[i].distance > impact[j].distance =>
         \/ /\ \E e \in edges : e.source = impact[j].node /\ e.relation = generic("contains")
            /\ impact[i].distance < 4 * impact[j].distance
         \/ /\ \E e \in edges : e.source = impact[j].node /\ e.relation = generic("implements")
            /\ 9 * impact[i].distance < 10 * impact[j].distance

(* What a change affects is listed once each. (rankImpactEvidence)         *)
LEMMA HitsRank ==
  ASSUME NEW t, Closed(t), NEW starts \in SUBSET Nodes, NEW far, Spreads(t, "incoming", starts, far),
         DOMAIN far = t.nodes, NEW h, FirstMet(t, "incoming", starts, far, h), DOMAIN h = starts \cup t.nodes,
         NEW impact, impact = ImpactHits(t, h)
  PROVE  Ranks(t.nodes, t.edges, starts, far, impact)
<1>1. PICK mets : mets = t.nodes \ starts
  OBVIOUS
<1>2. \A m \in mets : Arrived(t, "incoming", starts, far, h, m)
  BY <1>1 DEF FirstMet
<1>3. \A m \in mets : h[m].distance = far[m] /\ far[m] \in Nat \ {0} /\ far[m] \in 1..Cardinality(Nodes)
                      /\ h[m].edge \in t.edges /\ h[m].edge.source = m
  <2> SUFFICES ASSUME NEW m \in mets
               PROVE  h[m].distance = far[m] /\ far[m] \in Nat \ {0} /\ far[m] \in 1..Cardinality(Nodes)
                      /\ h[m].edge \in t.edges /\ h[m].edge.source = m
    OBVIOUS
  <2>1. h[m].distance = far[m] /\ far[m] > 0 /\ far[m] \in Nat /\ far[m] <= Cardinality(Nodes)
    BY <1>2 DEF Arrived, Spreads
  <2>2. PICK n : Leads(t, "incoming", n, h[m].edge, m)
    BY <1>2 DEF Arrived
  <2>3. NoNode \notin t.nodes
    BY ReadsAssumption DEF Closed
  <2>4. h[m].edge \in t.edges /\ h[m].edge.source = m
    BY <2>2, <2>3 DEF Leads, traversalNeighbor
  <2> QED
    BY <2>1, <2>4, NodesCounted
<1>4. PICK score : score = [m \in mets |-> impactScore(h[m].edge.relation, far[m])]
  OBVIOUS
<1>5. PICK hit : hit = [m \in mets |-> [node |-> m, distance |-> far[m], score |-> score[m]]]
  OBVIOUS
<1>6. PICK hits : hits = {hit[m] : m \in mets}
  OBVIOUS
<1>7. PICK key : key = [x \in hits |-> <<-x.score, x.distance, x.node>>]
  OBVIOUS
<1>8. impact = Sorted(key)
  <2>1. \A m \in starts : h[m].distance = 0
    BY DEF FirstMet
  <2>2. \A m \in DOMAIN h \cap t.nodes : h[m].distance > 0 <=> m \in mets
    BY <1>1, <1>3, <2>1
  <2>3. {m \in DOMAIN h \cap t.nodes : h[m].distance > 0} = mets
    BY <1>1, <2>2
  <2>4. \A m \in mets : hit[m] = [node |-> m, distance |-> h[m].distance,
                              score |-> impactScore(h[m].edge.relation, h[m].distance)]
    BY <1>3, <1>4, <1>5
  <2>5. hits = {[node |-> m, distance |-> h[m].distance, score |-> impactScore(h[m].edge.relation, h[m].distance)] : m \in mets}
    BY <1>6, <2>4
  <2>6. hits = {[node |-> m, distance |-> h[m].distance, score |-> impactScore(h[m].edge.relation, h[m].distance)]
                  : m \in {k \in DOMAIN h \cap t.nodes : h[k].distance > 0}}
    BY <2>3, <2>5, Zenon
  <2> QED
    BY <1>7, <2>6, Zenon DEF ImpactHits
<1>9. PICK weight : weight = [m \in mets |-> impactRelationWeight(h[m].edge.relation)]
  OBVIOUS
<1>10. \A m \in mets : /\ weight[m] \in {5, 18, 20}
                       /\ weight[m] = 5 => h[m].edge.relation = generic("contains")
                       /\ weight[m] = 18 => h[m].edge.relation = generic("implements")
  BY <1>9 DEF impactRelationWeight
<1>11. \A m \in mets : DistanceUnit \div far[m] \in Nat /\ DistanceUnit % far[m] = 0
  BY <1>3, InvocationAssumption, DivideFacts
<1>12. \A m \in mets : score[m] = weight[m] * (DistanceUnit \div far[m])
  BY <1>4, <1>9 DEF impactScore
<1>13. \A m \in mets : score[m] \in Nat
  BY <1>10, <1>11, <1>12
<1>14. \A m \in mets : hit[m].node = m /\ hit[m].distance = far[m] /\ hit[m].score = score[m]
  BY <1>5
<1>15. \A x \in hits : x.node \in mets /\ x = hit[x.node] /\ x.distance = far[x.node] /\ x.score = score[x.node]
  BY <1>6, <1>14
<1>16. mets \in SUBSET Nodes /\ IsFiniteSet(mets)
  BY <1>1, ReadsAssumption, FS_Subset DEF Closed
<1>17. Keyed(key, hits, 3)
  <2>1. \A x \in hits : key[x] = <<-x.score, x.distance, x.node>>
    BY <1>7
  <2>2. \A x \in hits : key[x] \in [1..3 -> Int]
    <3> SUFFICES ASSUME NEW x \in hits PROVE key[x] \in [1..3 -> Int]
      OBVIOUS
    <3>1. x.score \in Nat /\ x.distance \in Nat /\ x.node \in Nat
      BY <1>3, <1>13, <1>15, <1>16, ReadsAssumption
    <3>2. PICK u \in Int, d \in Int, n \in Int : u = -x.score /\ d = x.distance /\ n = x.node
      BY <3>1
    <3>3. key[x] = <<u, d, n>>
      BY <2>1, <3>2
    <3> QED
      BY <3>3
  <2>3. key = [x \in hits |-> key[x]]
    BY <1>7
  <2>4. key \in [hits -> [1..3 -> Int]]
    BY <2>2, <2>3
  <2>5. ASSUME NEW x \in hits, NEW y \in hits, key[x] = key[y] PROVE x = y
    <3>1. x.node = y.node
      BY <2>1, <2>5
    <3> QED
      BY <1>15, <3>1
  <2> QED
    BY <2>4, <2>5 DEF Keyed
<1>18. IsFiniteSet(hits)
  BY <1>6, <1>16, ImageFinite
<1>19. Lists(impact, hits, key)
  BY <1>8, <1>17, <1>18, SortedFacts
<1>20. /\ {impact[i] : i \in DOMAIN impact} = hits /\ Len(impact) = Cardinality(hits)
       /\ \A i, j \in DOMAIN impact : i < j => KeyBefore(key[impact[i]], key[impact[j]])
  BY <1>19 DEF Lists
<1>21. Cardinality(hits) = Cardinality(mets)
  <2>1. hit \in Surjection(mets, hits) /\ hit \in Injection(mets, hits)
    BY <1>5, <1>6, <1>14 DEF Surjection, Injection, IsInjective
  <2> QED
    BY <1>16, <2>1, FS_Surjection
<1>22. {impact[i].node : i \in DOMAIN impact} = mets
  <2>1. \A i \in DOMAIN impact : impact[i].node \in mets
    BY <1>15, <1>20
  <2>2. \A m \in mets : \E i \in DOMAIN impact : impact[i].node = m
    <3> SUFFICES ASSUME NEW m \in mets PROVE \E i \in DOMAIN impact : impact[i].node = m
      OBVIOUS
    <3>1. hit[m] \in hits
      BY <1>6
    <3>2. PICK i \in DOMAIN impact : impact[i] = hit[m]
      BY <1>20, <3>1
    <3> QED
      BY <1>14, <3>2
  <2> QED
    BY <2>1, <2>2
<1>23. \A i \in DOMAIN impact : impact[i] \in hits /\ impact[i].distance = far[impact[i].node]
  BY <1>15, <1>20
<1>24. ASSUME NEW i \in DOMAIN impact, NEW j \in DOMAIN impact, i < j, impact[i].distance > impact[j].distance
       PROVE  \/ /\ \E e \in t.edges : e.source = impact[j].node /\ e.relation = generic("contains")
                 /\ impact[i].distance < 4 * impact[j].distance
              \/ /\ \E e \in t.edges : e.source = impact[j].node /\ e.relation = generic("implements")
                 /\ 9 * impact[i].distance < 10 * impact[j].distance
  <2>1. PICK x \in hits, y \in hits : x = impact[i] /\ y = impact[j]
    BY <1>23
  <2>2. PICK m \in mets, k \in mets : m = x.node /\ k = y.node
    BY <1>15
  <2>3. x.distance = far[m] /\ y.distance = far[k] /\ x.score = score[m] /\ y.score = score[k]
    BY <1>15, <2>2
  <2>4. KeyBefore(<<-score[m], far[m], m>>, <<-score[k], far[k], k>>)
    BY <1>7, <1>20, <1>24, <2>1, <2>2, <2>3
  <2>5. far[k] < far[m] /\ far[m] \in Nat \ {0} /\ far[k] \in Nat \ {0} /\ score[m] \in Nat /\ score[k] \in Nat
    BY <1>3, <1>13, <1>24, <2>1, <2>3
  <2>6. score[k] < score[m]
    <3>1. PICK a, b, u, v : a = -score[m] /\ b = -score[k] /\ u = far[m] /\ v = far[k]
      OBVIOUS
    <3>2. a \in Int /\ b \in Int /\ u \in Int /\ v \in Int /\ v < u
      BY <2>5, <3>1
    <3>3. PICK l \in 1..3 : <<a, u, m>>[l] < <<b, v, k>>[l] /\ \A o \in 1..(l - 1) : <<a, u, m>>[o] = <<b, v, k>>[o]
      BY <2>4, <3>1 DEF KeyBefore
    <3>4. CASE l = 1
      BY <2>5, <3>1, <3>2, <3>3, <3>4
    <3>5. CASE l = 2
      BY <3>2, <3>3, <3>5
    <3>6. CASE l = 3
      <4>1. 2 \in 1..(l - 1)
        BY <3>6
      <4>2. u = v
        BY <3>3, <4>1
      <4> QED
        BY <3>2, <4>2
    <3> QED
      BY <3>4, <3>5, <3>6
  <2>7. PICK U \in Nat \ {0} : U = DistanceUnit
    BY InvocationAssumption
  <2>8. PICK c \in Nat \ {0}, d \in Nat \ {0} : c = far[m] /\ d = far[k] /\ d < c /\ U % c = 0 /\ U % d = 0
    BY <1>11, <2>5, <2>7
  <2>9. PICK v \in {5, 18, 20}, w \in {5, 18, 20} : v = weight[m] /\ w = weight[k]
    BY <1>10
  <2>10. w * (U \div d) < v * (U \div c)
    BY <1>12, <2>6, <2>7, <2>8, <2>9
  <2>11. \/ w = 5 /\ c < 4 * d
         \/ w = 18 /\ 9 * c < 10 * d
    BY <2>8, <2>10, FurtherWeighsMore
  <2>12. h[k].edge \in t.edges /\ h[k].edge.source = k
    BY <1>3
  <2>13. /\ w = 5 => h[k].edge.relation = generic("contains")
         /\ w = 18 => h[k].edge.relation = generic("implements")
    BY <1>10, <2>9
  <2>14. impact[i].distance = c /\ impact[j].distance = d /\ impact[j].node = k
    BY <2>1, <2>2, <2>3, <2>8
  <2> QED
    BY <2>11, <2>12, <2>13, <2>14
<1> QED
  <2>1. Len(impact) = Cardinality(mets)
    BY <1>20, <1>21
  <2> QED
    BY <1>1, <1>22, <1>23, <1>24, <2>1 DEF Ranks

(* All that a traversal returns is reached over its own facts,             *)
LEMMA FactsReached ==
  ASSUME NEW g \in Graphs, NEW r, r.direction \in {"outgoing", "incoming", "both"}, r.maxDepth \in Nat,
         NEW t, TraversalOf(g, r, t), t.at = "done", Kept(g, r, t)
  PROVE  /\ Facts(t) \in Graphs /\ Closed(t) /\ t.nodes \subseteq Reaches(g, r)
         /\ Reaches(Facts(t), Free(r)) = t.nodes
<1>1. t.nodes \in SUBSET g.nodes /\ t.edges \in SUBSET g.edges /\ \A e \in t.edges : e.source \in t.nodes /\ e.target \in t.nodes
  BY DEF TraversalOf, TraversalsOf
<1>2. Facts(t) \in Graphs
  BY <1>1, FactsGraph
<1>3. Closed(t)
  BY <1>1 DEF Closed, Graphs
<1>4. t.nodes \subseteq Reaches(g, r)
  <2>1. t.nodes \subseteq Reach(g, r, r.maxDepth)
    BY DEF TraversalOf
  <2> QED
    BY <2>1, ReachEnds
<1>5. t.nodes \subseteq Reaches(Facts(t), Free(r))
  BY <1>4, NodesCounted DEF Kept, Reaches
<1>6. Facts(t).nodes = t.nodes
  BY DEF Facts
<1>7. Reaches(Facts(t), Free(r)) \subseteq t.nodes
  BY <1>2, <1>6, NodesCounted, ReachFacts DEF Reaches
<1> QED
  BY <1>2, <1>3, <1>4, <1>5, <1>7

(* and, backwards, as far away as it is in the graph.                      *)
LEMMA FactsDistance ==
  ASSUME NEW g \in Graphs, NEW r, r.direction = "incoming", r.maxDepth \in Nat,
         NEW t, TraversalOf(g, r, t), t.at = "done", Kept(g, r, t)
  PROVE  \A n \in t.nodes : Distance(Facts(t), Free(r), n) = Distance(g, r, n)
<1>1. PICK f, q : f \in Graphs /\ f = Facts(t) /\ q = Free(r)
  BY FactsReached
<1>2. f.nodes = t.nodes /\ f.edges = t.edges /\ q.direction = "incoming"
      /\ q.projects = {} /\ q.relations = {} /\ q.starts = r.starts
  BY <1>1 DEF Facts, Free
<1>3. Closed(t) /\ t.nodes \subseteq Reaches(g, r) /\ Reaches(f, q) = t.nodes
  BY <1>1, FactsReached
<1>4. t.nodes \subseteq g.nodes /\ t.edges \subseteq g.edges
  BY DEF TraversalOf, TraversalsOf
<1>5. \A n, e, m : LinksTo(f, q, n, e, m) <=> m \in t.nodes /\ traversalNeighbor(n, e, "incoming") = m
  BY <1>2 DEF LinksTo, Allows
<1>6. ASSUME NEW n \in t.nodes, NEW e \in t.edges, NEW m, LinksTo(f, q, n, e, m)
      PROVE  InScope(g, r.projects, n) /\ LinksTo(g, r, n, e, m)
  <2>1. NoNode \notin t.nodes
    BY <1>3, ReadsAssumption DEF Closed
  <2>2. e.target = n /\ e.source = m /\ m \in t.nodes
    BY <1>5, <1>6, <2>1 DEF traversalNeighbor
  <2>3. PICK k \in t.nodes, l \in t.nodes : InScope(g, r.projects, k) /\ LinksTo(g, r, k, e, l)
    BY DEF Kept
  <2>4. e.target = k /\ e.source = l
    BY <2>1, <2>3 DEF LinksTo, traversalNeighbor
  <2> QED
    BY <2>2, <2>3, <2>4
<1> DEFINE T == {d \in Nat : Reach(f, q, d) \subseteq Reach(g, r, d)}
<1>7. 0 \in T
  <2>1. Reach(f, q, 0) = q.starts \cap f.nodes /\ Reach(g, r, 0) = r.starts \cap g.nodes
    BY <1>1, ReachFacts
  <2> QED
    BY <1>2, <1>4, <2>1
<1>8. ASSUME NEW d \in Nat, d \in T PROVE d + 1 \in T
  <2>1. PICK X \in SUBSET f.nodes : X = Reach(f, q, d) /\ Reach(f, q, d + 1) = WalkFurther(f, q, X)
    BY <1>1, ReachFacts
  <2>2. PICK Y \in SUBSET g.nodes : Y = Reach(g, r, d) /\ Reach(g, r, d + 1) = WalkFurther(g, r, Y)
    BY ReachFacts
  <2>3. X \subseteq Y
    BY <1>8, <2>1, <2>2
  <2>4. \A m : m \in WalkFurther(f, q, X) <=>
               m \in X \/ \E n \in X : InScope(f, q.projects, n) /\ \E e \in f.edges : LinksTo(f, q, n, e, m)
    <3>1. q.direction \in {"outgoing", "incoming", "both"} /\ f \in Graphs
      BY <1>1, <1>2
    <3> QED
      BY <3>1, FurtherLinks
  <2>5. \A m : m \in WalkFurther(g, r, Y) <=>
               m \in Y \/ \E n \in Y : InScope(g, r.projects, n) /\ \E e \in g.edges : LinksTo(g, r, n, e, m)
    BY FurtherLinks
  <2>6. \A m : m \in WalkFurther(f, q, X) => m \in WalkFurther(g, r, Y)
    BY <1>2, <1>4, <1>6, <2>3, <2>4, <2>5
  <2> QED
    BY <2>1, <2>2, <2>6
<1>9. \A d \in Nat : d \in T
  <2> HIDE DEF T
  <2> QED
    BY <1>7, <1>8, NatInductionOn
<1>10. ASSUME NEW n \in t.nodes PROVE Distance(f, q, n) = Distance(g, r, n)
  <2>1. PICK x \in Nat : x = Distance(f, q, n) /\ \A d \in Nat : n \in Reach(f, q, d) <=> x <= d
    BY <1>1, <1>3, DistanceFacts
  <2>2. PICK y \in Nat : y = Distance(g, r, n) /\ \A d \in Nat : n \in Reach(g, r, d) <=> y <= d
    BY <1>3, DistanceFacts
  <2>3. y <= x
    BY <1>9, <2>1, <2>2
  <2>4. x <= y
    <3>1. n \in Reach(g, r, y)
      BY <2>2
    <3>2. n \in Reach(f, q, y)
      BY <1>1, <3>1 DEF Kept
    <3> QED
      BY <2>1, <3>2
  <2> QED
    BY <2>1, <2>2, <2>3, <2>4
<1> QED
  BY <1>1, <1>10

(* The distances of the answer of a traversal are those over its facts.    *)
LEMMA EvidenceTold ==
  ASSUME NEW g \in Graphs, NEW r, r.direction \in {"outgoing", "incoming", "both"}, r.maxDepth \in Nat, r.starts \in SUBSET Nodes,
         NEW t, TraversalOf(g, r, t), t.at = "done", Kept(g, r, t),
         NEW order \in Seq(Nodes), ToSet(order) = r.starts,
         NEW far, far = [n \in t.nodes |-> Distance(Facts(t), Free(r), n)],
         NEW h, h = firstReaches(order, sortedEdges(t.edges), r.direction)
  PROVE  /\ Explained(t.nodes, r.starts, far, EvidenceGroups(t, Found(h)))
         /\ r.direction = "incoming" => Ranks(t.nodes, t.edges, r.starts, far, ImpactHits(t, h))
<1>1. PICK f, q : f \in Graphs /\ f = Facts(t) /\ q = Free(r)
  BY FactsReached
<1>2. f.nodes = t.nodes /\ f.edges = t.edges /\ q.direction = r.direction
      /\ q.projects = {} /\ q.relations = {} /\ q.starts = r.starts
  BY <1>1 DEF Facts, Free
<1>3. Closed(t) /\ Reaches(f, q) = t.nodes
  BY <1>1, FactsReached
<1>4. far = [n \in Reaches(f, q) |-> Distance(f, q, n)]
  BY <1>1, <1>3, Zenon
<1>5. Spreads(f, q.direction, q.starts, far)
  <2>1. f \in Graphs /\ q.direction \in {"outgoing", "incoming", "both"}
    BY <1>1, <1>2
  <2> QED
    BY <1>2, <1>4, <2>1, DistancesLayered
<1>6. PICK direction, starts : direction = r.direction /\ starts = r.starts
  OBVIOUS
<1>7. Spreads(t, direction, starts, far) /\ DOMAIN far = t.nodes
  <2>1. DOMAIN far = t.nodes
    OBVIOUS
  <2>2. Spreads(f, direction, starts, far)
    BY <1>2, <1>5, <1>6
  <2>3. f.nodes = t.nodes
    BY <1>2
  <2>4. \A n, e, m : Leads(f, direction, n, e, m) <=> Leads(t, direction, n, e, m)
    BY <1>2 DEF Leads
  <2> QED
    BY ONLY <2>1, <2>2, <2>3, <2>4 DEF Spreads
<1>8. PICK edges \in Seq(t.edges) : edges = sortedEdges(t.edges) /\ ToSet(edges) = t.edges
  <2>1. t.edges \in SUBSET Edges
    BY <1>3 DEF Closed
  <2> QED
    BY <2>1, SortedEdgesFacts
<1>9. h = firstReaches(order, edges, direction) /\ starts \in SUBSET Nodes /\ ToSet(order) = starts
  BY <1>6, <1>8
<1>10. FirstMet(t, direction, starts, far, h) /\ starts \subseteq DOMAIN h /\ DOMAIN far \subseteq DOMAIN h
  BY ONLY <1>3, <1>7, <1>8, <1>9, order \in Seq(Nodes), FirstReachesFacts
<1>11. DOMAIN h = starts \cup t.nodes
  BY <1>7, <1>10 DEF FirstMet, Arrived
<1>12. Explained(t.nodes, starts, far, EvidenceGroups(t, Found(h)))
  BY ONLY <1>3, <1>7, <1>9, <1>10, <1>11, GroupsExplain
<1>13. ASSUME direction = "incoming" PROVE Ranks(t.nodes, t.edges, starts, far, ImpactHits(t, h))
  <2>1. Spreads(t, "incoming", starts, far) /\ FirstMet(t, "incoming", starts, far, h)
    BY <1>7, <1>10, <1>13
  <2> QED
    BY ONLY <1>3, <1>7, <1>9, <1>11, <2>1, HitsRank
<1> QED
  BY <1>6, <1>12, <1>13

-----------------------------------------------------------------------------
(* The evidence of the answers in the state                                *)

(* How far a request leads does not depend on its limits.                  *)
LEMMA DistanceSame ==
  ASSUME NEW g \in Graphs, NEW r, NEW s, SameWalks(r, s), r.direction \in {"outgoing", "incoming", "both"},
         NEW n \in Reaches(g, r)
  PROVE  Distance(g, r, n) = Distance(g, s, n)
<1>1. \A d \in Nat : Reach(g, r, d) = Reach(g, s, d)
  BY ReachSame
<1>2. n \in Reaches(g, s)
  BY <1>1, NodesCounted DEF Reaches
<1>3. PICK x \in Nat : x = Distance(g, r, n) /\ \A d \in Nat : n \in Reach(g, r, d) <=> x <= d
  BY DistanceFacts
<1>4. PICK y \in Nat : y = Distance(g, s, n) /\ \A d \in Nat : n \in Reach(g, s, d) <=> y <= d
  BY <1>2, DistanceFacts
<1>5. \A d \in Nat : x <= d <=> y <= d
  BY <1>1, <1>3, <1>4
<1>6. x = y
  BY <1>5
<1> QED
  BY <1>3, <1>4, <1>6

(* Over an answer, each node lies as far from the starts as this.          *)
FarOver(r, answer) == [n \in answer.nodes |-> Distance(Facts(answer), Free(r), n)]

(* The evidence of an answer, and what an impact lists.                    *)
Evident(g, r, operator, answer) ==
  /\ Facts(answer) \in Graphs /\ Reaches(Facts(answer), Free(r)) = answer.nodes
  /\ Explained(answer.nodes, r.starts, FarOver(r, answer), answer.evidence)
  /\ operator = "impact" =>
       /\ answer.nodes \subseteq Reaches(g, r)
       /\ \A n \in answer.nodes : FarOver(r, answer)[n] = Distance(g, r, n)
       /\ Ranks(answer.nodes, answer.edges, r.starts, FarOver(r, answer), answer.impact)

(* The answer of a traversal carries its evidence.                         *)
LEMMA TraversalEvident ==
  ASSUME NEW g \in Graphs, NEW r, r.direction \in {"outgoing", "incoming", "both"}, r.maxDepth \in Nat, r.starts \in SUBSET Nodes,
         NEW t, TraversalOf(g, r, t), t.at = "done", Kept(g, r, t),
         StartOrder \in Seq(Nodes), ToSet(StartOrder) = r.starts,
         plan # NoPlan, plan.direction = r.direction, plan.operator = "impact" => r.direction = "incoming",
         NEW answer, answer = TraversalResult(t)
  PROVE  Evident(g, r, plan.operator, answer)
<1>1. /\ answer.nodes = t.nodes /\ answer.edges = t.edges /\ answer.evidence = traversalEvidence(t)
      /\ plan.operator = "impact" => answer.impact = rankImpactEvidence(t)
  BY DEF TraversalResult, NoResult
<1>2. PICK far : far = [n \in t.nodes |-> Distance(Facts(t), Free(r), n)]
  OBVIOUS
<1>3. PICK order \in Seq(Nodes) : order = StartOrder /\ ToSet(order) = r.starts
  OBVIOUS
<1>4. PICK h : h = firstReaches(order, sortedEdges(t.edges), r.direction)
  OBVIOUS
<1>5. /\ Explained(t.nodes, r.starts, far, EvidenceGroups(t, Found(h)))
      /\ r.direction = "incoming" => Ranks(t.nodes, t.edges, r.starts, far, ImpactHits(t, h))
  BY ONLY g \in Graphs, r.direction \in {"outgoing", "incoming", "both"}, r.maxDepth \in Nat, r.starts \in SUBSET Nodes,
          TraversalOf(g, r, t), t.at = "done", Kept(g, r, t), <1>2, <1>3, <1>4, EvidenceTold
<1>6. traversalEvidence(t) = EvidenceGroups(t, Found(h))
  BY <1>3, <1>4 DEF traversalEvidence
<1>7. plan.operator = "impact" => rankImpactEvidence(t) = ImpactHits(t, h)
  BY <1>3, <1>4 DEF rankImpactEvidence
<1>8. Facts(answer) = Facts(t)
  BY <1>1 DEF Facts
<1>9. FarOver(r, answer) = far
  BY <1>1, <1>2, <1>8 DEF FarOver
<1>10. Facts(answer) \in Graphs /\ Reaches(Facts(answer), Free(r)) = answer.nodes /\ answer.nodes \subseteq Reaches(g, r)
  BY <1>1, <1>8, FactsReached
<1>11. Explained(answer.nodes, r.starts, far, answer.evidence)
  BY <1>1, <1>5, <1>6
<1>12. ASSUME plan.operator = "impact"
       PROVE  /\ \A n \in answer.nodes : far[n] = Distance(g, r, n)
              /\ Ranks(answer.nodes, answer.edges, r.starts, far, answer.impact)
  <2>1. r.direction = "incoming"
    BY <1>12
  <2>2. \A n \in t.nodes : Distance(Facts(t), Free(r), n) = Distance(g, r, n)
    BY <2>1, FactsDistance
  <2>3. \A n \in answer.nodes : far[n] = Distance(g, r, n)
    BY <1>1, <1>2, <2>2
  <2>4. Ranks(t.nodes, t.edges, r.starts, far, ImpactHits(t, h))
    BY <1>5, <2>1
  <2>5. answer.impact = ImpactHits(t, h)
    BY <1>1, <1>7, <1>12
  <2> QED
    BY <1>1, <2>3, <2>4, <2>5
<1> QED
  BY <1>9, <1>10, <1>11, <1>12 DEF Evident

EvidenceInv ==
  at = "done" /\ run.command = "query" /\ FromWalk /\ plan # NoPlan =>
    Evident(snapshot, PlanRequest, plan.operator, result)

(* The answer of a traversal carries the evidence of the request of the    *)
(* plan.                                                                   *)
LEMMA EvidenceTraversalStep ==
  ASSUME QueryInv, AnswerTraversal
  PROVE  EvidenceInv'
<1>1. /\ run' = run /\ snapshot' = snapshot /\ seeds' = seeds /\ plan' = plan /\ run.command = "query"
      /\ ~EndsWithSeeds /\ (plan = NoPlan \/ plan.operator \notin {"path", "intersection"}) /\ at = "answer"
      /\ result' = TraversalResult(Traverse(snapshot, PlanRequest))
  BY AnswerFacts DEF AnswerTraversal, Finish
<1>2. snapshot \in Graphs
  BY DEF QueryInv, CommandInv
<1>3. PICK r : r = PlanRequest
  OBVIOUS
<1>4. /\ r.starts \in SUBSET Nodes /\ r.starts = StartNodes /\ r.maxNodes \in Nat /\ r.maxDepth \in Nat
      /\ r.direction \in {"outgoing", "incoming", "both"}
  BY <1>1, <1>3, AskedFacts, StartsFacts
<1>5. PICK t, answer : t = Traverse(snapshot, r) /\ answer = TraversalResult(t)
  OBVIOUS
<1>6. result' = answer
  BY <1>1, <1>3, <1>5
<1>7. PlanRequest' = r
  BY <1>1, <1>3, AnswerFrozen
<1>8. CASE t.at = "error"
  <2>1. answer.error = "scope"
    BY <1>5, <1>8 DEF TraversalResult, Failed, NoResult
  <2>2. ~FromWalk'
    BY <1>6, <2>1 DEF FromWalk
  <2> QED
    BY <2>2 DEF EvidenceInv
<1>9. CASE plan = NoPlan
  BY <1>1, <1>9 DEF EvidenceInv
<1>10. CASE t.at # "error" /\ plan # NoPlan
  <2>1. TraversalOf(snapshot, r, t)
    BY <1>2, <1>4, <1>5, TraverseFacts
  <2>2. t.at = "done"
    BY <1>10, <2>1 DEF TraversalOf
  <2>3. Kept(snapshot, r, t)
    BY <1>2, <1>4, <1>5, <1>10, TraverseKept
  <2>4. seeds = Ranked /\ PlanOK(plan)
    BY <1>1, <1>10 DEF QueryInv, SeedsInv, CommandInv
  <2>5. StartOrder \in Seq(Nodes) /\ ToSet(StartOrder) = r.starts
    BY <1>4, <1>10, <2>4, StartOrderFacts
  <2>6. plan.direction = r.direction /\ (plan.operator = "impact" => r.direction = "incoming")
    <3>1. SameWalks(PlanRequest, Asked)
      BY <1>1, AskedFacts
    <3>2. Asked.direction = plan.direction
      BY <1>10 DEF Asked
    <3>3. plan.operator = "impact" => plan.direction = "incoming"
      BY <2>4 DEF PlanOK
    <3> QED
      BY <1>3, <3>1, <3>2, <3>3 DEF SameWalks
  <2>7. Evident(snapshot, r, plan.operator, answer)
    BY <1>2, <1>4, <1>5, <1>10, <2>1, <2>2, <2>3, <2>5, <2>6, TraversalEvident
  <2> QED
    BY <1>1, <1>6, <1>7, <2>7 DEF EvidenceInv
<1> QED
  BY <1>8, <1>9, <1>10

(* At first nothing is answered,                                           *)
LEMMA EvidenceInit == Init => EvidenceInv
BY DEF Init, EvidenceInv

(* and nothing takes the evidence of an answer away.                       *)
LEMMA EvidenceStep ==
  ASSUME QueryInv, EvidenceInv, [Next]_vars
  PROVE  EvidenceInv'
<1>1. CASE UNCHANGED vars
  <2>1. /\ run' = run /\ snapshot' = snapshot /\ seeds' = seeds /\ plan' = plan
        /\ at' = at /\ result' = result
    BY <1>1 DEF vars, plannerVars, answerVars
  <2>2. PlanRequest' = PlanRequest /\ (EndsWithSeeds' <=> EndsWithSeeds)
    BY <2>1, AnswerFrozen
  <2>3. FromWalk' <=> FromWalk
    BY <2>1, <2>2 DEF FromWalk
  <2> QED
    BY <2>1, <2>2, <2>3 DEF EvidenceInv
<1>2. CASE Republish \/ OpenSnapshot \/ RankSeeds
  <2>1. at' # "done"
    BY <1>2 DEF Republish, OpenSnapshot, RankSeeds, plannerVars
  <2> QED
    BY <2>1 DEF EvidenceInv
<1>3. CASE PathCommand \/ InspectCommand \/ ExportCommand
  <2>1. run' = run /\ run.command \in {"path", "inspect", "export"}
    BY <1>3 DEF PathCommand, InspectCommand, ExportCommand, Finish
  <2> QED
    BY <2>1 DEF EvidenceInv
<1>4. CASE PlanQuery
  <2>1. seeds' = seeds /\ at \in {"start", "ollama", "claude", "copilot"}
    BY <1>4, PlanningFacts
  <2>2. DOMAIN seeds' = {}
    BY <2>1 DEF QueryInv, SeedsInv
  <2>3. StartNodes' = {}
    BY <2>2 DEF StartNodes
  <2> QED
    BY <2>3 DEF EvidenceInv, FromWalk, EndsWithSeeds
<1>5. CASE AnswerSeeds \/ AnswerCatalog
  <2>1. EndsWithSeeds
    <3>1. CASE AnswerSeeds
      BY <3>1 DEF AnswerSeeds
    <3>2. CASE AnswerCatalog
      <4>1. at = "catalog"
        BY <3>2 DEF AnswerCatalog
      <4>2. seeds = <<>> \/ EndsWithSeeds
        BY <4>1 DEF QueryInv, ResultInv
      <4> QED
        BY <4>2, NoSeedsEnd
    <3> QED
      BY <1>5, <3>1, <3>2
  <2>2. EndsWithSeeds'
    BY <1>5, <2>1, AnswerFacts, Frozen
  <2> QED
    BY <2>2 DEF EvidenceInv, FromWalk
<1>6. CASE AnswerTraversal
  BY <1>6, EvidenceTraversalStep
<1>7. CASE AnswerPath \/ AnswerIntersection
  <2>1. plan' = plan /\ plan # NoPlan /\ plan.operator \in {"path", "intersection"}
    BY <1>7 DEF AnswerPath, AnswerIntersection, Finish
  <2> QED
    BY <2>1 DEF EvidenceInv, FromWalk
<1> QED
  BY <1>1, <1>2, <1>3, <1>4, <1>5, <1>6, <1>7 DEF Next

(* The evidence of the request of the plan is that of what was asked.      *)
LEMMA EvidenceAnswered == QueryInv /\ EvidenceInv => EvidenceSound
<1> SUFFICES ASSUME QueryInv, EvidenceInv, Traversed, plan # NoPlan PROVE EvidenceSound
  BY DEF EvidenceSound, EvidenceExplains, ImpactNearestFirst
<1>1. /\ at = "done" /\ run.command = "query" /\ result.error = "none" /\ ~EndsWithSeeds
      /\ (plan = NoPlan \/ plan.operator \notin {"path", "intersection"})
  BY DEF Traversed, Answered
<1>2. PICK g, r, s, answer : g = snapshot /\ r = PlanRequest /\ s = Asked /\ answer = result
  OBVIOUS
<1>3. Evident(g, r, plan.operator, answer)
  BY <1>1, <1>2 DEF EvidenceInv, FromWalk
<1>4. /\ SameWalks(r, s) /\ r.starts = StartNodes
      /\ r.direction \in {"outgoing", "incoming", "both"}
  BY <1>1, <1>2, AskedFacts
<1>5. PICK starts : starts = StartNodes /\ r.starts = starts
  BY <1>4
<1>6. PICK found : found = answer.nodes \ starts
  OBVIOUS
<1>7. PICK far : far = FarOver(r, answer)
  OBVIOUS
<1>8. g \in Graphs
  BY <1>2 DEF QueryInv, CommandInv
<1>9. PICK facts, free : facts = Facts(answer) /\ free = [s EXCEPT !.projects = {}, !.relations = {}]
  OBVIOUS
<1>10. SameWalks(Free(r), free) /\ Free(r).direction \in {"outgoing", "incoming", "both"}
  <2>1. s = [starts |-> s.starts, projects |-> s.projects, relations |-> s.relations,
             maxDepth |-> s.maxDepth, direction |-> s.direction]
    BY <1>2 DEF Asked
  <2>2. free.starts = s.starts /\ free.projects = {} /\ free.relations = {} /\ free.direction = s.direction
    BY <1>9, <2>1
  <2> QED
    BY <1>4, <2>2 DEF SameWalks, Free
<1>11. \A n \in answer.nodes : far[n] = Distance(facts, free, n)
  <2> SUFFICES ASSUME NEW n \in answer.nodes PROVE far[n] = Distance(facts, free, n)
    OBVIOUS
  <2>1. facts \in Graphs /\ n \in Reaches(facts, Free(r))
    BY <1>3, <1>9 DEF Evident
  <2>2. Distance(facts, Free(r), n) = Distance(facts, free, n)
    BY <1>10, <2>1, DistanceSame
  <2> QED
    BY <1>7, <1>9, <2>2 DEF FarOver
<1>12. Explained(answer.nodes, starts, far, answer.evidence)
  BY <1>3, <1>5, <1>7 DEF Evident
<1>13. EvidenceExplains
  <2>1. (UNION {x.nodes : x \in ToSet(answer.evidence)}) \ starts = found
    BY <1>6, <1>12 DEF Explained
  <2>2. ASSUME NEW x \in ToSet(answer.evidence), NEW e \in x.edges
        PROVE  x.distance \in {Distance(facts, free, n) : n \in {e.source, e.target} \cap found}
    <3>1. x.distance \in {far[n] : n \in {e.source, e.target} \cap found}
      BY <1>6, <1>12 DEF Explained
    <3>2. PICK n \in {e.source, e.target} \cap found : x.distance = far[n]
      BY <3>1
    <3>3. x.distance = Distance(facts, free, n)
      BY <1>6, <1>11, <3>2
    <3> QED
      BY <3>2, <3>3
  <2>3. FoldLeft(LAMBDA sum, x : sum + Cardinality(x.edges), 0, answer.evidence) = Cardinality(found)
    BY <1>6, <1>12, Zenon DEF Explained, TotalEdges
  <2>4. facts = [nodes |-> answer.nodes, edges |-> answer.edges]
    BY <1>9 DEF Facts
  <2>5. (UNION {x.nodes : x \in ToSet(result.evidence)}) \ StartNodes = result.nodes \ StartNodes
    BY <1>2, <1>5, <1>6, <2>1
  <2>6. \A x \in ToSet(result.evidence) : \A e \in x.edges :
          x.distance \in {Distance([nodes |-> result.nodes, edges |-> result.edges],
                                   [Asked EXCEPT !.projects = {}, !.relations = {}], n)
                             : n \in {e.source, e.target} \cap (result.nodes \ StartNodes)}
    BY <1>2, <1>5, <1>6, <1>9, <2>2, <2>4
  <2>7. FoldLeft(LAMBDA sum, x : sum + Cardinality(x.edges), 0, result.evidence) = Cardinality(result.nodes \ StartNodes)
    BY <1>2, <1>5, <1>6, <2>3, Zenon
  <2> QED
    BY <2>5, <2>6, <2>7, Zenon DEF EvidenceExplains
<1>14. ImpactNearestFirst
  <2> SUFFICES ASSUME plan.operator = "impact" PROVE ImpactNearestFirst
    BY DEF ImpactNearestFirst
  <2>1. Ranks(answer.nodes, answer.edges, starts, far, answer.impact)
    BY <1>3, <1>5, <1>7 DEF Evident
  <2>2. PICK impact : impact = answer.impact
    OBVIOUS
  <2>3. \A i \in DOMAIN impact : impact[i].node \in answer.nodes /\ impact[i].distance = far[impact[i].node]
    BY <2>1, <2>2 DEF Ranks
  <2>4. \A n \in answer.nodes : far[n] = Distance(g, s, n)
    <3> SUFFICES ASSUME NEW n \in answer.nodes PROVE far[n] = Distance(g, s, n)
      OBVIOUS
    <3>1. far[n] = Distance(g, r, n) /\ n \in Reaches(g, r)
      BY <1>3, <1>7 DEF Evident
    <3>2. Distance(g, r, n) = Distance(g, s, n)
      BY <1>4, <1>8, <3>1, DistanceSame
    <3> QED
      BY <3>1, <3>2
  <2>5. \A i \in DOMAIN impact : impact[i].distance = Distance(g, s, impact[i].node)
    BY <2>3, <2>4
  <2> QED
    BY <1>2, <1>5, <2>1, <2>2, <2>5 DEF ImpactNearestFirst, Ranks
<1> QED
  BY <1>13, <1>14 DEF EvidenceSound

(* The evidence explains the answer of a question and an impact lists the  *)
(* nearer first, in every reachable state. (traversalEvidence and          *)
(* rankImpactEvidence, query.go)                                           *)
THEOREM EvidenceSoundAlways == Spec => []EvidenceSound
<1>1. Init => QueryInv /\ EvidenceInv
  BY QueryInit, EvidenceInit
<1>2. QueryInv /\ EvidenceInv /\ [Next]_vars => QueryInv' /\ EvidenceInv'
  BY QueryStep, EvidenceStep
<1> QED
  BY <1>1, <1>2, EvidenceAnswered, PTL DEF Spec

=============================================================================
