----------------------------- MODULE QueryCommand -----------------------------
(***************************************************************************)
(* The read commands query, path, inspect and export, from their arguments *)
(* to what they print (cmd/agent-wayfinder/query, path, explain, export,   *)
(* and query/query.go).                                                    *)
(*                                                                         *)
(* query plans first (QuestionPlanner).  Only then is the snapshot opened, *)
(* so a graph published while a planner thinks is the one that is read.  A *)
(* snapshot does not change, so what follows is one step for the seeds and *)
(* one for the answer.                                                     *)
(***************************************************************************)
EXTENDS QuestionPlanner, CatalogSearch

CONSTANTS
  Invocations,   (* families of commands: arguments, configuration, graph   *)
  Later,         (* graphs another process may publish meanwhile            *)
  Suite,         (* Suite[n]: the contract suite n is, or NoPathName        *)
  Qualified,     (* Qualified[n]: the qualified name of n                   *)
  DistanceUnit   (* the score at distance 1, which every distance divides   *)

(* A question matches rules that there are, and what a pattern captures is *)
(* a text.  A request with a negative depth or no room for a node is       *)
(* refused before anything is read.  Scores are exact, as those of         *)
(* SeedRanking are.                                                        *)
ASSUME InvocationAssumption ==
  /\ DistanceUnit \in Nat \ {0} /\ \A d \in 1..Cardinality(Nodes) : DistanceUnit % d = 0
  /\ Later \subseteq Graphs
  /\ \A family \in DOMAIN Invocations : \A r \in Invocations[family] :
       /\ r.graph \in Graphs
       /\ r.command = "query" =>
            /\ \A q \in r.question : q.rules \subseteq ToSet(questionRules) /\ SlotsTyped(AnalyzeQuestion(q))
            /\ r.maxDepth \in Nat /\ r.maxNodes \in Nat \ {0}
            /\ r.catalog \in Catalogs /\ IsFiniteSet(r.catalog.rows)
       /\ r.command = "path" => r.path.maxDepth \in Nat /\ r.path.maxNodes \in Nat \ {0}

VARIABLES
  graph,      (* the published graph                                       *)
  snapshot,   (* the graph the command reads                               *)
  seeds,      (* one sequence of ranked seeds per slot or term             *)
  result      (* what the command prints                                   *)

answerVars == <<snapshot, seeds, result>>

vars == <<run, plannerVars, graph, answerVars>>

NoResult == [error |-> "none", nodes |-> {}, edges |-> {}, evidence |-> <<>>, impact |-> <<>>,
             path |-> NoPath, warnings |-> {}, reasons |-> {}, boundary |-> NoNode,
             catalog |-> [matches |-> <<>>, method |-> "none", warnings |-> {}]]

Init ==
  /\ \E family \in DOMAIN Invocations : run \in Invocations[family]
  /\ at = "start" /\ PlannerInit
  /\ graph = run.graph /\ snapshot = run.graph /\ seeds = <<>> /\ result = NoResult

(* Another process publishes.                                              *)
Republish ==
  /\ at \in {"ollama", "claude", "copilot"}
  /\ graph' \in Later \ {graph}
  /\ UNCHANGED <<run, plannerVars, answerVars>>

PlanQuery == Planning /\ UNCHANGED <<graph, answerVars>>

(* The metrics of the planners are recorded before the snapshot is opened. *)
OpenSnapshot ==
  /\ at = "open"
  /\ snapshot' = graph
  /\ at' = IF plan # NoPlan /\ plan.intent = "capability" THEN "catalog" ELSE "seeds"
  /\ UNCHANGED <<run, graph, plan, planning, ledger, seeds, result>>

Finish(answer, next) ==
  /\ result' = answer /\ at' = next
  /\ UNCHANGED <<run, graph, plan, planning, ledger, snapshot, seeds>>

-----------------------------------------------------------------------------
(* The other commands                                                      *)

PathCommand ==
  /\ at = "start" /\ run.command = "path"
  /\ Finish(FindPathSnapshot(graph, run.path, MaxSeeds), "done")

InspectCommand ==
  /\ at = "start" /\ run.command = "inspect"
  /\ Finish(ExplainSnapshot(graph, run.terms[1], MaxSeeds), "done")

ExportCommand ==
  /\ at = "start" /\ run.command = "export"
  /\ Finish(Export(graph, run.kinds, run.relations), "done")

-----------------------------------------------------------------------------
(* Seeds, and the questions that end with them                             *)

SeedNodes(s) == {s[i].node : i \in DOMAIN s}

StartNodes == UNION {SeedNodes(seeds[k]) : k \in DOMAIN seeds}

StartOrder == FoldLeft(LAMBDA s, ranked : s \o [i \in DOMAIN ranked |-> ranked[i].node], <<>>, seeds)

RankSeeds ==
  /\ at = "seeds"
  /\ seeds' = IF plan = NoPlan
              THEN [k \in DOMAIN run.terms |-> RankSnapshot(snapshot, run.terms[k])]
              ELSE [k \in DOMAIN plan.slots |->
                      RankSeedRequestsSnapshot(snapshot, plan.slots[k], run.projects)]
  /\ at' = "answer"
  /\ UNCHANGED <<run, graph, plan, planning, ledger, snapshot, result>>

(* The best seeds first, whatever their slot.                              *)
retrievalEvidence ==
  LET all == UNION {{[slot |-> k, place |-> i, score |-> seeds[k][i].score, node |-> seeds[k][i].node]
                       : i \in DOMAIN seeds[k]} : k \in DOMAIN seeds}
      groups == Sorted([x \in all |-> <<-x.score, x.node, x.slot>>])
  IN [i \in DOMAIN groups |-> [nodes |-> {groups[i].node}, edges |-> {}, distance |-> 0,
                               score |-> groups[i].score]]

Retrieved(warnings) ==
  [NoResult EXCEPT !.evidence = retrievalEvidence, !.warnings = warnings]

entityResolutionWarning ==
  IF Len(seeds) # 1 \/ seeds[1] = <<>> THEN {"entity_not_found"}
  ELSE IF Len(seeds[1]) > 1 THEN {"ambiguous_entity"}
  ELSE IF ~seeds[1][1].exact /\ ~seeds[1][1].coverage THEN {"weak_entity_match"}
  ELSE {}

(* A slot without a seed, a lookup, and an explanation that is not of one  *)
(* certain entity end without a traversal.                                 *)
EmptySlot == plan # NoPlan /\ \E k \in DOMAIN seeds : seeds[k] = <<>>

EndsWithSeeds ==
  \/ EmptySlot
  \/ /\ plan # NoPlan /\ plan.operator \in {"lookup", "explain"}
     /\ plan.intent = "unknown" \/ plan.operator = "lookup" \/ entityResolutionWarning # {}
  \/ StartNodes = {}

AnswerSeeds ==
  /\ at = "answer" /\ EndsWithSeeds
  /\ IF plan = NoPlan THEN Finish(NoResult, "done")
     ELSE IF plan.intent = "unknown" THEN Finish(Retrieved({"unknown_intent"}), "catalog")
     ELSE Finish(Retrieved(IF EmptySlot THEN {"entity_not_found"} ELSE entityResolutionWarning), "done")

(* The catalog answers a capability question, and stands beside the seeds  *)
(* of an unknown one.                                                      *)
AnswerCatalog ==
  /\ at = "catalog"
  /\ \E near \in NearestRows(run.catalog.rows) :
       Finish([result EXCEPT !.catalog = RankCatalogSnapshot(snapshot, run.catalog, run.generator, near)],
              "done")

-----------------------------------------------------------------------------
(* Traversals                                                              *)

Request(starts, direction, relations, depth) ==
  [starts |-> starts, projects |-> run.projects, direction |-> direction,
   relations |-> relations, maxDepth |-> depth, maxNodes |-> run.maxNodes]

Failed == [NoResult EXCEPT !.error = "scope"]

planRelations ==
  CASE plan.intent \in {"calls", "called_by"} -> callRelations(plan.relations)
    [] plan.intent \in {"dependencies", "dependents", "dependency_comparison"} ->
         dependencyRelations(plan.relations)
    [] OTHER -> plan.relations

(* What a plan of neighbours, an explanation, an impact, or plain terms    *)
(* ask of the store.                                                       *)
PlanRequest ==
  IF plan = NoPlan THEN Request(StartNodes, "outgoing", run.relations, run.maxDepth)
  ELSE CASE plan.operator = "explain" ->
              Request(StartNodes, "both", run.relations, IF run.maxDepth = 0 THEN 0 ELSE 1)
         [] plan.operator = "neighbors" ->
              Request(StartNodes, plan.direction, planRelations, run.maxDepth)
         [] plan.operator = "impact" ->
              Request(StartNodes, "incoming", impactRelations(plan.relations), run.maxDepth)

(* A node is reached by the first edge that leads to it,                   *)
ReachNode(s, m, e, distance) ==
  IF m \in {NoNode} \cup DOMAIN s.reached THEN s
  ELSE [next |-> Append(s.next, m), reached |-> With(s.reached, m, [distance |-> distance, edge |-> e])]

(* over the edges in their order, from each node of a level in its order.  *)
ReachFrom(s, n, edges, direction, distance) ==
  FoldLeft(LAMBDA u, e : ReachNode(u, traversalNeighbor(n, e, direction), e, distance), s, edges)

ReachLevel(s, edges, direction, distance) ==
  FoldLeft(LAMBDA u, n : ReachFrom(u, n, edges, direction, distance), [s EXCEPT !.next = <<>>], s.next)

(* The distance and the edge at which each node is reached from the starts.*)
firstReaches(order, edges, direction) ==
  LET level[d \in 0..Cardinality(Nodes)] ==
        IF d = 0 THEN [next |-> order, reached |-> [n \in ToSet(order) |-> [distance |-> 0]]]
        ELSE ReachLevel(level[d - 1], edges, direction, d)
  IN level[Cardinality(Nodes)].reached

(* A group is the nodes of one distance reached by one relation.           *)
EvidenceGroup(facts, distance, relation, edges) ==
  [nodes |-> (UNION {{e.source, e.target} : e \in edges}) \cap facts.nodes, edges |-> edges,
   distance |-> distance, relation |-> relation,
   score |-> (IF relationFit(plan.relations, relation) THEN 2 ELSE 1) * Cardinality(edges) * (DistanceUnit \div distance)]

EvidenceGroups(facts, found) ==
  LET groups == {EvidenceGroup(facts, x.distance, x.edge.relation,
                               {y.edge : y \in {z \in found : /\ z.distance = x.distance
                                                             /\ z.edge.relation = x.edge.relation}}) : x \in found}
  IN Sorted([x \in groups |-> <<-x.score, x.distance, RelationRank[x.relation]>>])

Found(reached) == {reached[n] : n \in {m \in DOMAIN reached : reached[m].distance > 0}}

(* Variant: only what the seeds are linked to directly.                    *)
DirectEvidence(facts) ==
  EvidenceGroups(facts, {x \in Found(firstReaches(StartOrder, sortedEdges(facts.edges), plan.direction)) : x.distance = 1})

traversalEvidence(facts) ==
  EvidenceGroups(facts, Found(firstReaches(StartOrder, sortedEdges(facts.edges), plan.direction)))

impactRelationWeight(relation) ==
  CASE relation = generic("contains") -> 5 [] relation = generic("implements") -> 18 [] OTHER -> 20

impactScore(relation, distance) == impactRelationWeight(relation) * (DistanceUnit \div distance)

ImpactHits(facts, reached) ==
  LET hits == {[node |-> n, distance |-> reached[n].distance,
                score |-> impactScore(reached[n].edge.relation, reached[n].distance)]
                 : n \in {m \in DOMAIN reached \cap facts.nodes : reached[m].distance > 0}}
  IN Sorted([x \in hits |-> <<-x.score, x.distance, x.node>>])

rankImpactEvidence(facts) ==
  ImpactHits(facts, firstReaches(StartOrder, sortedEdges(facts.edges), "incoming"))

TraversalResult(t) ==
  IF t.at = "error" THEN Failed
  ELSE [NoResult EXCEPT !.nodes = t.nodes, !.edges = t.edges, !.reasons = t.reasons, !.boundary = t.boundary,
          !.evidence = IF plan = NoPlan THEN <<>> ELSE traversalEvidence(t),
          !.impact = IF plan # NoPlan /\ plan.operator = "impact" THEN rankImpactEvidence(t) ELSE <<>>]

AnswerTraversal ==
  /\ at = "answer" /\ ~EndsWithSeeds
  /\ plan # NoPlan => plan.operator \notin {"path", "intersection"}
  /\ Finish(TraversalResult(Traverse(snapshot, PlanRequest)), "done")

-----------------------------------------------------------------------------
(* executePathPlan                                                         *)

(* The seeds whose label is the text, if the full-text search found any.   *)
pathEndpointCandidates(ranked) ==
  LET exact == At(ranked, {i \in DOMAIN ranked : ranked[i].exact /\ ranked[i].lexical})
  IN IF exact = <<>> THEN ranked ELSE exact

pathCandidatesNeedDisambiguation ==
  \E k \in DOMAIN seeds : \E i \in DOMAIN seeds[k] : seeds[k][i].lexical

(* Variant: the search goes on after the first path.                       *)
LastStop(stops, len) == len

(* The source at which the search stops: the first with a path, or the     *)
(* last one.                                                               *)
LastSource(stops, len) == IF stops = {} THEN len ELSE Min(stops)

(* The first target that the facts of a source lead to.                    *)
PathFrom(t, source, targets) ==
  LET paths == [j \in DOMAIN targets |-> shortestPath(t, source.node, targets[j].node, FALSE)]
      hits == {j \in DOMAIN targets : paths[j] # NoPath}
  IN [t |-> t, path |-> IF hits = {} THEN NoPath ELSE paths[Min(hits)]]

(* The truncation the answer carries is the one of the last source tried.  *)
PathResult(tried) ==
  IF tried.t.at = "error" THEN Failed
  ELSE IF tried.path = NoPath
  THEN [NoResult EXCEPT !.reasons = tried.t.reasons, !.warnings = {"no_directed_path"}]
  ELSE [NoResult EXCEPT !.nodes = ToSet(tried.path.nodes), !.edges = ToSet(tried.path.edges),
          !.path = tried.path, !.reasons = tried.t.reasons, !.boundary = tried.t.boundary,
          !.evidence = <<[nodes |-> ToSet(tried.path.nodes), edges |-> ToSet(tried.path.edges),
                          distance |-> Len(tried.path.edges), score |-> 0]>>]

LastTried(tries) ==
  tries[LastSource({i \in DOMAIN tries : tries[i].t.at = "error" \/ tries[i].path # NoPath}, Len(tries))]

PathOfCandidates(sources, targets) ==
  IF (Len(sources) # 1 \/ Len(targets) # 1) /\ ~pathCandidatesNeedDisambiguation
  THEN [NoResult EXCEPT !.warnings = {"ambiguous_path_endpoints"}]
  ELSE PathResult(LastTried([i \in DOMAIN sources |->
         PathFrom(Traverse(snapshot, Request({sources[i].node}, "outgoing", callRelations(plan.relations),
                                             run.maxDepth)), sources[i], targets)]))

AnswerPath ==
  /\ at = "answer" /\ ~EndsWithSeeds /\ plan # NoPlan /\ plan.operator = "path"
  /\ Finish(PathOfCandidates(pathEndpointCandidates(seeds[1]), pathEndpointCandidates(seeds[2])), "done")

-----------------------------------------------------------------------------
(* executeIntersectionPlan                                                 *)

isContractNode(n) == Kind[n].kind \in {"interface", "contract", "test"} \/ Suite[n] # NoPathName

(* Contracts are the same if they share a file, a suite or a name.         *)
contractIdentityKeys(n) ==
  IF Suite[n] # NoPathName THEN {<<"suite", Suite[n]>>}
  ELSE IF isContractNode(n) THEN {<<"qualified", Qualified[n]>>} ELSE {}

SameContract(n, m) ==
  \/ isContractNode(n) /\ isContractNode(m) /\ Path[n] = Path[m]
  \/ contractIdentityKeys(n) \cap contractIdentityKeys(m) # {}

(* Variant: every pair of contracts is common.                             *)
AnyContract(n, right) == {m \in right : isContractNode(n) /\ isContractNode(m)}

MatchingContracts(n, right) == {m \in right : SameContract(n, m)}

AddCommon(common, n, right) ==
  IF n \in common \/ (n \notin right /\ MatchingContracts(n, right) = {}) THEN common
  ELSE common \cup {n} \cup MatchingContracts(n, right)

CommonNodes(left, right) ==
  FoldLeft(LAMBDA common, n : AddCommon(common, n, right), {}, uniqueSortedStrings(left))

(* How the first seed of a slot that is linked to n reaches it.            *)
FirstProof(ranked, paths) ==
  LET linked == {i \in DOMAIN ranked : paths[i].edges # <<>>}
  IN IF linked = {} THEN [nodes |-> {}, edges |-> {}]
     ELSE [nodes |-> ToSet(paths[Min(linked)].nodes) \ {ranked[Min(linked)].node},
           edges |-> ToSet(paths[Min(linked)].edges)]

proofOf(facts, ranked, n) ==
  FirstProof(ranked, [i \in DOMAIN ranked |-> shortestPath(facts, ranked[i].node, n, TRUE)])

IntersectionResult(t, common, proofs) ==
  LET nodes == common \cup UNION {p.nodes : p \in proofs}
      edges == UNION {p.edges : p \in proofs}
  IN [NoResult EXCEPT !.nodes = nodes, !.edges = edges,
        !.reasons = UNION {t[k].reasons : k \in DOMAIN t},
        !.warnings = IF nodes = {} THEN {"no_common_evidence"} ELSE {},
        !.evidence = IF nodes = {} THEN <<>>
                     ELSE <<[nodes |-> nodes, edges |-> edges, distance |-> 1, score |-> 0]>>]

Shared(t, common) ==
  IntersectionResult(t, common, UNION {{proofOf(t[k], seeds[k], n) : n \in common} : k \in DOMAIN seeds})

Intersection(t) ==
  IF \E k \in DOMAIN t : t[k].at = "error" THEN Failed ELSE Shared(t, CommonNodes(t[1].nodes, t[2].nodes))

AnswerIntersection ==
  /\ at = "answer" /\ ~EndsWithSeeds /\ plan # NoPlan /\ plan.operator = "intersection"
  /\ Finish(Intersection([k \in DOMAIN seeds |->
               Traverse(snapshot, Request(SeedNodes(seeds[k]), plan.direction,
                                          sharedContractRelations(plan.relations), run.maxDepth))]), "done")

-----------------------------------------------------------------------------

Next ==
  \/ Republish \/ PlanQuery \/ OpenSnapshot \/ PathCommand \/ InspectCommand \/ ExportCommand
  \/ RankSeeds \/ AnswerSeeds \/ AnswerCatalog \/ AnswerTraversal \/ AnswerPath \/ AnswerIntersection

Spec == Init /\ [][Next]_vars

-----------------------------------------------------------------------------
(* Reference definitions                                                   *)

(* These nodes, and those an edge of the relations asked for leads to from *)
(* one in scope: a walk ends where it leaves the scope.                    *)
WalkFurther(g, r, nearer) ==
  LET expanded == {n \in nearer : InScope(g, r.projects, n)}
      steps == {<<e.source, e.target>> : e \in {f \in g.edges : Allows(r.relations, f)}}
  IN nearer \cup {m \in g.nodes : \E n \in expanded : \/ r.direction # "incoming" /\ <<n, m>> \in steps
                                                      \/ r.direction # "outgoing" /\ <<m, n>> \in steps}

(* The nodes a walk of at most d edges leads to from the starts.           *)
Reach(g, r, d) ==
  LET within[i \in 0..d] == IF i = 0 THEN r.starts \cap g.nodes ELSE WalkFurther(g, r, within[i - 1])
  IN within[d]

Distance(g, r, n) ==
  CHOOSE d \in 0..Cardinality(Nodes) : n \in Reach(g, r, d) /\ (d > 0 => n \notin Reach(g, r, d - 1))

Reaches(g, r) == Reach(g, r, Cardinality(Nodes))

(* The request of a plan that is not a path or an intersection.            *)
Asked ==
  LET relations == IF plan = NoPlan \/ plan.operator = "explain" THEN run.relations
                   ELSE IF plan.operator = "impact" THEN impactRelations(plan.relations)
                   ELSE planRelations
      depth == IF plan # NoPlan /\ plan.operator = "explain" THEN Min({1, run.maxDepth}) ELSE run.maxDepth
  IN [starts |-> StartNodes, projects |-> run.projects, relations |-> relations, maxDepth |-> depth,
      direction |-> IF plan = NoPlan THEN "outgoing" ELSE plan.direction]

Answered == at = "done" /\ run.command = "query" /\ planning.error = "none" /\ result.error = "none"

Traversed ==
  Answered /\ seeds # <<>> /\ ~EndsWithSeeds
           /\ (plan = NoPlan \/ plan.operator \notin {"path", "intersection"})

IsWalk(p, source, target, undirected) ==
  /\ Len(p.nodes) = Len(p.edges) + 1
  /\ p.nodes[1] = source /\ p.nodes[Len(p.nodes)] = target
  /\ \A i \in DOMAIN p.edges :
       \/ <<p.edges[i].source, p.edges[i].target>> = <<p.nodes[i], p.nodes[i + 1]>>
       \/ undirected /\ <<p.edges[i].target, p.edges[i].source>> = <<p.nodes[i], p.nodes[i + 1]>>

-----------------------------------------------------------------------------
(* Properties                                                              *)

(* Whatever is printed is part of the snapshot that was opened, and no     *)
(* retrieval returns more than its limit.                                  *)
TypeOK ==
  /\ graph \in Graphs /\ snapshot \in Graphs
  /\ at \in {"start", "ollama", "claude", "copilot", "open", "seeds", "answer", "catalog", "done"}
  /\ \A k \in DOMAIN seeds : /\ SeedNodes(seeds[k]) \subseteq snapshot.nodes
                             /\ Len(seeds[k]) <= (IF plan = NoPlan THEN MaxSeeds ELSE SlotLimit)
                             /\ Len(seeds[k]) = Cardinality(SeedNodes(seeds[k]))
  /\ run.command = "query" =>
       /\ result.nodes \subseteq snapshot.nodes /\ result.edges \subseteq snapshot.edges
       /\ result.reasons \subseteq {"node_limit", "depth_limit"}
       /\ ToSet(result.catalog.matches) \subseteq snapshot.nodes

(* The answer of a bounded traversal is what a walk from the seeds leads   *)
(* to within depth and scope: never more, all of it unless the node limit  *)
(* is reported, and everything within any depth if nothing is reported.    *)
TraversalAnswer ==
  Traversed =>
    LET near == Reach(snapshot, Asked, Asked.maxDepth)
    IN /\ result.nodes \subseteq near
       /\ Cardinality(result.nodes) <= run.maxNodes
       /\ "node_limit" \notin result.reasons => result.nodes = near
       /\ result.reasons = {} => result.nodes = Reaches(snapshot, Asked)
       /\ \A e \in result.edges : {e.source, e.target} \subseteq result.nodes

(* The evidence explains the answer: one edge for each node that is not a  *)
(* seed, in the group of the distance at which a walk over the printed     *)
(* edges first meets it.                                                   *)
EvidenceExplains ==
  Traversed /\ plan # NoPlan =>
    LET facts == [nodes |-> result.nodes, edges |-> result.edges]
        free == [Asked EXCEPT !.projects = {}, !.relations = {}]
        groups == ToSet(result.evidence)
        found == result.nodes \ StartNodes
    IN /\ (UNION {g.nodes : g \in groups}) \ StartNodes = found
       /\ \A g \in groups : \A e \in g.edges :
            g.distance \in {Distance(facts, free, n) : n \in {e.source, e.target} \cap found}
       /\ FoldLeft(LAMBDA sum, g : sum + Cardinality(g.edges), 0, result.evidence) = Cardinality(found)

(* What a change affects is listed once each, at the distance at which it  *)
(* depends on the change.  The nearer comes first, except that one that    *)
(* merely contains what changed may come after one less than four times as *)
(* far, and one that implements it, from distance 10 on, after one less    *)
(* than a ninth further.                                                   *)
ImpactNearestFirst ==
  Traversed /\ plan # NoPlan /\ plan.operator = "impact" =>
    LET impact == result.impact
        by(kind, n) == \E e \in result.edges : e.source = n /\ e.relation = generic(kind)
    IN /\ {impact[i].node : i \in DOMAIN impact} = result.nodes \ StartNodes
       /\ Len(impact) = Cardinality(result.nodes \ StartNodes)
       /\ \A i \in DOMAIN impact : impact[i].distance = Distance(snapshot, Asked, impact[i].node)
       /\ \A i, j \in DOMAIN impact :
            i < j /\ impact[i].distance > impact[j].distance =>
              \/ by("contains", impact[j].node) /\ impact[i].distance < 4 * impact[j].distance
              \/ by("implements", impact[j].node) /\ 9 * impact[i].distance < 10 * impact[j].distance

(* The evidence explains the answer, and what a change affects comes in    *)
(* the order of the evidence.  (traversalEvidence and rankImpactEvidence,  *)
(* query.go:322, 854)                                                      *)
EvidenceSound == EvidenceExplains /\ ImpactNearestFirst

(* A path is a shortest walk between its endpoints, and there is none only *)
(* if no walk within the depth exists.  The exceptions are the code's: a   *)
(* traversal cut at the node limit may miss a path, which path does not    *)
(* report, and an undirected path may cross a node outside the scope if    *)
(* the boundary is reported.                                               *)
PathAnswer ==
  LET asked(source, projects, relations, depth, direction) ==
        [starts |-> {source}, projects |-> projects, relations |-> relations, maxDepth |-> depth,
         direction |-> direction]
      shortest(p, r, target, maxNodes) ==
        IF p = NoPath
        THEN target \notin Reach(snapshot, r, r.maxDepth)
             \/ Cardinality(Reach(snapshot, r, r.maxDepth)) > maxNodes
        ELSE /\ Len(p.edges) <= r.maxDepth /\ target \in Reach(snapshot, r, Len(p.edges))
             /\ Len(p.edges) > 0 => target \notin Reach(snapshot, r, Len(p.edges) - 1)
      command ==
        LET p == run.path
            source == pathEndpointMatches(snapshot, p.source, MaxSeeds)
            target == pathEndpointMatches(snapshot, p.target, MaxSeeds)
            r(direction) == asked(source[1], p.projects, p.relations, p.maxDepth, direction)
            detour == /\ result.fallback /\ result.boundary # NoNode
                      /\ \E i \in 2..(Len(result.path.nodes) - 1) :
                           ~InScope(snapshot, p.projects, result.path.nodes[i])
        IN Len(source) = 1 /\ Len(target) = 1 /\ ~result.error =>
             /\ result.path # NoPath => IsWalk(result.path, source[1], target[1], result.fallback)
             /\ result.fallback => shortest(NoPath, r("outgoing"), target[1], p.maxNodes)
             /\ detour \/ shortest(result.path, r(IF result.fallback THEN "both" ELSE "outgoing"),
                                   target[1], p.maxNodes)
      question ==
        LET sources == SeedNodes(pathEndpointCandidates(seeds[1]))
            targets == SeedNodes(pathEndpointCandidates(seeds[2]))
            r(n) == asked(n, run.projects, callRelations(plan.relations), run.maxDepth, "outgoing")
        IN IF result.path = NoPath
           THEN \A n \in sources, m \in targets : shortest(NoPath, r(n), m, run.maxNodes)
           ELSE \E n \in sources, m \in targets : /\ IsWalk(result.path, n, m, FALSE)
                                                 /\ shortest(result.path, r(n), m, run.maxNodes)
  IN /\ at = "done" /\ run.command = "path" => command
     /\ Answered /\ plan # NoPlan /\ plan.operator = "path" /\ ~EndsWithSeeds
          /\ "ambiguous_path_endpoints" \notin result.warnings => question

(* The seeds of a slot.  A candidate that is at least as good in every     *)
(* component never scores less, so equal ones score the same; within a     *)
(* file the better comes first; and a file has a second seed only if every *)
(* file with a candidate has its first.                                    *)
SeedsFair ==
  plan # NoPlan => \A k \in DOMAIN seeds :
    LET slot == plan.slots[k]
        s == seeds[k]
        good(n) == seedComponents(slot, run.projects, n)
        found == ToSet(SearchNodes(snapshot, slot.text, slot.kinds, run.projects, 4 * SlotLimit))
        files == {Path[n] : n \in found}
        searched == s # <<>> /\ s[1].lexical /\ slot.sourcePath = NoPathName
    IN searched =>
         /\ \A i, j \in DOMAIN s :
              (\A c \in 1..7 : good(s[i].node)[c] >= good(s[j].node)[c]) => s[i].score >= s[j].score
         /\ \A i, j \in DOMAIN s :
              i < j /\ Path[s[i].node] = Path[s[j].node] => s[i].score >= s[j].score
         /\ \/ {Path[s[i].node] : i \in DOMAIN s} = files
            \/ Cardinality({Path[s[i].node] : i \in DOMAIN s}) = Len(s)

(* Two entities share a contract exactly if what each is linked to holds   *)
(* one node in common or two nodes that are the same contract (when no     *)
(* traversal was cut), and nothing else is printed as evidence of it.      *)
IntersectionSupported ==
  Answered /\ seeds # <<>> /\ ~EndsWithSeeds /\ plan # NoPlan /\ plan.operator = "intersection" =>
    LET r(k) == [starts |-> SeedNodes(seeds[k]), projects |-> run.projects, direction |-> "both",
                 relations |-> sharedContractRelations(plan.relations), maxDepth |-> run.maxDepth]
        linked(k) == Reach(snapshot, r(k), run.maxDepth)
        shared == \E n \in linked(1), m \in linked(2) : n = m \/ SameContract(n, m)
    IN /\ result.nodes \subseteq linked(1) \cup linked(2)
       /\ result.nodes # {} => shared
       /\ "node_limit" \notin result.reasons /\ shared => result.nodes # {}
       /\ result.nodes = {} <=> "no_common_evidence" \in result.warnings

(* The catalog's answer.  What the text matches hides what only its        *)
(* embedding is near to; of the text matches, all of them, the one most    *)
(* similar to the question is first; and no match is reported only if the  *)
(* text matches nothing and no embedding of the snapshot is among the      *)
(* nearest of the table, which holds the rows of other versions too.       *)
CatalogBestFirst ==
  Answered /\ result.catalog.method # "none" =>
    LET c == run.catalog
        matching == {n \in snapshot.nodes : c.score[n] > 0}
        kept == ToSet(SearchCatalog(snapshot, c))
        own == {x \in c.rows : x.here /\ x.node \in kept}
    IN /\ matching # {} => /\ ToSet(result.catalog.matches) \subseteq matching
                           /\ result.catalog.matches # <<>>
       /\ run.generator = "works" /\ own # {} =>
            \E x \in own : /\ x.node = result.catalog.matches[1]
                           /\ \A y \in own : y.cosine <= x.cosine
       /\ result.catalog.matches = <<>> /\ run.generator = "works" =>
            \A x \in c.rows : x.here /\ x.node \in snapshot.nodes =>
              Cardinality({y \in c.rows \ {x} : y.distance <= x.distance}) >= 2 * CatalogCandidates
=============================================================================
