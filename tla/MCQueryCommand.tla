--------------------------- MODULE MCQueryCommand ---------------------------
(* Five nodes in four files: a function and an interface in one, another   *)
(* interface, a file that contains some of them, and a test that has the   *)
(* qualified name of the second interface.                                 *)
EXTENDS QueryCommand

MCNodes == 1..5
MCKind == <<[lang |-> "go", kind |-> "function"], [lang |-> "typescript", kind |-> "interface"],
            [lang |-> "typescript", kind |-> "interface"], generic("file"), generic("test")>>
MCPath == <<"f1", "f1", "f2", "f3", "f4">>
MCNameRank == <<2, 1, 3, 4, 5>>
MCSuite == [n \in MCNodes |-> NoPathName]
MCQualified == <<"p", "o", "q", "r", "q">>

GoCalls == [lang |-> "go", kind |-> "calls"]
Implements == [lang |-> "typescript", kind |-> "implements"]
RelationOrder == <<generic("calls"), generic("contains"), GoCalls, generic("imports_from"),
                   generic("references"), Implements>>
MCRelations == ToSet(RelationOrder)
MCRelationRank == [r \in MCRelations |-> CHOOSE i \in DOMAIN RelationOrder : RelationOrder[i] = r]
MCLanguages == {"go", "javascript", "typescript"}
MCMinimumGrant == [claude |-> 1, copilot |-> 1]

Edge(source, target, relation) == [source |-> source, target |-> target, relation |-> relation]

-----------------------------------------------------------------------------
(* Texts, questions, configurations                                        *)

Unrelated == [match |-> "none", score |-> 0, label |-> "other", path |-> 0, tokens |-> 0]
Named(S) == [n \in MCNodes |-> IF n \in S THEN [Unrelated EXCEPT !.match = "id"] ELSE Unrelated]
Matched(S) == [n \in MCNodes |-> IF n \in S THEN [Unrelated EXCEPT !.score = n, !.tokens = 1] ELSE Unrelated]
Prefix(S) == [n \in MCNodes |-> IF n \in S THEN [Unrelated EXCEPT !.match = "prefix"] ELSE Unrelated]
Entity(text) == [text |-> text, tokens |-> 1]
Question(rule, texts) ==
  {[rules |-> rule, entities |-> [i \in DOMAIN texts |-> Entity(texts[i])], file |-> "f1"]}

Quiet ==
  [user |-> [provider |-> "unset", setting |-> "unset"],
   workspace |-> [provider |-> "unset", setting |-> "unset"],
   environment |-> [enabled |-> [p \in Paid |-> "unset"], setting |-> "unset"],
   flags |-> [enabled |-> [p \in Paid |-> "unset"], setting |-> "unset"],
   model |-> "default"]

NoCatalog == [score |-> [n \in MCNodes |-> 0], rows |-> {}]

SmallGraph == [nodes |-> 1..4, edges |-> {Edge(1, 2, GoCalls), Edge(4, 1, generic("contains"))}]
MCLater == {[nodes |-> 2..3, edges |-> {Edge(2, 3, GoCalls)}]}

(* Questions, or terms, about one of the graphs.                           *)
Queries(graphs, questions, terms, depths, limits, scopes) ==
  [command : {"query"}, graph : graphs, question : questions, terms : terms, maxDepth : depths,
   maxNodes : limits, projects : scopes, relations : {{}}, configuration : {Quiet},
   catalog : {NoCatalog}, generator : {"none"}]

(* Questions that a plain traversal of the small graph answers, if any.    *)
Asking(questions, configurations, catalogs, generators) ==
  [command : {"query"}, graph : {SmallGraph}, question : questions, terms : {<<>>}, maxDepth : {2},
   maxNodes : {5}, projects : {{}}, relations : {{}}, configuration : configurations,
   catalog : catalogs, generator : generators]

-----------------------------------------------------------------------------
(* Traversals and paths: every graph of these edges, one of them dangling  *)

LinkGraphs ==
  [nodes : {1..4}, edges : SUBSET {Edge(1, 2, GoCalls), Edge(2, 3, generic("calls")), Edge(1, 3, GoCalls),
                                   Edge(3, 1, generic("imports_from")), Edge(4, 1, generic("contains")),
                                   Edge(4, 2, generic("contains")), Edge(2, 5, GoCalls)}]

TraversalQuestions ==
  {Question({"called_by"}, <<Named({3})>>), Question({"comparison"}, <<Named({1})>>),
   Question({"impact"}, <<Named({3})>>), Question({"explain"}, <<Named({1})>>),
   Question({"calls"}, <<Matched({1, 2})>>)}

Traversals ==
  Queries(LinkGraphs, TraversalQuestions, {<<>>}, 1..2, {1, 3, 5}, {{}, {4}})

TermTraversals ==
  Queries(LinkGraphs, {{}}, {<<Named({1})>>, <<Named({2}), Prefix({3})>>}, 0..2, {2, 5}, {{}})

Paths ==
  [command : {"path"}, graph : LinkGraphs,
   path : [source : {Named({1})}, target : {Named({3}), Named({2, 3})}, projects : {{}, {4}},
           relations : {{}}, maxDepth : 1..3, maxNodes : {2, 5}, undirected : BOOLEAN]]

PathQuestions ==
  Queries(LinkGraphs,
             {Question({"path"}, <<s, t>>) : s \in {Matched({1, 2}), Named({1})},
                                             t \in {Named({3}), Matched({3, 4}), Named({1, 2})}},
             {<<>>}, {2}, {2, 5}, {{}, {4}})

Lookups ==
  [command : {"inspect", "export"}, graph : {SmallGraph} \cup MCLater, relations : {{}, {GoCalls}},
   terms : {<<Named({1})>>, <<Matched({2})>>, <<Named(1..4)>>, <<Prefix({1})>>, <<Prefix(1..4)>>},
   kinds : {{}, {generic("file")}}]

-----------------------------------------------------------------------------
(* Rankings: one graph, many texts                                         *)

RankedTexts ==
  {t @@ [n \in 4..5 |-> [Unrelated EXCEPT !.score = 1]]
     : t \in [1..3 -> [match : {"none"}, score : 1..2, label : {"equal", "other"}, path : {0},
                        tokens : 0..1]]}

Rankings ==
  Asking({Question({rule}, <<t>>) : rule \in {"lookup", "in file"}, t \in RankedTexts}
    \cup {Question({rule}, <<t, t>>)
             : rule \in {"folder", "package", "file", "class", "service", "trace", "users", "lookup"},
               t \in {Matched({1}), Matched({}), Named({2, 3})}},
         {Quiet}, {NoCatalog}, {"none"})

-----------------------------------------------------------------------------
(* Contracts                                                               *)

ContractGraphs ==
  [nodes : {MCNodes}, edges : SUBSET {Edge(1, 3, Implements), Edge(2, 3, Implements), Edge(1, 5, Implements),
                                      Edge(2, 5, generic("references")), Edge(4, 2, generic("contains"))}]

Contracts ==
  Queries(ContractGraphs,
             {Question({"shared_contract"}, <<Named({1}), s>>) : s \in {Named({2}), Named({2, 4})}},
             {<<>>}, 1..2, {1, 5}, {{}, {4}})

-----------------------------------------------------------------------------
(* Planners                                                                *)

MCResponses ==
  {[confident |-> TRUE, intent |-> "calls", entities |-> <<Entity(Named({1}))>>],
   [confident |-> FALSE, intent |-> "lookup", entities |-> <<Entity(Named({1}))>>],
   [confident |-> TRUE, intent |-> "path", entities |-> <<Entity(Named({1}))>>],
   [confident |-> TRUE, intent |-> "joke", entities |-> <<>>]}

Configurations ==
  {[Quiet EXCEPT !.workspace.provider = w, !.user.provider = u, !.flags.enabled = f]
     : w \in {"unset", "", "ollama"}, u \in {"unset", "claude"},
       f \in {[claude |-> "unset", copilot |-> x] : x \in {"unset", "true"}}}
  \cup {[Quiet EXCEPT !.environment.enabled = [claude |-> "true", copilot |-> "true"],
                      !.flags.enabled = [claude |-> "unset", copilot |-> x], !.model = m]
     : x \in {"unset", "false"}, m \in {"default", "explicit"}}
  \cup {[Quiet EXCEPT !.user.setting = u, !.environment.setting = e, !.flags.setting = f]
     : u \in {"unset", "valid", "range", "malformed"}, e \in {"unset", "valid", "range"},
       f \in {"unset", "valid", "range"}}

Planners ==
  Asking({Question({}, <<Matched({1})>>)}, Configurations, {NoCatalog}, {"none"})

-----------------------------------------------------------------------------
(* The catalog: rows of the snapshot and of another version                *)

Row(id, node, here, distance, cosine) ==
  [id |-> id, node |-> node, here |-> here, distance |-> distance, cosine |-> cosine]
CatalogRows == {Row(1, 1, TRUE, 2, 2), Row(2, 2, TRUE, 1, 1), Row(3, 3, TRUE, 2, 3), Row(4, 1, FALSE, 2, 2),
                Row(5, 2, FALSE, 1, 1), Row(6, 3, FALSE, 2, 3), Row(7, 4, FALSE, 2, 2)}

CatalogQuestions ==
  Asking({Question({"capability"}, <<>>)}, {Quiet},
         [score : {s @@ [n \in 4..5 |-> 0] : s \in [1..3 -> 0..2]}, rows : SUBSET CatalogRows], {"works"})

PlainCatalogQuestions ==
  Asking({Question({}, <<Matched({1})>>), Question({"capability"}, <<>>)}, {Quiet},
         [score : {s @@ [n \in 4..5 |-> 0] : s \in [1..3 -> 0..1]}, rows : {{}, CatalogRows}],
         {"none", "fails", "works"})

MCInvocations ==
  <<Traversals, TermTraversals, Paths, PathQuestions, Lookups, Rankings, Contracts, Planners,
    CatalogQuestions, PlainCatalogQuestions>>
=============================================================================
