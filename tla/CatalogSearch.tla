---------------------------- MODULE CatalogSearch ----------------------------
(***************************************************************************)
(* The catalog search of a capability question or one that no rule and no  *)
(* planner knows: query/catalog.go over SearchCatalog and                  *)
(* SearchCatalogVectors of storage/sqlite/sqlite.go.                       *)
(*                                                                         *)
(* A catalog is the full-text score of each unit for the question and the  *)
(* embedding rows of the vector table.  That table holds the rows of every *)
(* version and workspace; here says which are the snapshot's, as far as it *)
(* has their nodes.                                                        *)
(***************************************************************************)
EXTENDS GraphReads

CONSTANTS
  CatalogCandidates,   (* catalogLexicalCandidateLimit, 50 in the code       *)
  CatalogLimit         (* catalogResultLimit, 10 in the code                 *)

ASSUME SearchAssumption == CatalogCandidates \in Nat \ {0} /\ CatalogLimit \in Nat \ {0}

Catalogs == [score : [Nodes -> Nat],
             rows : SUBSET [id : Nat, node : Nodes, here : BOOLEAN, distance : Nat, cosine : Nat]]

(* What becomes of the optional embedding of the question.                 *)
Generators == {"none", "fails", "works"}

SearchCatalog(g, c) ==
  FirstN(Sorted([n \in {m \in g.nodes : c.score[m] > 0} |-> <<-c.score[n], NameRank[n], n>>]),
         CatalogCandidates)

(* The nearest rows of the whole table; equally near ones in any order.    *)
NearestRows(rows) ==
  {near \in kSubset(Min({2 * CatalogCandidates, Cardinality(rows)}), rows) :
     \A x \in near, y \in rows \ near : x.distance <= y.distance}

Own(g, rows) == {x \in rows : x.here /\ x.node \in g.nodes}

(* The version is looked at once the nearest rows are taken.               *)
SearchCatalogVectors(g, near) ==
  LET own == Own(g, near)
      distance(n) == Min({x.distance : x \in {y \in own : y.node = n}})
      ranked == FirstN(Sorted([n \in {x.node : x \in own} |-> <<distance(n), n>>]), CatalogCandidates)
  IN Sorted([n \in ToSet(ranked) |-> <<distance(n), NameRank[n], n>>])

(* Units with an embedding come first, the most similar first; the others  *)
(* keep their order.                                                       *)
rerankCatalogMatches(matches, own) ==
  LET cosines(n) == {x.cosine : x \in {y \in own : y.node = n}}
      key(i) == IF cosines(matches[i]) = {} THEN <<1, 0, i>> ELSE <<0, -Max(cosines(matches[i])), i>>
      order == Sorted([i \in DOMAIN matches |-> key(i)])
  IN [i \in DOMAIN matches |-> matches[order[i]]]

CatalogResult(matches, method, warnings) ==
  [matches |-> FirstN(matches, CatalogLimit), method |-> method, warnings |-> warnings]

(* Variant: the lexical matches are cut to the result before they are      *)
(* ranked again.                                                           *)
RankTheCut(matches, own) == rerankCatalogMatches(FirstN(matches, CatalogLimit), own)

Rerank(matches, own) == rerankCatalogMatches(matches, own)

RankCatalogSnapshot(g, c, generator, near) ==
  LET lexical == SearchCatalog(g, c)
      vectors == IF generator = "works" THEN SearchCatalogVectors(g, near) ELSE <<>>
      embedded == \E x \in Own(g, c.rows) : x.node \in ToSet(lexical)
  IN IF lexical = <<>>
     THEN IF vectors = <<>> THEN CatalogResult(<<>>, "lexical", {"no_catalog_match"})
          ELSE CatalogResult(vectors, "embeddings", {})
     ELSE IF generator = "works" /\ embedded
          THEN CatalogResult(Rerank(lexical, Own(g, c.rows)), "lexical_and_embeddings", {})
          ELSE CatalogResult(lexical, "lexical", {})
=============================================================================
