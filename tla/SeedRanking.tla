----------------------------- MODULE SeedRanking -----------------------------
(***************************************************************************)
(* The ranked retrieval of query/rank.go, and the question plans of        *)
(* query/question.go that ask for it.                                      *)
(*                                                                         *)
(* Scores are whole numbers: a score of 1 is ScoreUnit, which every 60 + r *)
(* of a rank r divides, so that the sums of reciprocal ranks are exact.    *)
(***************************************************************************)
EXTENDS GraphReads

CONSTANTS
  ScoreUnit,   (* the score 1                                              *)
  SlotLimit,   (* results of a slot's retrieval, 10 in the code            *)
  MaxSeeds,    (* maxSeedsPerTerm, 3 in the code                           *)
  Languages    (* the languages that have relations of their own           *)

ASSUME RankingAssumption ==
  /\ ScoreUnit \in Nat \ {0}
  /\ \A r \in 1..Cardinality(Nodes) : ScoreUnit % (60 + r) = 0
  /\ SlotLimit \in Nat \ {0} /\ MaxSeeds \in Nat \ {0}

NoPathName == "no path"

generic(kind) == [lang |-> "", kind |-> kind]

-----------------------------------------------------------------------------
(* Slots                                                                   *)

typeKinds == {[lang |-> "typescript", kind |-> "class"], [lang |-> "typescript", kind |-> "interface"],
              [lang |-> "typescript", kind |-> "type_alias"], [lang |-> "go", kind |-> "type"]}

(* The kinds a slot asks for.                                              *)
slotKinds(role, entityRole) ==
  CASE entityRole \in {"folder", "file"} -> {generic("file")}
    [] entityRole = "package" -> {[lang |-> "go", kind |-> "package"]}
    [] entityRole \in {"class", "service"} ->
         {[lang |-> "typescript", kind |-> "class"], [lang |-> "javascript", kind |-> "class"],
          [lang |-> "go", kind |-> "type"]}
    [] OTHER -> IF role \in {"left", "right"} THEN typeKinds ELSE {}

(* An entity is its text and the number of its tokens.                     *)
Entities == [text : [Nodes -> Text], tokens : Nat]

entitySlotWithEntityRole(role, entityRole, entity) ==
  [role |-> role, entityRole |-> entityRole, text |-> entity.text, tokens |-> entity.tokens,
   kinds |-> slotKinds(role, entityRole), sourcePath |-> NoPathName]

entitySlot(role, entity) == entitySlotWithEntityRole(role, "", entity)

-----------------------------------------------------------------------------
(* Seeds                                                                   *)

seedRoleFit(role, kind) ==
  LET modules == {"package", "module", "file", "project"}
  IN CASE role \in {"caller", "callee"} -> kind.kind \in {"function", "method"}
       [] role \in {"dependent", "dependency"} -> kind.kind \in modules
       [] role \in {"left", "right"} ->
            kind.kind \in {"class", "interface", "type_alias", "type"} \cup modules
       [] OTHER -> FALSE

seedEntityRoleFit(role, kind) ==
  CASE role \in {"folder", "file"} -> kind.kind = "file"
    [] role = "package" -> kind.kind = "package"
    [] role \in {"class", "service"} -> kind.kind \in {"class", "type"}
    [] OTHER -> FALSE

One(b) == IF b THEN 1 ELSE 0

(* Exact, Lexical, EntityRole, NodeKind, ProjectScope, PathAffinity and    *)
(* TokenCoverage of a candidate.                                           *)
seedComponents(slot, projects, n) ==
  <<One(slot.text[n].label = "equal"),
    slot.text[n].score,
    One(seedRoleFit(slot.role, Kind[n]) \/ seedEntityRoleFit(slot.entityRole, Kind[n])),
    One(Kind[n] \in slot.kinds),
    One(projects # {}),
    slot.text[n].path,
    slot.text[n].tokens>>

(* The place among the candidates, ties sharing one; a candidate without   *)
(* the component has none.                                                 *)
seedComponentRanks(values, n) ==
  IF values[n] = 0 THEN 0
  ELSE 1 + Cardinality({m \in DOMAIN values : values[m] > values[n]})

fusedScore(components, n) ==
  LET reciprocal(i) ==
        LET rank == seedComponentRanks([m \in DOMAIN components |-> components[m][i]], n)
        IN IF rank = 0 THEN 0 ELSE ScoreUnit \div (60 + rank)
  IN ScoreUnit * components[n][1] + reciprocal(1) + reciprocal(2) + reciprocal(3) + reciprocal(4)
       + reciprocal(5) + reciprocal(6) + reciprocal(7)

Seed(n, score, exact, lexical, coverage) ==
  [node |-> n, score |-> score, exact |-> exact, lexical |-> lexical, coverage |-> coverage]

fuseRankedSeeds(slot, projects, candidates) ==
  LET components == [n \in ToSet(candidates) |-> seedComponents(slot, projects, n)]
      score == [n \in ToSet(candidates) |-> fusedScore(components, n)]
      fused == Sorted([n \in ToSet(candidates) |-> <<-score[n], NameRank[n], n>>])
  IN [i \in DOMAIN fused |->
        Seed(fused[i], score[fused[i]], components[fused[i]][1] = 1, slot.text[fused[i]].score > 0,
             slot.text[fused[i]].tokens >= slot.tokens)]

(* Only the candidates that carry the text as their label, if any does.    *)
preferExactSourceLabel(slot, seeds) ==
  LET matching == At(seeds, {i \in DOMAIN seeds : slot.text[seeds[i].node].label \in {"equal", "case"}})
  IN IF matching = <<>> THEN seeds ELSE matching

(* Variant: the best ones, whatever file they are in.                      *)
KeepBest(seeds, limit) == FirstN(seeds, limit)

(* Variant: every candidate.                                               *)
DiversifyAll(seeds, limit) == seeds

(* The first candidate of every file, then the others, up to the limit.    *)
diversifyRankedSeeds(seeds, limit) ==
  LET first == {i \in DOMAIN seeds : \A j \in 1..(i - 1) : Path[seeds[j].node] # Path[seeds[i].node]}
  IN FirstN(At(seeds, first) \o At(seeds, DOMAIN seeds \ first), limit)

(* Exact matches are cut to the limit before the file is looked at, and    *)
(* hide the full-text search if one of them is left.                       *)
RankSeedRequestsSnapshot(g, slot, projects) ==
  LET inFile(s) == At(s, {i \in DOMAIN s : slot.sourcePath \in {NoPathName, Path[s[i]]}})
      exact == inFile(FirstN(LookupExactNodes(g, slot.text), SlotLimit))
      found == inFile(SearchNodes(g, slot.text, slot.kinds, projects, 4 * SlotLimit))
      ranked == IF exact # <<>>
                THEN [i \in DOMAIN exact |-> Seed(exact[i], ScoreUnit, TRUE, FALSE, FALSE)]
                ELSE fuseRankedSeeds(slot, projects, found)
  IN diversifyRankedSeeds(IF slot.sourcePath = NoPathName THEN ranked
                          ELSE preferExactSourceLabel(slot, ranked), SlotLimit)

RankSnapshot(g, text) ==
  LET matches == lookupTermMatches(g, text, MaxSeeds)
  IN [i \in DOMAIN matches |-> Seed(matches[i], ScoreUnit, FALSE, FALSE, FALSE)]

-----------------------------------------------------------------------------
(* Plans                                                                   *)

dependencyKinds == {generic("imports_from"), generic("requires"), generic("depends_on")}

Specification(operator, direction, roles, relations) ==
  [operator |-> operator, direction |-> direction, roles |-> roles, relations |-> relations]

(* copilotPlannerIntents                                                   *)
plannerIntents ==
  [lookup          |-> Specification("lookup", "both", <<"entity">>, {}),
   explain         |-> Specification("explain", "both", <<"entity">>, {}),
   calls           |-> Specification("neighbors", "outgoing", <<"caller">>, {generic("calls")}),
   called_by       |-> Specification("neighbors", "incoming", <<"callee">>, {generic("calls")}),
   dependencies    |-> Specification("neighbors", "outgoing", <<"dependent">>, dependencyKinds),
   dependents      |-> Specification("neighbors", "incoming", <<"dependency">>, dependencyKinds),
   path            |-> Specification("path", "outgoing", <<"source", "target">>, {generic("calls")}),
   reachability    |-> Specification("path", "outgoing", <<"source", "target">>, {generic("calls")}),
   shared_contract |-> Specification("intersection", "both", <<"left", "right">>,
                                     {generic("implements"), generic("contains")}),
   impact          |-> Specification("impact", "incoming", <<"changed">>, dependencyKinds \cup
                         {generic("references"), generic("implements"), generic("contains"),
                          generic("calls")})]

Plan(intent, spec, slots, by) ==
  [intent |-> intent, operator |-> spec.operator, direction |-> spec.direction,
   relations |-> spec.relations, slots |-> slots, by |-> by]

(* The rules in the order they are tried: a special form with the intent   *)
(* and the entity role it stands for, or an intent of questionRules.       *)
questionRules ==
  <<"folder", "package", "in file", "file", "class", "service", "capability", "comparison",
    "shared_contract", "impact", "path", "trace", "reachability", "called_by", "calls",
    "dependencies", "dependents", "users", "explain", "lookup">>

(* A question is the rules whose pattern it matches, the entities their    *)
(* groups capture, and the file it names.                                  *)
AnalyzeQuestion(q) ==
  LET matching == {i \in DOMAIN questionRules : questionRules[i] \in q.rules}
      rule == questionRules[Min(matching)]
      lookup == Specification("lookup", "both", <<"entity">>, {})
      explain == Specification("explain", "both", <<"entity">>, {})
      special(intent, spec, role) ==
        Plan(intent, spec, <<entitySlotWithEntityRole("entity", role, q.entities[1])>>, "rules")
      ruled(intent, spec, entities) ==
        Plan(intent, spec, [i \in DOMAIN spec.roles |-> entitySlot(spec.roles[i], entities[i])], "rules")
  IN IF matching = {}
     THEN Plan("unknown", lookup, <<entitySlot("entity", q.entities[1])>>, "rules")
     ELSE CASE rule \in {"folder", "file"} -> special("lookup", lookup, rule)
            [] rule \in {"package", "class", "service"} -> special("explain", explain, rule)
            [] rule = "in file" ->
                 Plan("explain", explain, <<[entitySlot("entity", q.entities[1])
                                               EXCEPT !.sourcePath = q.file]>>, "rules")
            [] rule = "capability" -> Plan("capability", lookup, <<>>, "rules")
            [] rule = "comparison" ->
                 Plan("dependency_comparison",
                      Specification("neighbors", "both", <<"comparison">>, dependencyKinds),
                      <<entitySlot("comparison", q.entities[1])>>, "rules")
            [] rule = "trace" ->
                 ruled("path", plannerIntents["path"], <<q.entities[2], q.entities[1]>>)
            [] rule = "users" ->
                 ruled("dependents", [plannerIntents["dependents"] EXCEPT !.relations =
                                        {generic("references"), generic("imports_from")}], q.entities)
            [] OTHER -> ruled(rule, plannerIntents[rule], q.entities)

SlotsTyped(p) == \A k \in DOMAIN p.slots : p.slots[k].text \in [Nodes -> Text]

(* A planner's reply is used if its intent is known and it names one       *)
(* entity per role.                                                        *)
validatePlannerResponse(response) ==
  /\ response.intent \in DOMAIN plannerIntents
  /\ Len(response.entities) = Len(plannerIntents[response.intent].roles)

copilotQueryPlan(response, by) ==
  LET spec == plannerIntents[response.intent]
  IN Plan(response.intent, spec,
          [i \in DOMAIN spec.roles |-> entitySlot(spec.roles[i], response.entities[i])], by)

-----------------------------------------------------------------------------
(* Relations of a plan                                                     *)

(* A generic relation stands for the ones of every language.               *)
expandLanguageRelations(relations, kinds) ==
  relations \cup {[lang |-> l, kind |-> r.kind] : l \in Languages,
                    r \in {s \in relations : s.lang = "" /\ s.kind \in kinds}}

callRelations(relations) == expandLanguageRelations(relations, {"calls"})

dependencyRelations(relations) == expandLanguageRelations(relations, {r.kind : r \in relations})

impactRelations(relations) ==
  expandLanguageRelations(relations, {"implements", "calls", "imports_from", "requires", "depends_on"})

sharedContractRelations(relations) ==
  expandLanguageRelations(relations, {"implements"}) \cup {generic("defines"), generic("references")}

relationFit(allowed, relation) == relation \in allowed \/ generic(relation.kind) \in allowed
=============================================================================
