-------------------------- MODULE MCIncrementalIndex --------------------------
(* Small instances of IncrementalIndex for TLC.                            *)
EXTENDS IncrementalIndex, TLC

CONSTANTS a, b, c, u, ig, il, xl, ml, cf, lib, x, n, r, k

(* a and b lie in lib, which has a manifest ml and a .gitignore il, and    *)
(* sorts before "."; c in x, a project with a name of one letter that      *)
(* sorts after it, and with a .gitignore xl.  u has an extension that only *)
(* the extractors know.                                                    *)
MCAbove == [p \in {a, b, il, ml} |-> <<lib>>] @@ [p \in {c, xl} |-> <<x>>]
             @@ [p \in {u, ig, cf, Top, lib, x} |-> <<>>]
MCLength == (Top :> 1) @@ (x :> 1) @@ (lib :> 3)
MCSortRank == (lib :> 0) @@ (Top :> 1) @@ (x :> 2)
MCLanguage == [p \in {a, b, c, u} |-> "typescript"] @@ [p \in {ig, il, xl, ml, cf} |-> NoLanguage]
MCGitIgnoreOf == (Top :> ig) @@ (lib :> il) @@ (x :> xl)
MCManifestsOf == (Top :> {}) @@ (lib :> {ml}) @@ (x :> {})
MCUserSelection == [include |-> Unset, exclude |-> Unset]

(* r: a module found at b or else at c; k: the package of b and c.         *)
MCCandidates == [y \in {r, k} |-> <<b, c>>]
MCBinding == [y \in {r, k} |-> n]

Line(matches, negated) == [matches |-> matches, negated |-> negated]
Source(e, y) == [exports |-> e, refs |-> y]
MCContents ==
  [p \in {a} |-> [exports : {{}}, refs : {{r}, {k}}] \cup {Absent}]
  @@ [p \in {b, c} |-> [exports : {{}, {n}}, refs : {{}}] \cup {Absent}]
  @@ [p \in {u} |-> [exports : {{}}, refs : {{}}] \cup {Absent}]
  @@ [p \in {ig} |-> {<<Line({lib}, FALSE), Line({b}, TRUE)>>,
                      <<Line({a, b, c}, FALSE), Line({b, c}, TRUE)>>, Absent}]
  @@ [p \in {il} |-> {<<Line({a}, TRUE)>>, <<Line({b}, FALSE)>>}]
  @@ [p \in {xl} |-> {<<Line({c}, FALSE)>>, Absent}]
  @@ [p \in {ml} |-> {<<>>, Absent}]
  @@ [p \in {cf} |-> {[include |-> Unset, exclude |-> {c}], Broken, Absent}]

(* a refers to the module or to the package, of which b and c exist, or    *)
(* neither; or there is nothing yet.                                       *)
MCDisks ==
  {(a :> Source({}, {y})) @@ [p \in {b, c} |-> found] @@ (il :> <<Line({a}, TRUE)>>)
     @@ [p \in {u, ig, xl, ml, cf} |-> Absent] : y \in {r, k}, found \in {Source({n}, {}), Absent}}
  \cup {[p \in Paths |-> IF p = il THEN <<Line({a}, TRUE)>> ELSE Absent]}
MCIndexedDisks == {d \in MCDisks : d[b] # Absent /\ d[c] # Absent}

(* Sources are edited, and nothing comes, goes or changes its project.     *)
MCSourceContents ==
  [p \in SourceFiles |-> MCContents[p] \ {Absent}]
  @@ [p \in Paths |-> {d[p] : d \in MCIndexedDisks}]
=============================================================================
