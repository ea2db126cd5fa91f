------------------------------ MODULE Discovery ------------------------------
(***************************************************************************)
(* workspace/discovery.go: which files of a workspace are sources, and of  *)
(* which project.  The rules are files themselves: .gitignore files, the   *)
(* manifests that make a directory a project, and the configuration.       *)
(*                                                                         *)
(* A pattern is the set of files and directories it matches.               *)
(***************************************************************************)
EXTENDS Naturals, Sequences, FiniteSets, FiniteSetsExt, SequencesExt

CONSTANTS
  Paths,             (* the files there may be                              *)
  Directories,       (* the directories, the workspace root among them      *)
  Top,               (* the workspace root, "." in the code                 *)
  DirectoriesAbove,  (* DirectoriesAbove[x]: those below Top that hold the  *)
                     (* file or directory x, the outermost first            *)
  Length,            (* Length[d]: the length of the relative path of d     *)
  SortRank,          (* SortRank[d]: its place among the sorted paths       *)
  Internal,          (* what lies in .git, node_modules, .agent-wayfinder   *)
  Language,          (* Language[p]: the language registered for p          *)
  NoLanguage,
  SourceFiles,       (* the files whose extension discovery knows           *)
  GitIgnoreOf,       (* GitIgnoreOf[d]: the .gitignore of d, or Absent      *)
  ManifestsOf,       (* ManifestsOf[d]: the manifests that d may hold       *)
  ConfigurationFile, (* .agent-wayfinder/config.json of the workspace       *)
  UserSelection,     (* what the user's configuration says of sources       *)
  ConfiguredRoots,   (* project roots the caller names                      *)
  Unset,             (* no setting                                          *)
  Broken,            (* a configuration that cannot be read                 *)
  Absent             (* no file                                             *)

ASSUME DiscoveryAssumption ==
  /\ Top \in Directories /\ Absent \notin Directories /\ DirectoriesAbove[Top] = <<>>
  /\ ConfiguredRoots \subseteq Directories
  /\ SourceFiles \subseteq {p \in Paths : Language[p] # NoLanguage}
  /\ \A x \in Paths \cup Directories : DirectoriesAbove[x] \in Seq(Directories \ {Top})
  /\ \A d \in Directories : /\ GitIgnoreOf[d] \in (Paths \ {ConfigurationFile}) \cup {Absent}
                            /\ ManifestsOf[d] \subseteq Paths \ {ConfigurationFile}

(* A directory below another one has the longer path; that of Top is ".".  *)
ASSUME LengthAssumption ==
  /\ Length \in [Directories -> Nat \ {0}] /\ Length[Top] = 1
  /\ \A p \in Paths : \A i, j \in DOMAIN DirectoriesAbove[p] :
       i < j => Length[DirectoriesAbove[p][i]] < Length[DirectoriesAbove[p][j]]

(* Paths are sorted as text: a directory comes before those below it, but  *)
(* "." comes after a directory whose name begins with "(", "+" or "-".     *)
ASSUME OrderAssumption ==
  /\ SortRank \in [Directories -> Nat] /\ IsInjective(SortRank)
  /\ \A x \in Paths \cup Directories : \A i, j \in DOMAIN DirectoriesAbove[x] :
       i < j => SortRank[DirectoriesAbove[x][i]] < SortRank[DirectoriesAbove[x][j]]

internalDirectory(x) == x \in Internal

(* rules[d]: the patterns of the .gitignore of d, if it is read.           *)
loadGitIgnoreRules(disk) ==
  [d \in Directories |->
     IF GitIgnoreOf[d] = Absent \/ internalDirectory(d) THEN <<>>
     ELSE IF disk[GitIgnoreOf[d]] = Absent THEN <<>> ELSE disk[GitIgnoreOf[d]]]

(* The last pattern that matches decides, in the order of the directories' *)
(* paths (discovery.go:220).  That puts an inner directory after an outer  *)
(* one, but for the workspace root, which may come first or last.          *)
gitIgnoredPath(rules, x) ==
  LET matching(d) == {j \in DOMAIN rules[d] : x \in rules[d][j].matches}
      found == {d \in {Top} \cup ToSet(DirectoriesAbove[x]) : matching(d) # {}}
      last == CHOOSE d \in found : \A e \in found : SortRank[e] <= SortRank[d]
  IN found # {} /\ ~rules[last][Max(matching(last))].negated

(* Variant: the directories above the file do not count.                   *)
IgnoredItself(rules, p) == gitIgnoredPath(rules, p)

(* Nothing in an ignored directory is taken back.                          *)
gitIgnored(rules, p) ==
  \/ \E d \in ToSet(DirectoriesAbove[p]) : gitIgnoredPath(rules, d)
  \/ gitIgnoredPath(rules, p)

nonSourcePathExcluded(rules, p) == internalDirectory(p) \/ gitIgnored(rules, p)

(* include and exclude of the workspace each replace the user's.           *)
ReadSourceSelection(disk) ==
  IF disk[ConfigurationFile] = Absent THEN UserSelection
  ELSE [s \in {"include", "exclude"} |->
          IF disk[ConfigurationFile][s] = Unset THEN UserSelection[s]
          ELSE disk[ConfigurationFile][s]]

SelectionFails(disk) == disk[ConfigurationFile] = Broken

sourceExcluded(rules, selection, p) ==
  \/ nonSourcePathExcluded(rules, p)
  \/ selection.include # Unset /\ p \notin selection.include
  \/ selection.exclude # Unset /\ p \in selection.exclude

projectRoots(disk, rules) ==
  ConfiguredRoots \cup {d \in Directories : \E f \in ManifestsOf[d] :
                          disk[f] # Absent /\ ~nonSourcePathExcluded(rules, f)}

(* The roots that hold p; only directories are roots.                      *)
RootsAbove(roots, p) == roots \cap ({Top} \cup ToSet(DirectoriesAbove[p]))

(* Variant: the shortest root owns the source.                             *)
WidestRoot(p, roots) ==
  CHOOSE d \in RootsAbove(roots, p) : \A e \in RootsAbove(roots, p) : Length[d] <= Length[e]

(* The longest root, and of roots of one length the first, which may be "."*)
(* or a directory with a name of one letter.                               *)
mostSpecificRoot(p, roots) ==
  LET longest == {d \in RootsAbove(roots, p) :
                    \A e \in RootsAbove(roots, p) : Length[e] <= Length[d]}
  IN CHOOSE d \in longest : \A e \in longest : SortRank[d] <= SortRank[e]

supportedSource(p) == p \in SourceFiles

(* Discover: the project of each source.                                   *)
DiscoverStream(disk) ==
  LET rules == loadGitIgnoreRules(disk)
      selection == ReadSourceSelection(disk)
      roots == projectRoots(disk, rules)
      sources == {p \in Paths : /\ disk[p] # Absent /\ supportedSource(p)
                                /\ ~sourceExcluded(rules, selection, p)
                                /\ RootsAbove(roots, p) # {}}
  IN [p \in sources |-> mostSpecificRoot(p, roots)]
=============================================================================
