CONSTANTS
  a = a
  b = b
  c = c
  u = u
  ig = ig
  il = il
  xl = xl
  ml = ml
  cf = cf
  lib = lib
  x = x
  k = k
  n = n
  r = r
  Paths = {a, b, c, u, ig, il, xl, ml, cf}
  Top = Top
  Directories = {Top, lib, x}
  DirectoriesAbove <- MCAbove
  Length <- MCLength
  SortRank <- MCSortRank
  Internal = {cf}
  Language <- MCLanguage
  NoLanguage = NoLanguage
  SourceFiles = {a, b, c}
  GitIgnoreOf <- MCGitIgnoreOf
  ManifestsOf <- MCManifestsOf
  ConfigurationFile = cf
  UserSelection <- MCUserSelection
  ConfiguredRoots = {Top, x}
  Unset = Unset
  Broken = Broken
  Names = {n}
  Refs = {r, k}
  Package = {k}
  Candidates <- MCCandidates
  Binding <- MCBinding
  Contents <- MCSourceContents
  Disks <- MCIndexedDisks
  PageSize = 2
  Absent = Absent
  Removed = Removed
  File = File
  MaxEdits = 2
  MaxIndexes = 1
SPECIFICATION Spec
CHECK_DEADLOCK FALSE
INVARIANTS
  MatchesFreshIndex
