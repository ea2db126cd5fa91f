--------------------------- MODULE MCIndexerManager ---------------------------
(* Small instances of IndexerManager for TLC.                              *)
EXTENDS IndexerManager, TLC

CONSTANTS p1, p2, s1, s2, c1, c2

Symmetry ==
  Permutations({p1, p2}) \cup Permutations({s1, s2}) \cup Permutations({c1, c2})
=============================================================================
