--------------------------- MODULE MCIndexerControl ---------------------------
(* Small instances of IndexerControl for TLC.                              *)
EXTENDS IndexerControl

CONSTANTS p1, p2, p3, c1, c2
=============================================================================
