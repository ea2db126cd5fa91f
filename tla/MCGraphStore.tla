----------------------------- MODULE MCGraphStore -----------------------------
(* Small instances of GraphStore for TLC.                                  *)
EXTENDS GraphStore

CONSTANTS p1, p2, a, b, e1, e2, n1

(* e1 is owned by p1 and e2 by p2 or, with one path, by p1 too.            *)
MCOwner == [e \in Edges |-> IF e = e1 \/ p2 \notin Paths THEN p1 ELSE p2]
=============================================================================
