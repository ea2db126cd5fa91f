--------------------------- MODULE MCInitialPipeline ---------------------------
(* InitialPipeline with its sources in two groups, interleaved.            *)
EXTENDS InitialPipeline

TwoGroups == [i \in Sources |-> IF i = 2 THEN 2 ELSE 1]

Nothing == [exists |-> FALSE, sources |-> {}]
NothingOrFirst == {Nothing, [exists |-> TRUE, sources |-> {1}]}
OnlyNothing == {Nothing}
=============================================================================
