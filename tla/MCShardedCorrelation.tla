------------------------ MODULE MCShardedCorrelation ------------------------
(* Two callers, a few processes and a file over two shards, and the tests' rule. *)
EXTENDS ShardedCorrelation, TLC

CONSTANTS c1, c2, s1, s2

MCShardOf == [i \in Ids |-> IF i \in {1, File} THEN s1 ELSE s2]

MCRules == <<[sequence |-> <<"PROCESS", "PROCESS">>, window |-> 0]>>
=============================================================================
