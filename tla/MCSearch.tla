------------------------------ MODULE MCSearch ------------------------------
\* Instances of Search for TLC: results 2 and 3 tie, result 1 is on two shards,
\* and the first shard has a third replica.
EXTENDS Search

MCReplicas == <<3, 2, 2>>
MCRanked == [i \in Children |-> CASE i = 1 -> <<1, 3>> [] i = 2 -> <<2>> [] OTHER -> <<1>>]
MCScore  == [x \in 1..3 |-> IF x = 1 THEN 9 ELSE 5]
=============================================================================
