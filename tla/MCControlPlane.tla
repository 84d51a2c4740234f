--------------------------- MODULE MCControlPlane ---------------------------
\* Instances of ControlPlane for TLC.
EXTENDS ControlPlane

CONSTANTS n1, n2, c1, c2, r1

MCWatchPrefix == [w \in Watchers |-> IF w \in Controllers THEN "node" ELSE "route"]

\* Shard 0 prefers n2, shard 1 has a tie that the smaller id wins.
MCWeight == [s \in Shards |-> [n \in Nodes |-> IF s = 0 /\ n = n2 THEN 2 ELSE 1]]
MCIdRank == [n \in Nodes |-> IF n = n1 THEN 1 ELSE 2]

\* Every text Publish can write.
MCValues == Nodes \cup {encodeNodes(ns) : ns \in {<<>>, <<n1>>, <<n2>>, <<n1, n2>>, <<n2, n1>>}}
=============================================================================
