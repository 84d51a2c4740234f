------------------------------- MODULE MCCrawl -------------------------------
(***************************************************************************)
(* What the crawler asks and keeps, for TLC: the rules of robots.txt, the  *)
(* near-duplicate index, and the web table and link graph.  They share no  *)
(* state, so one behaviour exercises one of them: part says which.         *)
(***************************************************************************)
EXTENDS Storage, Robots, NearDup

VARIABLE part

vars == <<storageVars, robotsVars, nearDupVars, part>>

(* Awkward keys: one is a prefix of another, one holds a zero byte, one    *)
(* ends in 255.                                                            *)
MCRows == {<<97>>, <<97, 0>>}
MCQuals == {<<>>, <<255>>}
MCNodes == {<<97>>, <<97, 0>>}

(* "/", "/*ab", "/a$" and "*a*b$"; agents "a", "ab", "*" and none. *)
MCLines ==
    [field : {"user-agent"}, value : {<<>>, <<0>>, <<1>>, <<1, 2>>}]
    \cup [field : {"allow", "disallow"},
          value : {<<>>, <<5>>, <<5, 0, 1, 2>>, <<5, 1, 9>>, <<0, 1, 0, 2, 9>>}]
    \cup [field : {"crawl-delay"}, value : {-1, 2}]
    \cup [field : {"sitemap"}, value : {<<5>>}]
    \cup [field : {"none"}, value : {<<>>}]

MCUserAgents == {<<1, 2>>, <<3, 1>>}
MCPaths == {<<>>, <<5, 1>>, <<5, 1, 1, 2>>, <<5, 2, 1>>}

MCFingerprints == {{}, {0, 2, 4}, {1, 3, 5}, {0, 2, 4, 6}}

Init ==
    /\ part \in {"storage", "robots", "neardup"}
    /\ StorageInit /\ RobotsInit /\ NewNearDupIndex

Next ==
    /\ UNCHANGED part
    /\ \/ part = "storage" /\ StorageNext /\ UNCHANGED <<robotsVars, nearDupVars>>
       \/ part = "robots" /\ RobotsNext /\ UNCHANGED <<storageVars, nearDupVars>>
       \/ part = "neardup" /\ NearDupNext /\ UNCHANGED <<storageVars, robotsVars>>

Spec == Init /\ [][Next]_vars
=============================================================================
