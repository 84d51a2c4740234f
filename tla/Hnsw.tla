-------------------------------- MODULE Hnsw --------------------------------
(***************************************************************************)
(* The proximity graph of vector/ann: one index per segment, built by Add  *)
(* and then searched.  The index has a single writer, so Add is one step.  *)
(*                                                                         *)
(* A vector is a point and the metric a table of distances.  The distances *)
(* from one point to the others differ, so the two heaps are sets of nodes *)
(* with a nearest and a farthest member and every sort has one result.     *)
(***************************************************************************)
EXTENDS Integers, Sequences, FiniteSets, FiniteSetsExt, SequencesExt

CONSTANTS
    Points,         \* the vectors that are indexed
    Distance,       \* [Points -> [Points -> Nat]], the metric
    M,              \* the target degree; layer 0 allows twice as many
    EfConstruction, \* the width of the search that builds
    Levels          \* bound: [Points -> the layers a vector may be drawn for]

ASSUME HnswAssumption ==
    /\ M \in Nat \ {0, 1} /\ EfConstruction \in Nat \ {0}
    /\ Levels \in [Points -> SUBSET Nat]
    /\ Distance \in [Points -> [Points -> Nat]]
    /\ \A p, a, b \in Points : a # b => Distance[p][a] # Distance[p][b]

VARIABLES
    nodes, \* HNSW.nodes: [vec, neighbors], one list of nodes per layer from 0
    entry, \* the entry point, 0 when the index is empty
    pruned \* history: an edge of layer 0 was taken away

hnswVars == <<nodes, entry, pruned>>

-----------------------------------------------------------------------------
mMax0 == 2 * M

levelOf(n) == Max(DOMAIN n.neighbors)

(* The layers a loop runs through, downwards. *)
layers(from, to) == [i \in 1 .. from - to + 1 |-> from - i + 1]

dist(ns, p, i) == Distance[p][ns[i].vec]
nearest(ns, p, S) == CHOOSE i \in S : \A j \in S : dist(ns, p, i) <= dist(ns, p, j)
farthest(ns, p, S) == CHOOSE i \in S : \A j \in S : dist(ns, p, i) >= dist(ns, p, j)
sorted(ns, p, S) ==
    LET closer(i) == Cardinality({j \in S : dist(ns, p, j) < dist(ns, p, i)})
    IN  [n \in 1 .. Cardinality(S) |-> CHOOSE i \in S : closer(i) = n - 1]

(* greedyClosest: every pass ends on the closest neighbour, or stays; it   *)
(* gets closer each time, so it takes fewer passes than there are nodes.   *)
greedyClosest(ns, p, ep, lc) ==
    LET hop(i) == nearest(ns, p, {i} \cup Range(ns[i].neighbors[lc]))
        walk[n \in Nat] == IF n = 0 THEN ep ELSE hop(walk[n - 1])
    IN  walk[Len(ns)]

(* searchLayer, one neighbour looked at: within the ef best so far it is   *)
(* kept and explored later, and the farthest gives way.                    *)
visit(ns, p, ef, s, e) ==
    LET better == Cardinality(s.found) < ef \/ dist(ns, p, e) < dist(ns, p, farthest(ns, p, s.found))
        wider == s.found \cup {e}
    IN  IF e \in s.visited THEN s
        ELSE [visited |-> s.visited \cup {e},
              toVisit |-> IF better THEN s.toVisit \cup {e} ELSE s.toVisit,
              found |-> IF ~better THEN s.found
                        ELSE IF Cardinality(wider) > ef THEN wider \ {farthest(ns, p, wider)}
                        ELSE wider]

(* A slip: the search ends on a candidate as far as the farthest result. *)
SearchTurnEager(ns, p, ef, lc, s) ==
    LET c == nearest(ns, p, s.toVisit)
        beyond == /\ Cardinality(s.found) >= ef
                  /\ dist(ns, p, c) >= dist(ns, p, farthest(ns, p, s.found))
    IN  IF s.toVisit = {} \/ beyond THEN [s EXCEPT !.toVisit = {}]
        ELSE FoldLeft(LAMBDA t, e : visit(ns, p, ef, t, e),
                      [s EXCEPT !.toVisit = @ \ {c}], ns[c].neighbors[lc])

(* One turn of its loop: the nearest node to visit is expanded, unless it  *)
(* is beyond the farthest of a full result, which ends the search.         *)
searchTurn(ns, p, ef, lc, s) ==
    LET c == nearest(ns, p, s.toVisit)
        beyond == /\ Cardinality(s.found) >= ef
                  /\ dist(ns, p, c) > dist(ns, p, farthest(ns, p, s.found))
    IN  IF s.toVisit = {} \/ beyond THEN [s EXCEPT !.toVisit = {}]
        ELSE FoldLeft(LAMBDA t, e : visit(ns, p, ef, t, e),
                      [s EXCEPT !.toVisit = @ \ {c}], ns[c].neighbors[lc])

searchLayer(ns, p, ep, ef, lc) ==
    LET start == [visited |-> {ep}, toVisit |-> {ep}, found |-> {ep}]
        run[n \in Nat] == IF n = 0 THEN start ELSE searchTurn(ns, p, ef, lc, run[n - 1])
    IN  sorted(ns, p, run[Len(ns)].found)

(* selectNeighbors: nearest first, each one that is not closer to a        *)
(* neighbour already kept than to the point itself.                        *)
selectNeighbors(ns, p, cands, m) ==
    LET shadowed(kept, c) == \E i \in DOMAIN kept : dist(ns, ns[c].vec, kept[i]) < dist(ns, p, c)
        take(kept, c) == IF Len(kept) >= m \/ shadowed(kept, c) THEN kept ELSE Append(kept, c)
    IN  FoldLeft(take, <<>>, cands)

pruneNode(ns, i, lc, mMax) ==
    LET cands == sorted(ns, ns[i].vec, Range(ns[i].neighbors[lc]))
    IN  [ns EXCEPT ![i].neighbors[lc] = selectNeighbors(ns, ns[i].vec, cands, mMax)]

(* The edge back from a selected neighbour, within its budget. *)
linkBack(ns, i, cur, lc) ==
    LET mMax == IF lc = 0 THEN mMax0 ELSE M
        linked == [ns EXCEPT ![i].neighbors[lc] = Append(@, cur)]
    IN  IF Len(linked[i].neighbors[lc]) > mMax THEN pruneNode(linked, i, lc, mMax) ELSE linked

(* One layer of the insertion of node cur; the closest seeds the next. *)
wire(s, p, cur, lc) ==
    LET cands == searchLayer(s.ns, p, s.ep, EfConstruction, lc)
        selected == selectNeighbors(s.ns, p, cands, M)
    IN  [ns |-> FoldLeft(LAMBDA ns, i : linkBack(ns, i, cur, lc),
                         [s.ns EXCEPT ![cur].neighbors[lc] = selected], selected),
         ep |-> cands[1]]

-----------------------------------------------------------------------------
edges(ns) == {<<i, j>> \in (DOMAIN ns) \X (DOMAIN ns) : j \in Range(ns[i].neighbors[0])}

NewIndex == nodes = <<>> /\ entry = 0 /\ pruned = FALSE

(* Add: the level is random. *)
AddVector(p, level) ==
    LET cur == Len(nodes) + 1
        grown == Append(nodes, [vec |-> p, neighbors |-> [l \in 0 .. level |-> <<>>]])
        top == levelOf(nodes[entry])
        ep == FoldLeft(LAMBDA e, lc : greedyClosest(grown, p, e, lc), entry, layers(top, level + 1))
    IN  /\ IF entry = 0 THEN nodes' = grown /\ entry' = cur
           ELSE /\ nodes' = FoldLeft(LAMBDA s, lc : wire(s, p, cur, lc), [ns |-> grown, ep |-> ep],
                                     layers(Min({level, top}), 0)).ns
                /\ entry' = IF level > top THEN cur ELSE entry
        /\ pruned' = \/ pruned \/ ~(edges(nodes) \subseteq edges(nodes'))
                     \/ \E i \in Range(nodes'[cur].neighbors[0]) : <<i, cur>> \notin edges(nodes')

HnswNext ==
    \E p \in Points \ {nodes[i].vec : i \in DOMAIN nodes} :
        \E level \in Levels[p] : AddVector(p, level)

descent(p) ==
    FoldLeft(LAMBDA e, lc : greedyClosest(nodes, p, e, lc), entry, layers(levelOf(nodes[entry]), 1))

(* Search of a non-empty index: the nodes found, nearest first. *)
SearchVector(p, k, ef) ==
    LET cands == searchLayer(nodes, p, descent(p), Max({ef, k}), 0)
    IN  SubSeq(cands, 1, Min({k, Len(cands)}))

-----------------------------------------------------------------------------
reachable(ep) ==
    LET reach[n \in Nat] ==
            IF n = 0 THEN {ep}
            ELSE LET R == reach[n - 1] IN R \cup {e[2] : e \in {d \in edges(nodes) : d[1] \in R}}
    IN  reach[Len(nodes)]

(* GraphNavigable: whatever the order of insertion and the levels drawn,   *)
(* an edge of a layer leads to another node of that layer and no list      *)
(* exceeds its budget, so that no walk leaves the graph; the entry point   *)
(* is as tall as any node; a search as wide as the index returns all that  *)
(* can be reached in layer 0, in order, which is every vector as long as   *)
(* no edge was pruned; and the narrowest search stops only where no        *)
(* neighbour is nearer (Add, pruneNode and Search, hnsw.go:112, 264, 277). *)
GraphNavigable ==
    /\ \A i \in DOMAIN nodes :
         /\ levelOf(nodes[i]) <= levelOf(nodes[entry])
         /\ \A lc \in DOMAIN nodes[i].neighbors :
              LET list == nodes[i].neighbors[lc]
              IN  /\ Len(list) <= IF lc = 0 THEN mMax0 ELSE M
                  /\ IsInjective(list)
                  /\ \A j \in Range(list) : j # i /\ lc \in DOMAIN nodes[j].neighbors
    /\ nodes # <<>> => \A p \in Points :
         LET all == reachable(descent(p))
             one == SearchVector(p, 1, 1)[1]
         IN  /\ SearchVector(p, Len(nodes), Len(nodes)) = sorted(nodes, p, all)
             /\ pruned \/ all = DOMAIN nodes
             /\ \A j \in Range(nodes[one].neighbors[0]) : dist(nodes, p, one) <= dist(nodes, p, j)
=============================================================================
