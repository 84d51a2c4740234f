------------------------------ MODULE Placement ------------------------------
(***************************************************************************)
(* Rendezvous placement (control/rendezvous.go, PlacementController.       *)
(* Desired): pure functions of the membership.  The hash weight is a       *)
(* constant table; ids are compared through their rank in the order of     *)
(* their names.  The membership is a set: Members returns it sorted, and   *)
(* Place sorts it again.                                                   *)
(***************************************************************************)
EXTENDS Naturals, FiniteSets

CONSTANTS
  PlacedShards,  \* 0 .. Shards-1
  PlacedNodes,
  Weight,        \* [shard -> [node -> the rendezvous score]]
  IdRank,        \* [node -> the rank of its id among the ids]
  Replicas

ASSUME PlacementAssumption ==
  /\ IsFiniteSet(PlacedNodes)
  /\ Weight \in [PlacedShards -> [PlacedNodes -> Nat]]
  /\ IdRank \in [PlacedNodes -> Nat]
  /\ \A m, n \in PlacedNodes : IdRank[m] = IdRank[n] => m = n
  /\ Replicas \in Nat

\* The order of Place's sort: larger weight first, ties to the smaller id.
Before(shard, a, b) ==
  \/ Weight[shard][a] > Weight[shard][b]
  \/ Weight[shard][a] = Weight[shard][b] /\ IdRank[a] < IdRank[b]

Rank(shard, n, candidates) == Cardinality({m \in candidates : Before(shard, m, n)})

\* The first of the candidates in that order, at most Replicas of them.
Place(shard, candidates) ==
  [i \in {j \in 1..Replicas : j <= Cardinality(candidates)} |->
     CHOOSE n \in candidates : Rank(shard, n, candidates) = i - 1]

Desired(members) == [s \in PlacedShards |-> Place(s, members)]
=============================================================================
