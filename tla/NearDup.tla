------------------------------- MODULE NearDup -------------------------------
(***************************************************************************)
(* The near-duplicate index of crawler/dedup: fingerprints in tables keyed *)
(* by block.  A fingerprint is the set of its bits that are 1.             *)
(***************************************************************************)
EXTENDS Integers, Sequences, FiniteSets, FiniteSetsExt

CONSTANTS
    NumBlocks, BlockBits,   \* 4 blocks of 16 bits
    HammingThreshold,       \* 3
    Fingerprints,           \* fingerprints that are added
    Clusters                \* cluster ids

(* One block more than the threshold, so that one of them agrees. *)
ASSUME NearDupAssumption ==
    /\ BlockBits \in Nat \ {0} /\ HammingThreshold \in Nat
    /\ NumBlocks \in Nat /\ NumBlocks > HammingThreshold
    /\ Fingerprints \subseteq SUBSET (0 .. NumBlocks * BlockBits - 1)
    /\ Clusters \subseteq Nat

VARIABLES
    tables, \* the set of <<block, its value, cluster>>
    fp      \* cluster -> its fingerprint

nearDupVars == <<tables, fp>>

Bits == 0 .. NumBlocks * BlockBits - 1

Hamming(a, b) == Cardinality((a \ b) \cup (b \ a))

block(f, b) == {i \in f : i \div BlockBits = b}

(* A slip: the last block has no table. *)
ThreeTables(id, f) == {<<b, block(f, b), id>> : b \in 0 .. NumBlocks - 2}

bands(id, f) == {<<b, block(f, b), id>> : b \in 0 .. NumBlocks - 1}

NewNearDupIndex ==
    /\ tables = {}
    /\ fp = [id \in {} |-> {}]

(* The candidates one block surfaces, checked in full; the closest, the    *)
(* smaller id among equals; <<>> for none.                                 *)
Query(f) ==
    LET met == {t[3] : t \in {u \in tables : u[2] = block(f, u[1])}}
        near == {id \in met : Hamming(f, fp[id]) <= HammingThreshold}
        dist == Min({Hamming(f, fp[id]) : id \in near})
    IN  IF near = {} THEN <<>> ELSE <<Min({id \in near : Hamming(f, fp[id]) = dist})>>

(* Add keeps the tables' entries for an earlier fingerprint of the id. *)
Add(id, f) ==
    /\ fp' = [i \in DOMAIN fp \cup {id} |-> IF i = id THEN f ELSE fp[i]]
    /\ tables' = tables \cup bands(id, f)

(* A near-duplicate joins the cluster Query names and adds nothing. *)
AddIfNew(newID, f) == Query(f) = <<>> /\ Add(newID, f)

NearDupNext == \E id \in Clusters, f \in Fingerprints : Add(id, f) \/ AddIfNew(id, f)

NearDupSpec == NewNearDupIndex /\ [][NearDupNext]_nearDupVars

(* NearDupExact: the block tables find what a scan of every cluster would: *)
(* the closest within the threshold, the smaller id among equals, however  *)
(* clusters were added and re-added (neardup.go:9-11 and 49-52).           *)
NearDupExact ==
    \A f \in SUBSET Bits :
        LET near == {id \in DOMAIN fp : Hamming(f, fp[id]) <= HammingThreshold}
            first == {id \in near : \A o \in near :
                        \/ Hamming(f, fp[id]) < Hamming(f, fp[o])
                        \/ Hamming(f, fp[id]) = Hamming(f, fp[o]) /\ id <= o}
        IN  Query(f) = IF near = {} THEN <<>> ELSE <<CHOOSE id \in first : TRUE>>
=============================================================================
