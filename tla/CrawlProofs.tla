----------------------------- MODULE CrawlProofs -----------------------------
(***************************************************************************)
(* Proofs about what the crawler keeps and obeys: the near-duplicate index *)
(* finds what a scan would; the storage engine, read and written by its    *)
(* byte keys, is the versioned table and the symmetric link graph it       *)
(* stands for; and the answers about a robots.txt are those of its lines.  *)
(***************************************************************************)
EXTENDS Storage, NearDup, Robots, IterationProofs, FiniteSetTheorems, SequenceTheorems

-----------------------------------------------------------------------------
(***************************************************************************)
(* Near-duplicates.                                                        *)
(***************************************************************************)

Blocks == 0 .. NumBlocks - 1

\* The tables know every cluster by each block of its present fingerprint, and no
\* other cluster.
NearDupInv ==
  /\ DOMAIN fp \subseteq Nat
  /\ \A id \in DOMAIN fp : fp[id] \in SUBSET Bits
  /\ \A id \in DOMAIN fp : \A b \in Blocks : <<b, block(fp[id], b), id>> \in tables
  /\ \A t \in tables : t[3] \in DOMAIN fp

\* A distance is a number.
LEMMA HammingType ==
  ASSUME NEW f \in SUBSET Bits, NEW g \in SUBSET Bits
  PROVE  IsFiniteSet((f \ g) \cup (g \ f)) /\ Hamming(f, g) \in Nat
  <1> DEFINE D == (f \ g) \cup (g \ f)
  <1>1. NumBlocks * BlockBits - 1 \in Int
    BY NearDupAssumption
  <1>2. IsFiniteSet(Bits)
    BY <1>1, FS_Interval DEF Bits
  <1>3. D \in SUBSET Bits
    OBVIOUS
  <1>4. IsFiniteSet(D)
    BY <1>2, <1>3, FS_Subset
  <1> QED
    BY <1>4, FS_CardinalityType DEF Hamming

\* The pigeonhole: with more blocks than bits that differ, some block agrees.
LEMMA SomeBlockAgrees ==
  ASSUME NEW f \in SUBSET Bits, NEW g \in SUBSET Bits, Hamming(f, g) <= HammingThreshold
  PROVE  \E b \in Blocks : block(f, b) = block(g, b)
  <1> SUFFICES ASSUME \A b \in Blocks : block(f, b) # block(g, b) PROVE FALSE
    OBVIOUS
  <1> DEFINE D == (f \ g) \cup (g \ f)
             A == {i \in D : i \div BlockBits \in Blocks}
             h == [i \in A |-> i \div BlockBits]
  <1>1. IsFiniteSet(D) /\ Cardinality(D) = Hamming(f, g) /\ Hamming(f, g) \in Nat
    BY HammingType DEF Hamming
  <1>2. A \in SUBSET D
    OBVIOUS
  <1>3. IsFiniteSet(A) /\ Cardinality(A) <= Cardinality(D) /\ Cardinality(A) \in Nat
    BY <1>1, <1>2, FS_Subset, FS_CardinalityType
  <1>4. ASSUME NEW b \in Blocks PROVE \E i \in A : h[i] = b
    <2>1. PICK i : (i \in block(f, b)) # (i \in block(g, b))
      OBVIOUS
    <2>2. i \in D /\ i \div BlockBits = b
      BY <2>1 DEF block
    <2> QED
      BY <2>2
  <1>5. h \in Surjection(A, Blocks)
    BY <1>4 DEF Surjection
  <1>6. IsFiniteSet(Blocks) /\ Cardinality(Blocks) = NumBlocks
    <2>1. 0 \in Int /\ NumBlocks - 1 \in Int /\ NumBlocks \in Nat /\ ~(0 > NumBlocks - 1)
          /\ (NumBlocks - 1) - 0 + 1 = NumBlocks
      BY NearDupAssumption
    <2> QED
      BY <2>1, FS_Interval DEF Blocks
  <1> HIDE DEF A, h, D
  <1>7. Cardinality(Blocks) <= Cardinality(A)
    BY <1>3, <1>5, FS_Surjection
  <1> QED
    BY <1>1, <1>3, <1>6, <1>7, NearDupAssumption

\* The index starts empty.
LEMMA NearDupInvInit == NewNearDupIndex => NearDupInv
  BY DEF NewNearDupIndex, NearDupInv

\* Add enters a cluster under all its blocks; entries of earlier fingerprints of a
\* cluster that is added again stay and do no harm.
LEMMA NearDupInvNext == NearDupInv /\ [NearDupNext]_nearDupVars => NearDupInv'
  <1> SUFFICES ASSUME NearDupInv, [NearDupNext]_nearDupVars PROVE NearDupInv'
    OBVIOUS
  <1>1. CASE UNCHANGED nearDupVars
    BY <1>1 DEF NearDupInv, nearDupVars
  <1>2. ASSUME NEW id \in Clusters, NEW f \in Fingerprints, Add(id, f) PROVE NearDupInv'
    <2>1. f \in SUBSET Bits /\ id \in Nat
      BY NearDupAssumption DEF Bits
    <2>2. DOMAIN fp' = DOMAIN fp \cup {id} /\ \A i \in DOMAIN fp' : fp'[i] = IF i = id THEN f ELSE fp[i]
      BY <1>2 DEF Add
    <2>3. tables' = tables \cup {<<b, block(f, b), id>> : b \in Blocks}
      BY <1>2 DEF Add, bands, Blocks
    <2>4. ASSUME NEW i \in DOMAIN fp', NEW b \in Blocks PROVE <<b, block(fp'[i], b), i>> \in tables'
      BY <2>2, <2>3 DEF NearDupInv
    <2>5. ASSUME NEW t \in tables' PROVE t[3] \in DOMAIN fp'
      BY <2>2, <2>3 DEF NearDupInv
    <2> QED
      BY <2>1, <2>2, <2>4, <2>5 DEF NearDupInv
  <1> QED
    BY <1>1, <1>2 DEF NearDupNext, AddIfNew

\* A non-empty set of numbers has a minimum.
LEMMA MinOfNumbers ==
  ASSUME NEW S \in SUBSET Nat, S # {}
  PROVE  Min(S) \in S /\ \A y \in S : Min(S) <= y
  <1>1. \E x \in S : \A y \in S : x <= y
    BY LeastNumber
  <1> QED
    BY <1>1 DEF Min

\* The tables find what a scan of all clusters would, for any fingerprints, clusters
\* and order of additions (NearDupIndex.Query, neardup.go:49).
THEOREM NearDupIsExact == NearDupSpec => []NearDupExact
  <1>1. NearDupInv => NearDupExact
    <2> SUFFICES ASSUME NearDupInv, NEW f \in SUBSET Bits
                 PROVE  LET near == {id \in DOMAIN fp : Hamming(f, fp[id]) <= HammingThreshold}
                            first == {id \in near : \A o \in near :
                                       \/ Hamming(f, fp[id]) < Hamming(f, fp[o])
                                       \/ Hamming(f, fp[id]) = Hamming(f, fp[o]) /\ id <= o}
                        IN  Query(f) = IF near = {} THEN <<>> ELSE <<CHOOSE id \in first : TRUE>>
      BY DEF NearDupExact
    <2> DEFINE H(id) == Hamming(f, fp[id])
               near == {id \in DOMAIN fp : H(id) <= HammingThreshold}
               met == {t[3] : t \in {u \in tables : u[2] = block(f, u[1])}}
               dists == {H(id) : id \in near}
               best == {id \in near : H(id) = Min(dists)}
               first == {id \in near : \A o \in near : H(id) < H(o) \/ (H(id) = H(o) /\ id <= o)}
    <2>1. \A id \in DOMAIN fp : H(id) \in Nat /\ id \in Nat
      BY HammingType DEF NearDupInv
    <2>2. {id \in met : H(id) <= HammingThreshold} = near
      <3>1. ASSUME NEW id \in met PROVE id \in DOMAIN fp
        BY DEF NearDupInv
      <3>2. ASSUME NEW id \in near PROVE id \in met
        <4>1. PICK b \in Blocks : block(f, b) = block(fp[id], b)
          BY SomeBlockAgrees DEF NearDupInv
        <4> DEFINE t == <<b, block(fp[id], b), id>>
        <4>2. t \in tables /\ t[1] = b /\ t[2] = block(f, t[1]) /\ t[3] = id
          BY <4>1 DEF NearDupInv
        <4> HIDE DEF t
        <4> QED
          BY <4>2
      <3> HIDE DEF H, met
      <3> QED
        BY <3>1, <3>2
    <2>3. Query(f) = IF near = {} THEN <<>> ELSE <<Min(best)>>
      BY <2>2, Zenon DEF Query
    <2> HIDE DEF H
    <2>4. CASE near # {}
      <3>1. dists \in SUBSET Nat /\ dists # {}
        BY <2>1, <2>4
      <3>2. Min(dists) \in dists /\ \A y \in dists : Min(dists) <= y
        BY <3>1, MinOfNumbers
      <3> DEFINE d == Min(dists)
                 m == Min(best)
      <3>3. best \in SUBSET Nat /\ best # {}
        BY <2>1, <3>2
      <3>4. m \in best /\ \A y \in best : m <= y
        BY <3>3, MinOfNumbers
      <3>5. m \in near /\ \A o \in near : H(m) <= H(o)
        BY <3>2, <3>4
      <3>6. \A o \in near : H(o) = H(m) => m <= o
        BY <3>4
      <3> HIDE DEF m
      <3>7. m \in first
        BY <2>1, <3>5, <3>6
      <3>8. \A o \in first : o = m
        BY <2>1, <3>5, <3>6
      <3>9. (CHOOSE id \in first : TRUE) = m
        <4> HIDE DEF first
        <4> QED
          BY <3>7, <3>8
      <3> QED
        BY <2>3, <2>4, <3>9 DEF m, H
    <2> QED
      BY <2>3, <2>4 DEF H
  <1> QED
    BY <1>1, NearDupInvInit, NearDupInvNext, PTL DEF NearDupSpec

-----------------------------------------------------------------------------
(***************************************************************************)
(* The order of keys.  A key is read as if -1 followed its last byte, so   *)
(* that two keys compare at the first place where they differ.             *)
(***************************************************************************)

Bytes == Seq(Byte)

At(a, i) == IF i \in 1 .. Len(a) THEN a[i] ELSE -1

\* At place i, and at no place before it, a and b differ, and a is the smaller.
Splits(a, b, i) == At(a, i) < At(b, i) /\ \A j \in 1 .. i - 1 : At(a, j) = At(b, j)

\* What stands at a place of a key.
LEMMA AtType ==
  ASSUME NEW a \in Bytes, NEW i \in Nat \ {0}
  PROVE  /\ At(a, i) \in Int /\ At(a, i) >= -1 /\ At(a, i) <= 255
         /\ Len(a) \in Nat /\ DOMAIN a = 1 .. Len(a)
         /\ (At(a, i) >= 0 <=> i <= Len(a)) /\ (i <= Len(a) => At(a, i) = a[i] /\ a[i] \in Byte)
  <1>1. Len(a) \in Nat /\ DOMAIN a = 1 .. Len(a)
    BY DEF Bytes
  <1>2. CASE i <= Len(a)
    <2>1. i \in 1 .. Len(a)
      BY <1>1, <1>2
    <2>2. a[i] \in Byte
      BY <2>1 DEF Bytes
    <2>3. At(a, i) = a[i]
      BY <2>1 DEF At
    <2>4. a[i] \in Int /\ a[i] >= 0 /\ a[i] <= 255
      BY <2>2 DEF Byte
    <2> QED
      BY <1>1, <1>2, <2>2, <2>3, <2>4
  <1>3. CASE ~(i <= Len(a))
    BY <1>1, <1>3 DEF At
  <1> QED
    BY <1>2, <1>3

\* Two keys that agree at every place are the same key.
LEMMA SameKey ==
  ASSUME NEW a \in Bytes, NEW b \in Bytes, \A i \in Nat \ {0} : At(a, i) = At(b, i)
  PROVE  a = b
  <1>1. Len(a) \in Nat /\ Len(b) \in Nat
    BY DEF Bytes
  <1>2. Len(a) = Len(b)
    <2>1. ASSUME Len(a) < Len(b) PROVE FALSE
      <3>1. Len(b) \in Nat \ {0} /\ ~(Len(b) <= Len(a))
        BY <1>1, <2>1
      <3> QED
        BY <3>1, AtType
    <2>2. ASSUME Len(b) < Len(a) PROVE FALSE
      <3>1. Len(a) \in Nat \ {0} /\ ~(Len(a) <= Len(b))
        BY <1>1, <2>2
      <3> QED
        BY <3>1, AtType
    <2> QED
      BY <1>1, <2>1, <2>2
  <1>3. ASSUME NEW i \in 1 .. Len(a) PROVE a[i] = b[i]
    <2>1. i \in Nat \ {0} /\ i <= Len(a) /\ i <= Len(b)
      BY <1>1, <1>2
    <2>2. At(a, i) = a[i]
      BY <2>1, AtType
    <2>3. At(b, i) = b[i]
      BY <2>1, AtType
    <2> QED
      BY <2>1, <2>2, <2>3
  <1> QED
    BY <1>2, <1>3, SeqEqual DEF Bytes

\* bytes.Compare, as the first difference.
LEMMA LessIsSplit ==
  ASSUME NEW a \in Bytes, NEW b \in Bytes
  PROVE  Less(a, b) <=> \E i \in Nat \ {0} : Splits(a, b, i)
  <1>1. /\ Len(a) \in Nat /\ DOMAIN a = 1 .. Len(a)
        /\ Len(b) \in Nat /\ DOMAIN b = 1 .. Len(b)
    BY DEF Bytes
  <1>0. Len(a) \in Nat /\ Len(b) \in Nat
    BY <1>1
  <1>2. ASSUME IsStrictPrefix(a, b) PROVE \E i \in Nat \ {0} : Splits(a, b, i)
    <2>0. Len(a) <= Len(b)
      BY <1>2 DEF IsStrictPrefix, IsPrefix
    <2>1. SubSeq(a, 1, Len(a)) = SubSeq(b, 1, Len(a)) /\ a # b
      BY <1>2 DEF IsStrictPrefix, IsPrefix
    <2>2. ASSUME NEW i \in 1 .. Len(a) PROVE a[i] = b[i]
      <3>1. SubSeq(a, 1, Len(a))[i] = a[i] /\ SubSeq(b, 1, Len(a))[i] = b[i]
        BY <1>1, <2>0 DEF Bytes
      <3> QED
        BY <2>1, <3>1
    <2>3. Len(a) # Len(b)
      BY <2>1, <2>2, SeqEqual DEF Bytes
    <2> DEFINE m == Len(a) + 1
    <2>4. m \in Nat \ {0} /\ m <= Len(b) /\ ~(m <= Len(a))
      BY <1>0, <2>0, <2>3
    <2>5. At(a, m) < At(b, m)
      BY <2>4, AtType
    <2>6. ASSUME NEW j \in 1 .. m - 1 PROVE At(a, j) = At(b, j)
      <3>1. j \in 1 .. Len(a) /\ j \in 1 .. Len(b)
        BY <1>1, <2>0
      <3> QED
        BY <2>2, <3>1 DEF At
    <2> QED
      BY <2>4, <2>5, <2>6 DEF Splits
  <1>3. ASSUME NEW i \in DOMAIN a \cap DOMAIN b, a[i] < b[i], \A j \in 1 .. i - 1 : a[j] = b[j]
        PROVE  \E k \in Nat \ {0} : Splits(a, b, k)
    <2>1. i \in Nat \ {0} /\ i \in 1 .. Len(a) /\ i \in 1 .. Len(b)
      BY <1>1
    <2>2. ASSUME NEW j \in 1 .. i - 1 PROVE At(a, j) = At(b, j)
      <3>1. j \in 1 .. Len(a) /\ j \in 1 .. Len(b)
        BY <1>1, <2>1
      <3> QED
        BY <1>3, <3>1 DEF At
    <2> QED
      BY <1>3, <2>1, <2>2 DEF Splits, At
  <1>4. ASSUME NEW i \in Nat \ {0}, Splits(a, b, i) PROVE Less(a, b)
    <2>0. At(a, i) \in Int /\ At(b, i) \in Int /\ At(a, i) >= -1
      BY AtType
    <2>1. At(b, i) >= 0
      BY <1>4, <2>0 DEF Splits
    <2>2. i <= Len(b) /\ At(b, i) = b[i]
      BY <2>1, AtType
    <2>9. i <= Len(b)
      BY <2>2
    <2>3. ASSUME NEW j \in 1 .. i - 1 PROVE j <= Len(a) /\ j <= Len(b) /\ a[j] = b[j]
      <3>1. j \in Nat \ {0} /\ j <= Len(b)
        BY <1>1, <2>2
      <3>2. At(b, j) >= 0 /\ At(b, j) = b[j] /\ At(a, j) = At(b, j)
        BY <1>4, <3>1, AtType DEF Splits
      <3>3. j <= Len(a) /\ At(a, j) = a[j]
        BY <3>1, <3>2, AtType
      <3> QED
        BY <3>1, <3>2, <3>3
    <2>4. CASE i <= Len(a)
      <3>1. i \in DOMAIN a \cap DOMAIN b
        BY <1>1, <2>2, <2>4
      <3>2. a[i] < b[i]
        BY <1>4, <2>2, <2>4, AtType DEF Splits
      <3> QED
        BY <2>3, <3>1, <3>2 DEF Less
    <2>5. CASE ~(i <= Len(a))
      <3>1. i = Len(a) + 1
        <4>1. ASSUME i # Len(a) + 1 PROVE FALSE
          <5>1. Len(a) + 1 \in 1 .. i - 1
            BY <1>1, <2>5, <4>1
          <5> QED
            BY <1>1, <2>3, <5>1
        <4> QED
          BY <4>1
      <3>2. Len(a) <= Len(b) /\ Len(a) # Len(b)
        BY <1>0, <2>9, <3>1
      <3>3. SubSeq(a, 1, Len(a)) = SubSeq(b, 1, Len(a))
        <4>1. SubSeq(a, 1, Len(a)) = [k \in 1 .. Len(a) |-> a[k]]
          BY <1>1 DEF Bytes
        <4>2. SubSeq(b, 1, Len(a)) = [k \in 1 .. Len(a) |-> b[k]]
          <5>1. Len(a) \in 0 .. Len(b)
            BY <1>0, <3>2
          <5> QED
            BY <5>1, SubSeqRestrict DEF Bytes, Restrict
        <4>3. \A k \in 1 .. Len(a) : a[k] = b[k]
          BY <1>1, <2>3, <3>1
        <4> QED
          BY <4>1, <4>2, <4>3
      <3> QED
        BY <3>2, <3>3 DEF Less, IsStrictPrefix, IsPrefix
    <2> QED
      BY <2>4, <2>5
  <1> QED
    BY <1>2, <1>3, <1>4 DEF Less

\* The order of keys is strict and total.
LEMMA LessIsTotal ==
  ASSUME NEW a \in Bytes, NEW b \in Bytes, NEW c \in Bytes
  PROVE  /\ ~Less(a, a)
         /\ Less(a, b) /\ Less(b, c) => Less(a, c)
         /\ a = b \/ Less(a, b) \/ Less(b, a)
  <1>1. ~Less(a, a)
    BY LessIsSplit, AtType DEF Splits
  <1>2. ASSUME Less(a, b), Less(b, c) PROVE Less(a, c)
    <2>1. PICK i \in Nat \ {0} : Splits(a, b, i)
      BY <1>2, LessIsSplit
    <2>2. PICK k \in Nat \ {0} : Splits(b, c, k)
      BY <1>2, LessIsSplit
    <2> DEFINE m == IF i <= k THEN i ELSE k
    <2>3. m \in Nat \ {0} /\ m <= i /\ m <= k
      OBVIOUS
    <2>4. \A j \in 1 .. m - 1 : At(a, j) = At(b, j) /\ At(b, j) = At(c, j)
      BY <2>1, <2>2, <2>3 DEF Splits
    <2>5. At(a, m) < At(c, m)
      <3>1. At(a, m) \in Int /\ At(b, m) \in Int /\ At(c, m) \in Int
        BY <2>3, AtType
      <3>2. At(a, m) <= At(b, m) /\ At(b, m) <= At(c, m)
        BY <2>1, <2>2, <2>3, <3>1 DEF Splits
      <3>3. At(a, m) < At(b, m) \/ At(b, m) < At(c, m)
        BY <2>1, <2>2 DEF Splits
      <3> QED
        BY <3>1, <3>2, <3>3
    <2>6. Splits(a, c, m)
      BY <2>4, <2>5 DEF Splits
    <2> QED
      BY <2>3, <2>6, LessIsSplit
  <1>3. ASSUME a # b PROVE Less(a, b) \/ Less(b, a)
    <2> DEFINE D == {i \in Nat \ {0} : At(a, i) # At(b, i)}
    <2>1. D # {} /\ D \in SUBSET Nat
      BY <1>3, SameKey
    <2>2. PICK i \in D : \A j \in D : i <= j
      BY <2>1, LeastNumber
    <2>3. \A j \in 1 .. i - 1 : At(a, j) = At(b, j)
      BY <2>2
    <2>4. At(a, i) \in Int /\ At(b, i) \in Int /\ i \in Nat \ {0} /\ At(a, i) # At(b, i)
      BY <2>2, AtType
    <2>5. Splits(a, b, i) \/ Splits(b, a, i)
      BY <2>3, <2>4 DEF Splits
    <2> QED
      BY <2>4, <2>5, LessIsSplit
  <1> QED
    BY <1>1, <1>2, <1>3

\* k begins with p.
StartsWith(k, p) == \A i \in 1 .. Len(p) : At(k, i) = At(p, i)

\* A non-empty set of numbers with a bound has a maximum.
LEMMA MaxOfNumbers ==
  ASSUME NEW S \in SUBSET Nat, S # {}, NEW N \in Nat, \A x \in S : x <= N
  PROVE  Max(S) \in S /\ \A y \in S : Max(S) >= y
  <1> DEFINE D == {N - x : x \in S}
  <1>1. D \in SUBSET Nat /\ D # {}
    <2>1. \A x \in S : N - x \in Nat
      OBVIOUS
    <2> QED
      BY <2>1
  <1>2. PICK d \in D : \A e \in D : d <= e
    BY <1>1, LeastNumber
  <1>3. PICK x \in S : d = N - x
    BY <1>2
  <1>4. ASSUME NEW y \in S PROVE x >= y
    <2>1. d <= N - y
      BY <1>2
    <2> QED
      BY <1>3, <2>1
  <1> QED
    BY <1>4 DEF Max

\* What PrefixEnd returns, for a prefix that has a byte to raise.
LEMMA PrefixEndAt ==
  ASSUME NEW p \in Bytes, NEW z \in 1 .. Len(p), p[z] # 255
  PROVE  /\ PrefixEnd(p) \in Bytes /\ PrefixEnd(p) # <<>>
         /\ \E i \in 1 .. Len(p) :
              /\ \A j \in i + 1 .. Len(p) : p[j] = 255
              /\ \A j \in 1 .. i - 1 : At(PrefixEnd(p), j) = At(p, j)
              /\ At(PrefixEnd(p), i) = At(p, i) + 1
              /\ \A j \in Nat \ {0} : j > i => At(PrefixEnd(p), j) = -1
  <1>0. Len(p) \in Nat /\ DOMAIN p = 1 .. Len(p)
    BY DEF Bytes
  <1> DEFINE S == {j \in DOMAIN p : p[j] # 255} \cup {0}
             i == Max(S)
             q == SubSeq(p, 1, i - 1)
             e == Append(q, p[i] + 1)
  <1>1. S \in SUBSET Nat /\ S # {} /\ \A x \in S : x <= Len(p)
    BY <1>0
  <1>2. i \in S /\ \A y \in S : i >= y
    <2> HIDE DEF S
    <2> QED
      BY <1>0, <1>1, MaxOfNumbers
  <1> HIDE DEF i
  <1>3. i \in 1 .. Len(p) /\ p[i] # 255
    BY <1>0, <1>2
  <1>4. \A j \in i + 1 .. Len(p) : p[j] = 255
    BY <1>0, <1>2, <1>3
  <1>5. p[i] \in Byte
    BY <1>3 DEF Bytes
  <1>6. p[i] + 1 \in Byte
    <2>1. p[i] # 255
      BY <1>3
    <2>2. \A x \in Byte : x # 255 => x + 1 \in Byte
      BY DEF Byte
    <2> QED
      BY <1>5, <2>1, <2>2
  <1>7. q \in Bytes /\ Len(q) = i - 1 /\ \A j \in 1 .. i - 1 : q[j] = p[j]
    <2>1. i - 1 \in 0 .. Len(p)
      BY <1>0, <1>3
    <2>2. q = [j \in 1 .. i - 1 |-> p[j]]
      BY <2>1, SubSeqRestrict DEF Bytes, Restrict
    <2>3. \A j \in 1 .. i - 1 : p[j] \in Byte
      BY <1>0, <2>1 DEF Bytes
    <2> HIDE DEF q
    <2>4. q \in [1 .. i - 1 -> Byte]
      BY <2>2, <2>3
    <2>5. i - 1 \in Nat
      BY <1>0, <1>3
    <2> QED
      BY <2>2, <2>4, <2>5 DEF Bytes
  <1> HIDE DEF q
  <1>8. e \in Bytes /\ Len(e) = i /\ e[i] = p[i] + 1 /\ \A j \in 1 .. i - 1 : e[j] = p[j]
    BY <1>3, <1>6, <1>7 DEF Bytes
  <1>9. PrefixEnd(p) = e
    <2>1. PrefixEnd(p) = IF i = 0 THEN <<>> ELSE e
      BY Zenon DEF PrefixEnd, i, q
    <2>2. i # 0
      BY <1>3
    <2> QED
      BY <2>1, <2>2
  <1> HIDE DEF e
  <1>10. \A j \in 1 .. i - 1 : At(e, j) = At(p, j)
    <2> SUFFICES ASSUME NEW j \in 1 .. i - 1 PROVE At(e, j) = At(p, j)
      OBVIOUS
    <2>1. j \in 1 .. Len(e) /\ j \in 1 .. Len(p)
      BY <1>0, <1>3, <1>8
    <2> QED
      BY <1>8, <2>1 DEF At
  <1>11. At(e, i) = At(p, i) + 1
    BY <1>3, <1>8 DEF At
  <1>12. \A j \in Nat \ {0} : j > i => At(e, j) = -1
    BY <1>3, <1>8 DEF At
  <1>13. e # <<>>
    BY <1>3, <1>8
  <1> QED
    BY <1>3, <1>4, <1>8, <1>9, <1>10, <1>11, <1>12, <1>13

\* The range of a prefix scan holds the keys with that prefix and no others
\* (storage.go, PrefixEnd and ScanPrefix).
THEOREM ScanIsPrefix ==
  ASSUME NEW k \in Bytes, NEW p \in Bytes, NEW z \in 1 .. Len(p), p[z] # 255
  PROVE  ~Less(k, p) /\ (PrefixEnd(p) = <<>> \/ Less(k, PrefixEnd(p))) <=> StartsWith(k, p)
  <1> DEFINE e == PrefixEnd(p)
  <1>0. Len(p) \in Nat
    BY DEF Bytes
  <1>1. e \in Bytes /\ e # <<>>
    BY PrefixEndAt
  <1>2. PICK i \in 1 .. Len(p) :
              /\ \A j \in i + 1 .. Len(p) : p[j] = 255
              /\ \A j \in 1 .. i - 1 : At(e, j) = At(p, j)
              /\ At(e, i) = At(p, i) + 1
              /\ \A j \in Nat \ {0} : j > i => At(e, j) = -1
    BY PrefixEndAt
  <1>3. i \in Nat \ {0} /\ i <= Len(p)
    BY <1>0
  <1> HIDE DEF e
  <1>4. ASSUME StartsWith(k, p) PROVE ~Less(k, p) /\ Less(k, e)
    <2>1. ASSUME Less(k, p) PROVE FALSE
      <3>1. PICK m \in Nat \ {0} : Splits(k, p, m)
        BY <2>1, LessIsSplit
      <3>2. At(k, m) \in Int /\ At(p, m) \in Int /\ At(k, m) >= -1
        BY AtType
      <3>3. At(p, m) >= 0
        BY <3>1, <3>2 DEF Splits
      <3>4. m <= Len(p)
        BY <3>3, AtType
      <3>5. At(k, m) = At(p, m)
        BY <1>0, <1>4, <3>4 DEF StartsWith
      <3> QED
        BY <3>1, <3>2, <3>5 DEF Splits
    <2>2. Splits(k, e, i)
      <3>1. At(p, i) \in Int
        BY <1>3, AtType
      <3>2. At(k, i) < At(e, i)
        BY <1>2, <1>4, <3>1 DEF StartsWith
      <3>3. ASSUME NEW j \in 1 .. i - 1 PROVE At(k, j) = At(e, j)
        <4>1. j \in 1 .. Len(p)
          BY <1>0
        <4> QED
          BY <1>2, <1>4, <4>1 DEF StartsWith
      <3> QED
        BY <3>2, <3>3 DEF Splits
    <2> QED
      BY <1>1, <1>3, <2>1, <2>2, LessIsSplit
  <1>5. ASSUME ~Less(k, p), Less(k, e) PROVE StartsWith(k, p)
    <2>1. PICK m \in Nat \ {0} : Splits(k, e, m)
      BY <1>1, <1>5, LessIsSplit
    <2>2. At(k, m) \in Int /\ At(e, m) \in Int /\ At(k, m) >= -1
      BY <1>1, AtType
    <2>3. ~(m > i)
      BY <1>2, <2>1, <2>2 DEF Splits
    <2>4. \A j \in Nat \ {0} : ~Splits(k, p, j)
      BY <1>5, LessIsSplit
    <2>5. m = i
      <3> SUFFICES ASSUME m < i PROVE FALSE
        BY <1>3, <2>3
      <3>1. At(e, m) = At(p, m)
        BY <1>2, <1>3
      <3>2. \A j \in 1 .. m - 1 : At(e, j) = At(p, j)
        BY <1>2, <1>3
      <3>3. Splits(k, p, m)
        BY <2>1, <3>1, <3>2 DEF Splits
      <3> QED
        BY <2>4, <3>3
    <2>6. \A j \in 1 .. i - 1 : At(k, j) = At(p, j)
      BY <1>2, <2>1, <2>5 DEF Splits
    <2>7. At(k, i) = At(p, i)
      <3>1. At(k, i) \in Int /\ At(p, i) \in Int
        BY <1>3, AtType
      <3>2. At(k, i) < At(p, i) + 1
        BY <1>2, <2>1, <2>5 DEF Splits
      <3>3. ~(At(k, i) < At(p, i))
        BY <1>3, <2>4, <2>6 DEF Splits
      <3> QED
        BY <3>1, <3>2, <3>3
    <2> DEFINE D == {j \in 1 .. Len(p) : At(k, j) # At(p, j)}
    <2> SUFFICES ASSUME D # {} PROVE FALSE
      BY DEF StartsWith
    <2>8. D \in SUBSET Nat
      BY <1>0
    <2>9. PICK d \in D : \A j \in D : d <= j
      BY <2>8, LeastNumber
    <2>10. d \in Nat \ {0} /\ d <= Len(p) /\ d > i
      BY <1>0, <1>3, <2>6, <2>7
    <2>11. At(p, d) = 255
      <3>1. p[d] = 255
        BY <1>0, <1>2, <1>3, <2>10
      <3> QED
        BY <1>0, <2>10, <3>1 DEF At
    <2>12. At(k, d) < At(p, d)
      <3>1. At(k, d) \in Int /\ At(k, d) <= 255
        BY <2>10, AtType
      <3> QED
        BY <2>11, <3>1
    <2>13. \A j \in 1 .. d - 1 : At(k, j) = At(p, j)
      BY <1>0, <2>9, <2>10
    <2> QED
      BY <2>4, <2>10, <2>12, <2>13 DEF Splits
  <1> QED
    BY <1>1, <1>4, <1>5 DEF e

-----------------------------------------------------------------------------
(***************************************************************************)
(* The encoding of segments, and its decoder.                              *)
(***************************************************************************)

Enc(seg) == appendOrdered(<<>>, seg)

\* What the first n bytes of seg are written as.
Body(seg, n) == Iterate(writeByte(seg), [dst |-> <<>>, i |-> 0], n).dst

\* Two segments written one behind the other.
LEMMA Joined ==
  ASSUME NEW a \in Bytes, NEW b \in Bytes
  PROVE  /\ a \o b \in Bytes /\ Len(a) \in Nat /\ Len(b) \in Nat /\ Len(a \o b) = Len(a) + Len(b)
         /\ \A i \in 1 .. Len(a) : (a \o b)[i] = a[i]
         /\ \A i \in 1 .. Len(b) : (a \o b)[Len(a) + i] = b[i]
  <1>1. Len(a) \in Nat /\ Len(b) \in Nat
    BY DEF Bytes
  <1>2. /\ a \o b \in Seq(Byte) /\ Len(a \o b) = Len(a) + Len(b)
        /\ \A i \in 1 .. Len(a) + Len(b) : (a \o b)[i] = IF i <= Len(a) THEN a[i] ELSE b[i - Len(a)]
    BY ConcatProperties DEF Bytes
  <1>3. ASSUME NEW i \in 1 .. Len(a) PROVE (a \o b)[i] = a[i]
    BY <1>1, <1>2
  <1>4. ASSUME NEW i \in 1 .. Len(b) PROVE (a \o b)[Len(a) + i] = b[i]
    <2>1. Len(a) + i \in 1 .. Len(a) + Len(b) /\ ~(Len(a) + i <= Len(a)) /\ (Len(a) + i) - Len(a) = i
      BY <1>1
    <2> QED
      BY <1>2, <2>1
  <1> QED
    BY <1>1, <1>2, <1>3, <1>4 DEF Bytes

\* What a byte is written as.
LEMMA EscapedBytes ==
  ASSUME NEW c \in Byte
  PROVE  /\ escaped(c) \in Bytes /\ Len(escaped(c)) \in 1 .. 2
         /\ c # 0 => Len(escaped(c)) = 1 /\ escaped(c)[1] = c
         /\ c = 0 => Len(escaped(c)) = 2 /\ escaped(c)[1] = 0 /\ escaped(c)[2] = 255
  <1>1. 0 \in Byte /\ 255 \in Byte
    BY DEF Byte
  <1> QED
    BY <1>1 DEF escaped, Bytes

\* The loop of appendOrdered writes one byte behind what it has.
LEMMA WriteRounds ==
  ASSUME NEW seg \in Bytes, NEW dst \in Bytes, NEW n \in 0 .. Len(seg)
  PROVE  LET w(k) == Iterate(writeByte(seg), [dst |-> dst, i |-> 0], k)
         IN  /\ w(n) = [dst |-> w(n).dst, i |-> n] /\ w(n).dst \in Bytes
             /\ w(0).dst = dst
             /\ n < Len(seg) => w(n + 1).dst = w(n).dst \o escaped(seg[n + 1])
  <1> DEFINE start == [dst |-> dst, i |-> 0]
             w(k) == Iterate(writeByte(seg), start, k)
             P == {k \in Nat : k <= Len(seg) => w(k) \in Writing /\ w(k).i = k}
  <1>0. Len(seg) \in Nat
    BY DEF Bytes
  <1>1. w(0) = start
    BY IterateStep
  <1>2. 0 \in P
    <2>1. start \in Writing /\ start.i = 0
      BY DEF Writing, Bytes
    <2> QED
      BY <1>1, <2>1
  <1>3. ASSUME NEW k \in Nat, k < Len(seg), w(k) \in Writing, w(k).i = k
        PROVE  /\ w(k + 1) = [dst |-> w(k).dst \o escaped(seg[k + 1]), i |-> k + 1]
               /\ w(k + 1) \in Writing /\ w(k + 1).i = k + 1
    <2>1. w(k + 1) = writeByte(seg)[w(k)]
      BY IterateStep
    <2> HIDE DEF w
    <2>2. w(k + 1) = [dst |-> w(k).dst \o escaped(seg[k + 1]), i |-> k + 1]
      BY <1>3, <2>1 DEF writeByte
    <2>3. seg[k + 1] \in Byte
      <3>1. k + 1 \in 1 .. Len(seg)
        BY <1>0, <1>3
      <3> QED
        BY <3>1 DEF Bytes
    <2>4. w(k).dst \in Bytes
      BY <1>3 DEF Writing, Bytes
    <2>5. w(k).dst \o escaped(seg[k + 1]) \in Bytes
      <3>1. escaped(seg[k + 1]) \in Bytes
        BY <2>3, EscapedBytes
      <3> QED
        BY <2>4, <3>1, Joined
    <2>6. \A d \in Bytes : [dst |-> d, i |-> k + 1] \in Writing
      BY DEF Writing, Bytes
    <2>7. w(k + 1).i = k + 1
      BY <2>2
    <2> QED
      BY <2>2, <2>5, <2>6, <2>7
  <1> HIDE DEF w
  <1>4. ASSUME NEW k \in Nat, k \in P PROVE k + 1 \in P
    <2> SUFFICES ASSUME k + 1 <= Len(seg) PROVE w(k + 1) \in Writing /\ w(k + 1).i = k + 1
      OBVIOUS
    <2>1. k < Len(seg) /\ k <= Len(seg)
      BY <1>0
    <2> QED
      BY <1>3, <1>4, <2>1
  <1>5. n \in P
    <2> HIDE DEF P
    <2>1. P \in SUBSET Nat
      BY DEF P
    <2>2. n \in Nat
      BY <1>0
    <2> QED
      BY <1>2, <1>4, <2>1, <2>2, NumberInduction
  <1>6. w(n) \in Writing /\ w(n).i = n
    BY <1>0, <1>5
  <1>7. w(n) = [dst |-> w(n).dst, i |-> n] /\ w(n).dst \in Bytes
    BY <1>6 DEF Writing, Bytes
  <1>8. n < Len(seg) => w(n + 1).dst = w(n).dst \o escaped(seg[n + 1])
    <2>1. n \in Nat
      BY <1>0
    <2>2. ASSUME n < Len(seg) PROVE w(n + 1) = [dst |-> w(n).dst \o escaped(seg[n + 1]), i |-> n + 1]
      BY <1>3, <1>6, <2>1, <2>2
    <2>3. \A d : [dst |-> d, i |-> n + 1].dst = d
      OBVIOUS
    <2> QED
      BY <2>2, <2>3, Zenon
  <1>9. w(0).dst = dst
    BY <1>1
  <1> QED
    BY <1>7, <1>8, <1>9 DEF w

\* The same, for a segment that is written alone.
LEMMA BodyStep ==
  ASSUME NEW seg \in Bytes, NEW n \in 0 .. Len(seg)
  PROVE  /\ Body(seg, n) \in Bytes /\ Body(seg, 0) = <<>>
         /\ n < Len(seg) => Body(seg, n + 1) = Body(seg, n) \o escaped(seg[n + 1])
  <1>1. <<>> \in Bytes
    BY DEF Bytes
  <1> QED
    BY <1>1, WriteRounds DEF Body

\* appendOrdered appends the encoding of the segment, whatever stands before it.
LEMMA AppendsEncoding ==
  ASSUME NEW dst \in Bytes, NEW seg \in Bytes
  PROVE  /\ Enc(seg) = Body(seg, Len(seg)) \o <<0, 0>> /\ Body(seg, Len(seg)) \in Bytes
         /\ Enc(seg) \in Bytes /\ <<0, 0>> \in Bytes
         /\ appendOrdered(dst, seg) = dst \o Enc(seg) /\ dst \o Enc(seg) \in Bytes
  <1> DEFINE w(k) == Iterate(writeByte(seg), [dst |-> dst, i |-> 0], k)
             P == {k \in Nat : k <= Len(seg) => w(k).dst = dst \o Body(seg, k)}
             nn == Len(seg)
  <1>0. nn \in Nat /\ nn \in 0 .. nn /\ nn <= nn
    BY DEF Bytes
  <1>z. <<0, 0>> \in Bytes /\ <<>> \in Bytes
    BY 0 \in Byte DEF Bytes, Byte
  <1>1. Enc(seg) = Body(seg, nn) \o <<0, 0>> /\ Body(seg, nn) \in Bytes
    BY <1>0, BodyStep DEF Enc, appendOrdered, Body
  <1>2. Enc(seg) \in Bytes
    BY <1>1, <1>z, Joined
  <1>3. 0 \in P
    <2>1. w(0).dst = dst
      BY <1>0, WriteRounds
    <2>2. Body(seg, 0) = <<>>
      BY <1>0, BodyStep
    <2>3. dst \o <<>> = dst
      BY ConcatEmptySeq DEF Bytes
    <2> QED
      BY <2>1, <2>2, <2>3
  <1>4. ASSUME NEW k \in Nat, k \in P PROVE k + 1 \in P
    <2> SUFFICES ASSUME k + 1 <= nn PROVE w(k + 1).dst = dst \o Body(seg, k + 1)
      OBVIOUS
    <2>1. k \in 0 .. nn /\ k < nn /\ k <= nn /\ k + 1 \in 1 .. nn
      BY <1>0
    <2>2. w(k + 1).dst = w(k).dst \o escaped(seg[k + 1])
      BY <2>1, WriteRounds
    <2>3. Body(seg, k + 1) = Body(seg, k) \o escaped(seg[k + 1]) /\ Body(seg, k) \in Bytes
      BY <2>1, BodyStep
    <2>4. w(k).dst = dst \o Body(seg, k)
      BY <1>4, <2>1
    <2>5. escaped(seg[k + 1]) \in Bytes
      <3>1. seg[k + 1] \in Byte
        BY <2>1 DEF Bytes
      <3> QED
        BY <3>1, EscapedBytes
    <2>6. (dst \o Body(seg, k)) \o escaped(seg[k + 1]) = dst \o (Body(seg, k) \o escaped(seg[k + 1]))
      BY <2>3, <2>5, ConcatAssociative DEF Bytes
    <2> HIDE DEF w
    <2> QED
      BY <2>2, <2>3, <2>4, <2>6
  <1>5. nn \in P
    <2> HIDE DEF P
    <2>1. P \in SUBSET Nat
      BY DEF P
    <2> QED
      BY <1>0, <1>3, <1>4, <2>1, NumberInduction
  <1>6. appendOrdered(dst, seg) = (dst \o Body(seg, nn)) \o <<0, 0>>
    BY <1>0, <1>5 DEF appendOrdered
  <1>7. (dst \o Body(seg, nn)) \o <<0, 0>> = dst \o (Body(seg, nn) \o <<0, 0>>)
    <2>1. dst \in Seq(Byte) /\ Body(seg, nn) \in Seq(Byte) /\ <<0, 0>> \in Seq(Byte)
      BY <1>1, <1>z DEF Bytes
    <2> QED
      BY <2>1, ConcatAssociative
  <1>8. dst \o Enc(seg) \in Bytes
    BY <1>2, Joined
  <1>9. appendOrdered(dst, seg) = dst \o Enc(seg)
    BY <1>1, <1>6, <1>7
  <1> QED
    BY <1>1, <1>2, <1>8, <1>9, <1>z

\* What the first n bytes are written as begins what all of them are written as.
LEMMA BodyWithin ==
  ASSUME NEW s \in Bytes, NEW n \in 0 .. Len(s)
  PROVE  /\ Len(Body(s, n)) \in Nat /\ Len(Body(s, n)) >= n
         /\ Len(Body(s, n)) <= Len(Body(s, Len(s)))
         /\ \A j \in 1 .. Len(Body(s, n)) : Body(s, Len(s))[j] = Body(s, n)[j]
  <1> DEFINE B(k) == Body(s, k)
             L(k) == Len(Body(s, k))
             N == Len(s)
             P == {k \in Nat : k <= N => L(k) >= k}
             Q == {d \in Nat : n + d <= N => L(n) <= L(n + d) /\ \A j \in 1 .. L(n) : B(n + d)[j] = B(n)[j]}
  <1>0. N \in Nat /\ n \in Nat /\ n <= N
    BY DEF Bytes
  <1>1. ASSUME NEW k \in 0 .. N PROVE B(k) \in Bytes /\ L(k) \in Nat
    BY <1>0, BodyStep DEF Bytes
  <1>2. ASSUME NEW k \in Nat, k + 1 <= N
        PROVE  L(k + 1) > L(k) /\ \A j \in 1 .. L(k) : B(k + 1)[j] = B(k)[j]
    <2>1. k \in 0 .. N /\ k < N /\ k + 1 \in 1 .. N
      BY <1>0, <1>2
    <2>2. B(k + 1) = B(k) \o escaped(s[k + 1])
      BY <2>1, BodyStep
    <2>3. s[k + 1] \in Byte
      BY <2>1 DEF Bytes
    <2>4. escaped(s[k + 1]) \in Bytes /\ Len(escaped(s[k + 1])) \in 1 .. 2
      BY <2>3, EscapedBytes
    <2>5. /\ L(k) \in Nat /\ Len(B(k) \o escaped(s[k + 1])) = L(k) + Len(escaped(s[k + 1]))
          /\ \A j \in 1 .. L(k) : (B(k) \o escaped(s[k + 1]))[j] = B(k)[j]
      BY <1>1, <2>1, <2>4, Joined
    <2>6. L(k + 1) > L(k)
      <3>1. \A l \in 1 .. 2 : L(k) + l > L(k)
        BY <2>5
      <3>2. L(k + 1) = L(k) + Len(escaped(s[k + 1]))
        BY <2>2, <2>5
      <3> QED
        BY <2>4, <3>1, <3>2
    <2> QED
      BY <2>2, <2>5, <2>6
  <1> HIDE DEF B, L
  <1>3. 0 \in P
    BY <1>0, <1>1
  <1>4. ASSUME NEW k \in Nat, k \in P PROVE k + 1 \in P
    <2> SUFFICES ASSUME k + 1 <= N PROVE L(k + 1) >= k + 1
      OBVIOUS
    <2>1. L(k) >= k /\ L(k + 1) > L(k) /\ k \in 0 .. N /\ k + 1 \in 0 .. N
      BY <1>0, <1>2, <1>4
    <2>2. L(k) \in Nat /\ L(k + 1) \in Nat
      BY <1>1, <2>1
    <2> QED
      BY <2>1, <2>2
  <1>5. n \in P
    <2> HIDE DEF P
    <2>1. P \in SUBSET Nat
      BY DEF P
    <2> QED
      BY <1>0, <1>3, <1>4, <2>1, NumberInduction
  <1>6. 0 \in Q
    <2>1. n + 0 = n /\ L(n) <= L(n)
      BY <1>0, <1>1
    <2> QED
      BY <2>1
  <1>7. ASSUME NEW d \in Nat, d \in Q PROVE d + 1 \in Q
    <2> SUFFICES ASSUME n + (d + 1) <= N
                 PROVE  L(n) <= L(n + (d + 1)) /\ \A j \in 1 .. L(n) : B(n + (d + 1))[j] = B(n)[j]
      OBVIOUS
    <2>1. n + d \in Nat /\ (n + d) + 1 <= N /\ n + d <= N /\ n + (d + 1) = (n + d) + 1
      BY <1>0
    <2>2. n \in 0 .. N /\ n + d \in 0 .. N /\ (n + d) + 1 \in 0 .. N
      BY <1>0, <2>1
    <2>3. L(n) \in Nat /\ L(n + d) \in Nat /\ L((n + d) + 1) \in Nat
      BY <1>1, <2>2
    <2>4. L(n) <= L(n + d) /\ \A j \in 1 .. L(n) : B(n + d)[j] = B(n)[j]
      BY <1>7, <2>1
    <2>5. L((n + d) + 1) > L(n + d) /\ \A j \in 1 .. L(n + d) : B((n + d) + 1)[j] = B(n + d)[j]
      BY <1>2, <2>1
    <2>6. L(n) <= L((n + d) + 1)
      BY <2>3, <2>4, <2>5
    <2>7. \A j \in 1 .. L(n) : j \in 1 .. L(n + d)
      BY <2>3, <2>4
    <2>8. \A j \in 1 .. L(n) : B((n + d) + 1)[j] = B(n)[j]
      BY <2>4, <2>5, <2>7
    <2> QED
      BY <2>1, <2>6, <2>8
  <1>8. N - n \in Q
    <2> HIDE DEF Q
    <2>1. Q \in SUBSET Nat
      BY DEF Q
    <2>2. N - n \in Nat
      BY <1>0
    <2> QED
      BY <1>6, <1>7, <2>1, <2>2, NumberInduction
  <1>9. n + (N - n) = N /\ N <= N /\ n \in 0 .. N
    BY <1>0
  <1>10. L(n) <= L(N) /\ \A j \in 1 .. L(n) : B(N)[j] = B(n)[j]
    BY <1>8, <1>9
  <1>11. L(n) \in Nat /\ L(n) >= n
    BY <1>0, <1>1, <1>5, <1>9
  <1> QED
    BY <1>10, <1>11 DEF B, L

\* The bytes of an encoded segment and of what follows it.
LEMMA EncodedBytes ==
  ASSUME NEW s \in Bytes, NEW x \in Bytes, NEW n \in 0 .. Len(s)
  PROVE  LET b == Enc(s) \o x
             m == Len(Body(s, n))
         IN  /\ b \in Bytes /\ Len(b) \in Nat /\ m \in Nat /\ m + 1 < Len(b) /\ m >= n
             /\ n = Len(s) => b[m + 1] = 0 /\ b[m + 2] = 0
             /\ n < Len(s) =>
                  LET c == s[n + 1]
                  IN  /\ c \in Byte /\ b[m + 1] = c
                      /\ c # 0 => Len(Body(s, n + 1)) = m + 1
                      /\ c = 0 => b[m + 2] = 255 /\ Len(Body(s, n + 1)) = m + 2
  <1> DEFINE b == Enc(s) \o x
             m == Len(Body(s, n))
             B == Body(s, Len(s))
             M == Len(B)
             c == s[n + 1]
             e == escaped(c)
  <1>0. Len(s) \in Nat /\ n \in Nat /\ Len(x) \in Nat
    BY DEF Bytes
  <1>1. B \in Bytes /\ Enc(s) = B \o <<0, 0>> /\ Enc(s) \in Bytes /\ <<0, 0>> \in Bytes
    BY AppendsEncoding
  <1>2. b \in Bytes /\ Len(b) = Len(Enc(s)) + Len(x) /\ \A i \in 1 .. Len(Enc(s)) : b[i] = Enc(s)[i]
    BY <1>1, Joined
  <1>3. M \in Nat /\ Len(Enc(s)) = M + 2 /\ \A i \in 1 .. M : Enc(s)[i] = B[i]
    BY <1>1, Joined
  <1>4. Enc(s)[M + 1] = 0 /\ Enc(s)[M + 2] = 0
    <2>1. \A i \in 1 .. 2 : (B \o <<0, 0>>)[M + i] = <<0, 0>>[i]
      BY <1>1, Joined
    <2> QED
      BY <1>1, <2>1
  <1>5. m \in Nat /\ m >= n /\ m <= M
    BY BodyWithin
  <1> HIDE DEF b, B, M
  <1>6. Len(b) \in Nat /\ m + 1 < Len(b)
    BY <1>0, <1>2, <1>3, <1>5
  <1>7. \A i \in 1 .. M : b[i] = B[i]
    <2>1. \A i \in 1 .. M : i \in 1 .. Len(Enc(s))
      BY <1>3
    <2> QED
      BY <1>2, <1>3, <2>1
  <1>8. ASSUME n = Len(s) PROVE b[m + 1] = 0 /\ b[m + 2] = 0
    <2>1. m = M
      BY <1>8 DEF M, B
    <2>2. m + 1 \in 1 .. Len(Enc(s)) /\ m + 2 \in 1 .. Len(Enc(s))
      BY <1>3, <2>1
    <2> QED
      BY <1>2, <1>4, <2>1, <2>2
  <1>9. ASSUME n < Len(s)
        PROVE  /\ c \in Byte /\ b[m + 1] = c
               /\ c # 0 => Len(Body(s, n + 1)) = m + 1
               /\ c = 0 => b[m + 2] = 255 /\ Len(Body(s, n + 1)) = m + 2
    <2>1. n + 1 \in 1 .. Len(s) /\ n + 1 \in 0 .. Len(s)
      BY <1>0, <1>9
    <2>2. c \in Byte
      BY <2>1 DEF Bytes
    <2>3. Body(s, n + 1) = Body(s, n) \o e /\ Body(s, n) \in Bytes
      BY <1>9, BodyStep
    <2>4. /\ e \in Bytes /\ Len(e) \in 1 .. 2
          /\ c # 0 => Len(e) = 1 /\ e[1] = c
          /\ c = 0 => Len(e) = 2 /\ e[1] = 0 /\ e[2] = 255
      BY <2>2, EscapedBytes
    <2> HIDE DEF e, c
    <2>a. Len(e) \in Nat /\ 1 \in 1 .. Len(e) /\ (c = 0 => 2 \in 1 .. Len(e))
      <3>1. \A l \in 1 .. 2 : l \in Nat /\ 1 \in 1 .. l /\ (l = 2 => 2 \in 1 .. l)
        OBVIOUS
      <3> QED
        BY <2>4, <3>1, Zenon
    <2>5. Len(Body(s, n + 1)) = m + Len(e) /\ \A i \in 1 .. Len(e) : Body(s, n + 1)[m + i] = e[i]
      <3>1. e \in Bytes
        BY <2>4
      <3> DEFINE q == Body(s, n)
      <3>2. q \in Bytes
        BY <2>3
      <3> HIDE DEF q
      <3>3. Len(q \o e) = Len(q) + Len(e) /\ \A i \in 1 .. Len(e) : (q \o e)[Len(q) + i] = e[i]
        BY <3>1, <3>2, Joined
      <3> QED
        BY <2>3, <3>3 DEF q
    <2>6. Len(Body(s, n + 1)) <= M /\ \A j \in 1 .. Len(Body(s, n + 1)) : B[j] = Body(s, n + 1)[j]
      BY <2>1, BodyWithin DEF M, B
    <2> HIDE DEF m
    <2>7. ASSUME NEW i \in 1 .. Len(e) PROVE b[m + i] = e[i]
      <3>1. m + i \in 1 .. Len(Body(s, n + 1)) /\ m + i \in 1 .. M
        BY <1>3, <1>5, <2>5, <2>6, <2>a
      <3> QED
        BY <1>7, <2>5, <2>6, <3>1
    <2>8. CASE c # 0
      <3>1. b[m + 1] = e[1]
        BY <2>7, <2>a
      <3> QED
        BY <2>2, <2>4, <2>5, <2>8, <3>1
    <2>9. CASE c = 0
      <3>1. b[m + 1] = e[1] /\ b[m + 2] = e[2]
        BY <2>7, <2>9, <2>a
      <3> QED
        BY <2>2, <2>4, <2>5, <2>9, <3>1
    <2> QED
      BY <2>8, <2>9
  <1> QED
    BY <1>2, <1>5, <1>6, <1>8, <1>9 DEF b

\* One round of decodeOrdered while the segment lasts, at its end, and after it.
LEMMA ReadRounds ==
  ASSUME NEW s \in Bytes, NEW x \in Bytes, NEW k \in Nat, NEW r \in Reading
  PROVE  LET b == Enc(s) \o x
             after == readByte(b)[r]
         IN  /\ r.over => after = r
             /\ k <= Len(s) /\ ~r.over /\ r.i = Len(Body(s, k))
                => /\ after \in Reading
                   /\ k < Len(s) => /\ ~after.over /\ after.i = Len(Body(s, k + 1))
                                    /\ after.out = Append(r.out, s[k + 1])
                   /\ k = Len(s) => after.over /\ after.out = r.out
  <1> DEFINE b == Enc(s) \o x
             after == readByte(b)[r]
             m == Len(Body(s, k))
             c == s[k + 1]
  <1>0. Len(s) \in Nat
    BY DEF Bytes
  <1>1. /\ r.out \in Seq(Byte) /\ r.i \in Nat /\ r.over \in BOOLEAN
        /\ r = [out |-> r.out, i |-> r.i, over |-> r.over]
    BY DEF Reading
  <1>2. after = IF r.over \/ r.i >= Len(b) THEN r
                ELSE IF b[r.i + 1] # 0
                THEN [out |-> Append(r.out, b[r.i + 1]), i |-> r.i + 1, over |-> FALSE]
                ELSE IF r.i + 1 < Len(b) /\ b[r.i + 2] = 255
                THEN [out |-> Append(r.out, 0), i |-> r.i + 2, over |-> FALSE]
                ELSE [r EXCEPT !.over = TRUE]
    BY DEF readByte
  <1> HIDE DEF after, b
  <1>3. ASSUME r.over PROVE after = r
    BY <1>2, <1>3
  <1>4. ASSUME k <= Len(s), ~r.over, r.i = m
        PROVE  /\ after \in Reading
               /\ k < Len(s) => /\ ~after.over /\ after.i = Len(Body(s, k + 1))
                                /\ after.out = Append(r.out, c)
               /\ k = Len(s) => after.over /\ after.out = r.out
    <2>0. k \in 0 .. Len(s)
      BY <1>0, <1>4
    <2>1. b \in Bytes /\ Len(b) \in Nat /\ m \in Nat /\ m + 1 < Len(b)
      BY <2>0, EncodedBytes DEF b
    <2>2. k = Len(s) => b[m + 1] = 0 /\ b[m + 2] = 0
      <3> DEFINE n == Len(s)
                 l == Len(Body(s, n))
      <3>1. n \in 0 .. Len(s)
        BY <1>0
      <3> HIDE DEF n
      <3>2. n = Len(s) => b[l + 1] = 0 /\ b[l + 2] = 0
        BY <3>1, EncodedBytes DEF b
      <3>3. b[l + 1] = 0 /\ b[l + 2] = 0
        BY <3>2 DEF n
      <3>4. k = Len(s) => l = m
        BY DEF n
      <3> HIDE DEF l, m
      <3> QED
        BY <3>3, <3>4
    <2>3. k < Len(s) => /\ c \in Byte /\ b[m + 1] = c
                        /\ c # 0 => Len(Body(s, k + 1)) = m + 1
                        /\ c = 0 => b[m + 2] = 255 /\ Len(Body(s, k + 1)) = m + 2
      BY <2>0, EncodedBytes DEF b
    <2>4. ~(r.i >= Len(b)) /\ r.i + 1 < Len(b)
      BY <1>4, <2>1
    <2> HIDE DEF c, m
    <2>5. CASE k = Len(s)
      <3>1. after = [r EXCEPT !.over = TRUE]
        BY <1>2, <1>4, <2>2, <2>4, <2>5
      <3>2. after \in Reading /\ after.over /\ after.out = r.out
        BY <1>1, <3>1 DEF Reading
      <3> QED
        BY <1>0, <2>5, <3>2
    <2>6. CASE k < Len(s) /\ c # 0
      <3>1. after = [out |-> Append(r.out, c), i |-> m + 1, over |-> FALSE]
        BY <1>2, <1>4, <2>3, <2>4, <2>6
      <3>2. Append(r.out, c) \in Seq(Byte) /\ m + 1 \in Nat
        BY <1>1, <2>1, <2>3, <2>6
      <3>3. after \in Reading
        BY <3>1, <3>2 DEF Reading
      <3> QED
        BY <1>0, <2>3, <2>6, <3>1, <3>3
    <2>7. CASE k < Len(s) /\ c = 0
      <3>1. after = [out |-> Append(r.out, c), i |-> m + 2, over |-> FALSE]
        BY <1>2, <1>4, <2>3, <2>4, <2>7
      <3>2. Append(r.out, c) \in Seq(Byte) /\ m + 2 \in Nat
        BY <1>1, <2>1, <2>3, <2>7
      <3>3. after \in Reading
        BY <3>1, <3>2 DEF Reading
      <3> QED
        BY <1>0, <2>3, <2>7, <3>1, <3>3
    <2> QED
      BY <1>0, <1>4, <2>5, <2>6, <2>7
  <1> QED
    BY <1>3, <1>4 DEF after, b

\* decodeOrdered gives back the segment that appendOrdered wrote, whatever follows it.
THEOREM DecodeIsInverse ==
  ASSUME NEW s \in Bytes, NEW x \in Bytes
  PROVE  decodeOrdered(Enc(s) \o x) = s
  <1> DEFINE b == Enc(s) \o x
             start == [out |-> <<>>, i |-> 0, over |-> FALSE]
             going(k) == {r \in Reading : /\ ~r.over /\ r.i = Len(Body(s, k)) /\ Len(r.out) = k
                                          /\ \A j \in 1 .. k : r.out[j] = s[j]}
             done == {r \in Reading : r.over /\ r.out = s}
             I == [k \in Nat |-> IF k <= Len(s) THEN going(k) ELSE done]
  <1>0. Len(s) \in Nat /\ 0 \in 0 .. Len(s) /\ Len(s) \in 0 .. Len(s)
    BY DEF Bytes
  <1>1. Len(b) \in Nat /\ Len(b) > Len(s)
    <2>1. /\ Len(b) \in Nat /\ Len(Body(s, Len(s))) \in Nat
          /\ Len(Body(s, Len(s))) + 1 < Len(b) /\ Len(Body(s, Len(s))) >= Len(s)
      BY <1>0, EncodedBytes
    <2> HIDE DEF b
    <2> QED
      BY <1>0, <2>1
  <1>2. start \in I[0]
    <2>1. Body(s, 0) = <<>>
      BY <1>0, BodyStep
    <2>2. start \in Reading /\ ~start.over /\ start.i = 0 /\ start.out = <<>>
      BY DEF Reading
    <2>3. Len(Body(s, 0)) = 0 /\ Len(start.out) = 0
      BY <2>1, <2>2
    <2> HIDE DEF start
    <2>4. start \in going(0)
      BY <2>2, <2>3
    <2> HIDE DEF going
    <2> QED
      BY <1>0, <2>4
  <1>3. ASSUME NEW k \in Nat, k < Len(b), NEW r \in I[k] PROVE readByte(b)[r] \in I[k + 1]
    <2> DEFINE after == readByte(b)[r]
    <2>1. CASE k < Len(s)
      <3>1. r \in going(k)
        BY <1>0, <2>1
      <3>2. r \in Reading /\ ~r.over /\ r.i = Len(Body(s, k)) /\ k <= Len(s)
        BY <1>0, <2>1, <3>1
      <3>3. after \in Reading /\ ~after.over /\ after.i = Len(Body(s, k + 1)) /\ after.out = Append(r.out, s[k + 1])
        BY <2>1, <3>2, ReadRounds
      <3>4. Len(after.out) = k + 1 /\ \A j \in 1 .. k + 1 : after.out[j] = s[j]
        <4>1. r.out \in Seq(Byte) /\ Len(r.out) = k /\ \A j \in 1 .. k : r.out[j] = s[j]
          BY <3>1 DEF Reading
        <4> HIDE DEF after
        <4> QED
          BY <3>3, <4>1
      <3> HIDE DEF after
      <3>5. after \in going(k + 1)
        BY <3>3, <3>4
      <3>6. k + 1 \in Nat /\ k + 1 <= Len(s)
        BY <1>0, <2>1
      <3> HIDE DEF going
      <3> QED
        BY <3>5, <3>6 DEF after
    <2>2. CASE k = Len(s)
      <3>1. r \in going(k)
        BY <1>0, <2>2
      <3>2. r \in Reading /\ ~r.over /\ r.i = Len(Body(s, k)) /\ k <= Len(s)
        BY <1>0, <2>2, <3>1
      <3>3. after \in Reading /\ after.over /\ after.out = r.out
        BY <2>2, <3>2, ReadRounds
      <3>4. r.out = s
        <4>1. r.out \in Seq(Byte) /\ Len(r.out) = Len(s) /\ \A j \in 1 .. Len(s) : r.out[j] = s[j]
          BY <2>2, <3>1 DEF Reading
        <4> QED
          BY <4>1, SeqEqual DEF Bytes
      <3> HIDE DEF after
      <3>5. after \in done
        BY <3>3, <3>4
      <3>6. k + 1 \in Nat /\ ~(k + 1 <= Len(s))
        BY <1>0, <2>2
      <3> HIDE DEF going
      <3> QED
        BY <3>5, <3>6 DEF after
    <2>3. CASE k > Len(s)
      <3>1. r \in done /\ k + 1 \in Nat /\ ~(k + 1 <= Len(s))
        BY <1>0, <2>3
      <3>2. after = r
        BY <3>1, ReadRounds
      <3> QED
        BY <3>1, <3>2
    <2> QED
      BY <1>0, <2>1, <2>2, <2>3
  <1> HIDE DEF b, start
  <1>4. Iterate(readByte(b), start, Len(b)) \in I[Len(b)]
    <2> HIDE DEF I
    <2> QED
      BY <1>1, <1>2, <1>3, LoopInvariant
  <1>5. I[Len(b)] = done
    <2> HIDE DEF done, going
    <2> QED
      BY <1>0, <1>1
  <1>6. Iterate(readByte(b), start, Len(b)).out = s
    BY <1>4, <1>5
  <1> QED
    BY <1>6 DEF decodeOrdered, b, start

\* Two segments one behind the other, and a segment of one byte: names that keep the
\* provers from taking sequences apart.
Join(a, b) == a \o b
One(c) == <<c>>

\* The algebra of segments.
LEMMA JoinAlgebra ==
  ASSUME NEW a \in Bytes, NEW b \in Bytes, NEW c \in Bytes
  PROVE  /\ Join(a, b) \in Bytes
         /\ Join(Join(a, b), c) = Join(a, Join(b, c))
         /\ Join(a, b) = Join(a, c) => b = c
  <1>1. Join(a, b) \in Bytes
    BY Joined DEF Join
  <1>2. Join(Join(a, b), c) = Join(a, Join(b, c))
    BY ConcatAssociative DEF Join, Bytes
  <1>3. Join(a, b) = Join(a, c) => b = c
    BY ConcatSimplifications DEF Join, Bytes
  <1> QED
    BY <1>1, <1>2, <1>3

\* No encoded segment begins another: what two equal keys encode first is the same,
\* and so is what follows.
THEOREM EncodingIsPrefixFree ==
  ASSUME NEW s \in Bytes, NEW t \in Bytes, NEW x \in Bytes, NEW y \in Bytes,
         Join(Enc(s), x) = Join(Enc(t), y)
  PROVE  s = t /\ x = y
  <1>1. s = t
    <2>1. decodeOrdered(Join(Enc(s), x)) = s
      BY DecodeIsInverse DEF Join
    <2>2. decodeOrdered(Join(Enc(t), y)) = t
      BY DecodeIsInverse DEF Join
    <2> QED
      BY <2>1, <2>2
  <1>2. Enc(s) \in Bytes
    BY AppendsEncoding
  <1> QED
    BY <1>1, <1>2, JoinAlgebra

-----------------------------------------------------------------------------
(***************************************************************************)
(* Keys of cells and edges.                                                *)
(***************************************************************************)

KeySpace ==
  {cellKey(r, f, q, t) : r \in Rows, f \in Families, q \in Quals, t \in Times}
  \cup {forwardKey(a, b) : a \in Nodes, b \in Nodes}
  \cup {backKey(a, b) : a \in Nodes, b \in Nodes}

\* To begin with a prefix is to be the prefix and something behind it.
LEMMA StartsWithMeans ==
  ASSUME NEW k \in Bytes, NEW p \in Bytes
  PROVE  StartsWith(k, p) <=> \E x \in Bytes : k = Join(p, x)
  <1>0. Len(k) \in Nat /\ Len(p) \in Nat
    BY DEF Bytes
  <1>1. ASSUME NEW x \in Bytes, k = p \o x PROVE StartsWith(k, p)
    <2>1. Len(k) = Len(p) + Len(x) /\ Len(x) \in Nat /\ \A i \in 1 .. Len(p) : k[i] = p[i]
      BY <1>1, Joined
    <2>2. \A i \in 1 .. Len(p) : i \in 1 .. Len(k)
      BY <1>0, <2>1
    <2> QED
      BY <2>1, <2>2 DEF StartsWith, At
  <1>2. ASSUME StartsWith(k, p) PROVE \E x \in Bytes : k = p \o x
    <2>1. ASSUME NEW i \in 1 .. Len(p) PROVE i \in 1 .. Len(k) /\ k[i] = p[i]
      <3>1. i \in Nat \ {0} /\ i <= Len(p)
        BY <1>0
      <3>2. At(p, i) >= 0 /\ At(p, i) = p[i]
        BY <3>1, AtType
      <3>3. At(k, i) = At(p, i)
        BY <1>2 DEF StartsWith
      <3>4. i <= Len(k) /\ At(k, i) = k[i]
        BY <3>1, <3>2, <3>3, AtType
      <3> QED
        BY <1>0, <3>1, <3>2, <3>3, <3>4
    <2>2. Len(p) <= Len(k)
      BY <1>0, <2>1
    <2> DEFINE x == SubSeq(k, Len(p) + 1, Len(k))
               n == Len(p)
               d == Len(k) - Len(p)
    <2>3. d \in Nat /\ n \in Nat /\ Len(k) = n + d /\ n + 1 \in Int
      BY <1>0, <2>2
    <2>4. \A i \in n + 1 .. Len(k) : k[i] \in Byte
      BY <1>0, <2>3 DEF Bytes
    <2>5. /\ x \in Bytes
          /\ Len(x) = IF n + 1 <= Len(k) THEN Len(k) - (n + 1) + 1 ELSE 0
          /\ \A i \in 1 .. Len(k) - (n + 1) + 1 : x[i] = k[(n + 1) + i - 1]
      BY <1>0, <2>3, <2>4, SubSeqProperties DEF Bytes
    <2>6. Len(x) = d
      BY <1>0, <2>3, <2>5
    <2>7. \A i \in 1 .. d : x[i] = k[n + i]
      <3>1. \A i \in 1 .. d : i \in 1 .. Len(k) - (n + 1) + 1 /\ (n + 1) + i - 1 = n + i
        BY <1>0, <2>3
      <3> QED
        BY <2>5, <3>1
    <2> HIDE DEF x, n, d
    <2>8. p \o x \in Bytes /\ Len(p \o x) = Len(p) + Len(x)
      BY <2>5, Joined
    <2>9. Len(p \o x) = Len(k)
      BY <2>3, <2>6, <2>8 DEF n
    <2>10. ASSUME NEW i \in 1 .. Len(k) PROVE k[i] = (p \o x)[i]
      <3>1. CASE i <= n
        <4>1. i \in 1 .. Len(p)
          BY <1>0, <3>1 DEF n
        <4> QED
          BY <2>1, <2>5, <4>1, Joined
      <3>2. CASE ~(i <= n)
        <4>1. i - n \in 1 .. d /\ n + (i - n) = i
          BY <2>3, <3>2
        <4>2. i - n \in 1 .. Len(x)
          BY <2>6, <4>1
        <4>3. (p \o x)[n + (i - n)] = x[i - n]
          BY <2>5, <4>2, Joined DEF n
        <4>4. x[i - n] = k[n + (i - n)]
          BY <2>7, <4>1
        <4> QED
          BY <4>1, <4>3, <4>4
      <3> QED
        BY <3>1, <3>2
    <2>11. k = p \o x
      BY <2>8, <2>9, <2>10, SeqEqual DEF Bytes
    <2> QED
      BY <2>5, <2>11
  <1> QED
    BY <1>1, <1>2 DEF Join

\* What is left when the first part is dropped.
LEMMA DropJoined ==
  ASSUME NEW a \in Bytes, NEW b \in Bytes
  PROVE  SubSeq(Join(a, b), Len(a) + 1, Len(Join(a, b))) = b
  <1> DEFINE k == a \o b
             n == Len(a)
             d == Len(b)
             x == SubSeq(k, n + 1, Len(k))
  <1>1. /\ k \in Bytes /\ n \in Nat /\ d \in Nat /\ Len(k) = n + d
        /\ \A i \in 1 .. d : k[n + i] = b[i]
    BY Joined
  <1> HIDE DEF k, n, d
  <1>2. n + 1 \in Int /\ Len(k) \in Int /\ Len(k) - (n + 1) + 1 = d
    BY <1>1
  <1>3. \A i \in n + 1 .. Len(k) : k[i] \in Byte
    BY <1>1 DEF Bytes
  <1>4. /\ x \in Bytes
        /\ Len(x) = IF n + 1 <= Len(k) THEN Len(k) - (n + 1) + 1 ELSE 0
        /\ \A i \in 1 .. Len(k) - (n + 1) + 1 : x[i] = k[(n + 1) + i - 1]
    BY <1>2, <1>3, SubSeqProperties DEF Bytes
  <1>5. Len(x) = d
    BY <1>1, <1>4
  <1>6. \A i \in 1 .. d : x[i] = b[i]
    <2>1. \A i \in 1 .. d : i \in 1 .. Len(k) - (n + 1) + 1 /\ (n + 1) + i - 1 = n + i
      BY <1>1, <1>2
    <2> QED
      BY <1>1, <1>4, <2>1
  <1> HIDE DEF x
  <1>7. x = b
    BY <1>4, <1>5, <1>6, SeqEqual DEF Bytes, d
  <1> QED
    BY <1>7 DEF Join, x, k, n

\* One byte before or after the rest.
LEMMA FirstByte ==
  ASSUME NEW c \in Byte, NEW d \in Byte, NEW x \in Bytes, NEW y \in Bytes
  PROVE  /\ One(c) \in Bytes
         /\ Join(One(c), x)[1] = c
         /\ Append(x, c) = Join(x, One(c))
         /\ Join(One(c), x) = Join(One(d), y) => c = d /\ x = y
  <1>1. One(c) \in Bytes /\ One(d) \in Bytes
    BY DEF Bytes, One
  <1>2. Join(One(c), x)[1] = c
    BY Joined DEF One, Join, Bytes
  <1>3. Join(One(d), y)[1] = d
    BY Joined DEF One, Join, Bytes
  <1>4. ASSUME Join(One(c), x) = Join(One(d), y) PROVE c = d /\ x = y
    <2>1. c = d
      BY <1>2, <1>3, <1>4
    <2> QED
      BY <1>1, <1>4, <2>1, JoinAlgebra
  <1>5. Append(x, c) = Join(x, One(c))
    BY AppendIsConcat DEF Bytes, One, Join
  <1> QED
    BY <1>1, <1>2, <1>4, <1>5

\* The first byte of an encoded row, whatever follows it.
LEMMA FirstOfRow ==
  ASSUME NEW r \in Bytes, r # <<>>, NEW x \in Bytes
  PROVE  Join(Enc(r), x)[1] = r[1]
  <1> DEFINE b == Enc(r) \o x
             n == 0
             m == Len(Body(r, n))
  <1>1. Len(r) \in Nat /\ Len(r) > 0
    BY EmptySeq DEF Bytes
  <1>2. n \in 0 .. Len(r) /\ n < Len(r)
    BY <1>1
  <1>3. m = 0
    <2>1. Body(r, n) = <<>>
      BY <1>2, BodyStep
    <2> QED
      BY <2>1
  <1> HIDE DEF n, m, b
  <1>4. b[m + 1] = r[n + 1]
    BY <1>2, EncodedBytes DEF b, m
  <1>5. m + 1 = 1 /\ n + 1 = 1
    BY <1>3 DEF n
  <1>6. b[1] = r[1]
    BY <1>4, <1>5
  <1> QED
    BY <1>6 DEF b, Join

\* Rows, qualifiers, families and nodes as bytes.
LEMMA KeyParts ==
  /\ \A b \in Rows \cup Quals \cup Nodes : b \in Bytes
  /\ Families \subseteq Byte
  /\ \A r \in Rows : r # <<>> /\ r[1] # TagF /\ r[1] # TagB
  /\ \A t \in Times : t \in Nat /\ 255 - t \in Byte /\ t <= 127
  /\ <<TagF>> \in Bytes /\ <<TagB>> \in Bytes /\ TagF \in Byte /\ TagB \in Byte /\ TagF # TagB
  <1>1. TagF \in Byte /\ TagB \in Byte /\ TagF # TagB
    BY DEF TagF, TagB, Byte
  <1>2. <<TagF>> \in Bytes /\ <<TagB>> \in Bytes
    BY <1>1 DEF Bytes
  <1>3. \A t \in Times : t \in Nat /\ 255 - t \in Byte /\ t <= 127
    <2>1. \A t \in 0 .. 127 : t \in Nat /\ 255 - t \in Byte /\ t <= 127
      BY DEF Byte
    <2> QED
      BY <2>1, StorageAssumption
  <1> QED
    BY <1>1, <1>2, <1>3, StorageAssumption DEF Bytes

\* A key is its segments one behind the other.
LEMMA RowForm ==
  ASSUME NEW a \in Bytes, NEW f \in Byte
  PROVE  /\ Enc(a) \in Bytes /\ One(f) \in Bytes
         /\ rowFamilyPrefix(a, f) = Join(Enc(a), One(f)) /\ rowFamilyPrefix(a, f) \in Bytes
  <1>1. Enc(a) \in Bytes /\ One(f) \in Bytes
    BY AppendsEncoding, FirstByte
  <1>2. rowFamilyPrefix(a, f) = Join(Enc(a), One(f))
    BY <1>1, FirstByte DEF rowFamilyPrefix, Enc
  <1> QED
    BY <1>1, <1>2, JoinAlgebra

\* The same with the qualifier.
LEMMA QualForm ==
  ASSUME NEW a \in Bytes, NEW f \in Byte, NEW q \in Bytes
  PROVE  /\ Enc(q) \in Bytes /\ cellKeyQualPrefix(a, f, q) \in Bytes
         /\ cellKeyQualPrefix(a, f, q) = Join(rowFamilyPrefix(a, f), Enc(q))
  <1>1. Enc(q) \in Bytes /\ rowFamilyPrefix(a, f) \in Bytes
    BY RowForm, AppendsEncoding
  <1>2. cellKeyQualPrefix(a, f, q) = Join(rowFamilyPrefix(a, f), Enc(q))
    BY <1>1, AppendsEncoding DEF cellKeyQualPrefix, Join
  <1> QED
    BY <1>1, <1>2, JoinAlgebra

\* The key of a version ends in its timestamp, inverted.
LEMMA CellForm ==
  ASSUME NEW a \in Bytes, NEW f \in Byte, NEW q \in Bytes, NEW t \in Times
  PROVE  /\ One(255 - t) \in Bytes /\ cellKey(a, f, q, t) \in Bytes
         /\ cellKey(a, f, q, t) = Join(cellKeyQualPrefix(a, f, q), One(255 - t))
         /\ cellKey(a, f, q, t) = Join(rowFamilyPrefix(a, f), Join(Enc(q), One(255 - t)))
         /\ Join(Enc(q), One(255 - t)) \in Bytes
  <1>1. 255 - t \in Byte
    BY KeyParts
  <1>2. cellKeyQualPrefix(a, f, q) \in Bytes /\ Enc(q) \in Bytes /\ rowFamilyPrefix(a, f) \in Bytes
    BY QualForm, RowForm
  <1>3. One(255 - t) \in Bytes
    BY <1>1, FirstByte
  <1>4. cellKey(a, f, q, t) = Join(cellKeyQualPrefix(a, f, q), One(255 - t))
    BY <1>1, <1>2, FirstByte DEF cellKey
  <1>5. cellKeyQualPrefix(a, f, q) = Join(rowFamilyPrefix(a, f), Enc(q))
    BY QualForm
  <1> QED
    BY <1>2, <1>3, <1>4, <1>5, JoinAlgebra

\* Two rows' families, followed by anything, are the same key only if the row, the
\* family and what follows are the same.
LEMMA RowPrefixFree ==
  ASSUME NEW a \in Bytes, NEW b \in Bytes, NEW f \in Byte, NEW g \in Byte, NEW x \in Bytes, NEW y \in Bytes,
         Join(rowFamilyPrefix(a, f), x) = Join(rowFamilyPrefix(b, g), y)
  PROVE  a = b /\ f = g /\ x = y
  <1>1. Join(rowFamilyPrefix(a, f), x) = Join(Enc(a), Join(One(f), x))
    BY RowForm, JoinAlgebra
  <1>2. Join(rowFamilyPrefix(b, g), y) = Join(Enc(b), Join(One(g), y))
    BY RowForm, JoinAlgebra
  <1>3. Join(One(f), x) \in Bytes /\ Join(One(g), y) \in Bytes
    BY RowForm, JoinAlgebra
  <1>4. a = b /\ Join(One(f), x) = Join(One(g), y)
    <2>1. Join(Enc(a), Join(One(f), x)) = Join(Enc(b), Join(One(g), y))
      BY <1>1, <1>2
    <2> QED
      BY <1>3, <2>1, EncodingIsPrefixFree
  <1> QED
    BY <1>4, FirstByte

\* The same with the qualifier.
LEMMA QualPrefixFree ==
  ASSUME NEW a \in Bytes, NEW b \in Bytes, NEW f \in Byte, NEW g \in Byte,
         NEW p \in Bytes, NEW q \in Bytes, NEW x \in Bytes, NEW y \in Bytes,
         Join(cellKeyQualPrefix(a, f, p), x) = Join(cellKeyQualPrefix(b, g, q), y)
  PROVE  a = b /\ f = g /\ p = q /\ x = y
  <1>0. /\ Enc(p) \in Bytes /\ Enc(q) \in Bytes
        /\ rowFamilyPrefix(a, f) \in Bytes /\ rowFamilyPrefix(b, g) \in Bytes
    BY RowForm, QualForm
  <1>1. Join(cellKeyQualPrefix(a, f, p), x) = Join(rowFamilyPrefix(a, f), Join(Enc(p), x))
    BY <1>0, QualForm, JoinAlgebra
  <1>2. Join(cellKeyQualPrefix(b, g, q), y) = Join(rowFamilyPrefix(b, g), Join(Enc(q), y))
    BY <1>0, QualForm, JoinAlgebra
  <1>3. Join(Enc(p), x) \in Bytes /\ Join(Enc(q), y) \in Bytes
    BY <1>0, JoinAlgebra
  <1>4. a = b /\ f = g /\ Join(Enc(p), x) = Join(Enc(q), y)
    <2>1. Join(rowFamilyPrefix(a, f), Join(Enc(p), x)) = Join(rowFamilyPrefix(b, g), Join(Enc(q), y))
      BY <1>1, <1>2
    <2> QED
      BY <1>3, <2>1, RowPrefixFree
  <1> QED
    BY <1>4, EncodingIsPrefixFree

\* The key of an edge: its tag, and its two nodes.
EdgePrefix(tag, a) == appendOrdered(<<tag>>, a)
EdgeKey(tag, a, b) == appendOrdered(EdgePrefix(tag, a), b)

\* An edge is found under its first node.
LEMMA EdgeForm ==
  ASSUME NEW tag \in Byte, NEW a \in Bytes, NEW b \in Bytes
  PROVE  /\ Enc(b) \in Bytes /\ EdgePrefix(tag, a) = Join(One(tag), Enc(a)) /\ EdgePrefix(tag, a) \in Bytes
         /\ EdgeKey(tag, a, b) = Join(EdgePrefix(tag, a), Enc(b)) /\ EdgeKey(tag, a, b) \in Bytes
  <1>1. One(tag) \in Bytes /\ Enc(a) \in Bytes /\ Enc(b) \in Bytes
    BY FirstByte, AppendsEncoding
  <1>2. EdgePrefix(tag, a) = Join(One(tag), Enc(a))
    BY <1>1, AppendsEncoding DEF EdgePrefix, One, Join
  <1>3. EdgePrefix(tag, a) \in Bytes
    BY <1>1, <1>2, JoinAlgebra
  <1>4. EdgeKey(tag, a, b) = Join(EdgePrefix(tag, a), Enc(b))
    BY <1>3, AppendsEncoding DEF EdgeKey, Join
  <1> QED
    BY <1>1, <1>2, <1>3, <1>4, JoinAlgebra

\* Edges of two nodes, followed by anything, are the same key only if the tag, the
\* node and what follows are the same.
LEMMA EdgePrefixFree ==
  ASSUME NEW tag \in Byte, NEW gat \in Byte, NEW a \in Bytes, NEW b \in Bytes, NEW x \in Bytes, NEW y \in Bytes
  PROVE  /\ Join(EdgePrefix(tag, a), x) = Join(EdgePrefix(gat, b), y) => tag = gat /\ a = b /\ x = y
         /\ Join(EdgePrefix(tag, a), x)[1] = tag
  <1>0. One(tag) \in Bytes /\ One(gat) \in Bytes /\ Enc(a) \in Bytes /\ Enc(b) \in Bytes
    BY FirstByte, AppendsEncoding
  <1>1. Join(EdgePrefix(tag, a), x) = Join(One(tag), Join(Enc(a), x))
    BY <1>0, EdgeForm, JoinAlgebra
  <1>2. Join(EdgePrefix(gat, b), y) = Join(One(gat), Join(Enc(b), y))
    BY <1>0, EdgeForm, JoinAlgebra
  <1>3. Join(Enc(a), x) \in Bytes /\ Join(Enc(b), y) \in Bytes
    BY <1>0, JoinAlgebra
  <1>4. ASSUME Join(EdgePrefix(tag, a), x) = Join(EdgePrefix(gat, b), y) PROVE tag = gat /\ a = b /\ x = y
    <2>1. tag = gat /\ Join(Enc(a), x) = Join(Enc(b), y)
      <3>1. Join(One(tag), Join(Enc(a), x)) = Join(One(gat), Join(Enc(b), y))
        BY <1>1, <1>2, <1>4
      <3> QED
        BY <1>3, <3>1, FirstByte
    <2> QED
      BY <2>1, EncodingIsPrefixFree
  <1>5. Join(EdgePrefix(tag, a), x)[1] = tag
    BY <1>1, <1>3, FirstByte
  <1> QED
    BY <1>4, <1>5

\* The keys of the three kinds, and how each begins.
LEMMA KeyKinds ==
  /\ \A r \in Rows, f \in Families, q \in Quals, t \in Times :
       cellKey(r, f, q, t) \in KeySpace /\ cellKey(r, f, q, t) \in Bytes
  /\ \A a \in Nodes, b \in Nodes :
       /\ forwardKey(a, b) = EdgeKey(TagF, a, b) /\ backKey(a, b) = EdgeKey(TagB, a, b)
       /\ EdgeKey(TagF, a, b) \in KeySpace /\ EdgeKey(TagB, a, b) \in KeySpace
  /\ \A k \in KeySpace :
       /\ k \in Bytes
       /\ \/ \E r \in Rows, f \in Families, q \in Quals, t \in Times : k = cellKey(r, f, q, t)
          \/ \E tag \in {TagF, TagB}, a \in Nodes, b \in Nodes : k = EdgeKey(tag, a, b)
  <1>1. \A a \in Nodes, b \in Nodes : forwardKey(a, b) = EdgeKey(TagF, a, b) /\ backKey(a, b) = EdgeKey(TagB, a, b)
    BY DEF forwardKey, backKey, EdgeKey, EdgePrefix
  <1>2. ASSUME NEW r \in Rows, NEW f \in Families, NEW q \in Quals, NEW t \in Times
        PROVE  cellKey(r, f, q, t) \in KeySpace /\ cellKey(r, f, q, t) \in Bytes
    <2>1. r \in Bytes /\ q \in Bytes /\ f \in Byte
      BY KeyParts
    <2> QED
      BY <2>1, CellForm DEF KeySpace
  <1>3. ASSUME NEW tag \in {TagF, TagB}, NEW a \in Nodes, NEW b \in Nodes
        PROVE  EdgeKey(tag, a, b) \in KeySpace /\ EdgeKey(tag, a, b) \in Bytes
    <2>1. tag \in Byte /\ a \in Bytes /\ b \in Bytes
      BY KeyParts
    <2>2. EdgeKey(tag, a, b) \in Bytes
      BY <2>1, EdgeForm
    <2> QED
      BY <1>1, <2>2 DEF KeySpace
  <1>4. ASSUME NEW k \in KeySpace
        PROVE  \/ \E r \in Rows, f \in Families, q \in Quals, t \in Times : k = cellKey(r, f, q, t)
               \/ \E tag \in {TagF, TagB}, a \in Nodes, b \in Nodes : k = EdgeKey(tag, a, b)
    BY <1>1 DEF KeySpace
  <1> QED
    BY <1>1, <1>2, <1>3, <1>4

\* No row begins as an edge does.
LEMMA RowIsNoEdge ==
  ASSUME NEW r \in Rows, NEW f \in Families, NEW x \in Bytes,
         NEW tag \in {TagF, TagB}, NEW a \in Nodes, NEW y \in Bytes
  PROVE  Join(rowFamilyPrefix(r, f), x) # Join(EdgePrefix(tag, a), y)
  <1>0. r \in Bytes /\ f \in Byte /\ a \in Bytes /\ tag \in Byte /\ r # <<>> /\ r[1] # tag
    BY KeyParts
  <1>1. Join(EdgePrefix(tag, a), y)[1] = tag
    BY <1>0, EdgePrefixFree
  <1>2. Join(rowFamilyPrefix(r, f), x) = Join(Enc(r), Join(One(f), x)) /\ Join(One(f), x) \in Bytes
    <2>1. Enc(r) \in Bytes /\ One(f) \in Bytes /\ rowFamilyPrefix(r, f) = Join(Enc(r), One(f))
      BY <1>0, RowForm
    <2> QED
      BY <2>1, JoinAlgebra
  <1>3. Join(Enc(r), Join(One(f), x))[1] = r[1]
    BY <1>0, <1>2, FirstOfRow
  <1> QED
    BY <1>0, <1>1, <1>2, <1>3

\* Every version has a key of its own.
LEMMA CellKeyIsInjective ==
  ASSUME NEW r \in Rows, NEW f \in Families, NEW q \in Quals, NEW t \in Times,
         NEW s \in Rows, NEW g \in Families, NEW p \in Quals, NEW u \in Times,
         cellKey(r, f, q, t) = cellKey(s, g, p, u)
  PROVE  r = s /\ f = g /\ q = p /\ t = u
  <1>0. r \in Bytes /\ s \in Bytes /\ q \in Bytes /\ p \in Bytes /\ f \in Byte /\ g \in Byte
    BY KeyParts
  <1>1. One(255 - t) \in Bytes /\ One(255 - u) \in Bytes
    BY <1>0, CellForm
  <1>2. Join(cellKeyQualPrefix(r, f, q), One(255 - t)) = Join(cellKeyQualPrefix(s, g, p), One(255 - u))
    BY <1>0, CellForm
  <1>3. r = s /\ f = g /\ q = p /\ One(255 - t) = One(255 - u)
    <2> DEFINE x == One(255 - t)
               y == One(255 - u)
    <2>1. x \in Bytes /\ y \in Bytes /\ Join(cellKeyQualPrefix(r, f, q), x) = Join(cellKeyQualPrefix(s, g, p), y)
      BY <1>1, <1>2
    <2> HIDE DEF x, y
    <2>2. r = s /\ f = g /\ q = p /\ x = y
      BY <1>0, <2>1, QualPrefixFree
    <2> QED
      BY <2>2 DEF x, y
  <1>4. 255 - t = 255 - u
    BY <1>3 DEF One
  <1>5. t \in Nat /\ u \in Nat
    BY KeyParts
  <1>6. t = u
    BY <1>4, <1>5
  <1> QED
    BY <1>3, <1>6

\* Every edge has a key of its own, in each direction.
LEMMA EdgeKeyIsInjective ==
  ASSUME NEW tag \in {TagF, TagB}, NEW a \in Nodes, NEW b \in Nodes,
         NEW gat \in {TagF, TagB}, NEW c \in Nodes, NEW d \in Nodes,
         EdgeKey(tag, a, b) = EdgeKey(gat, c, d)
  PROVE  tag = gat /\ a = c /\ b = d
  <1>0. a \in Bytes /\ b \in Bytes /\ c \in Bytes /\ d \in Bytes /\ tag \in Byte /\ gat \in Byte /\ <<>> \in Bytes
    BY KeyParts DEF Bytes
  <1>1. Join(EdgePrefix(tag, a), Enc(b)) = Join(EdgePrefix(gat, c), Enc(d)) /\ Enc(b) \in Bytes /\ Enc(d) \in Bytes
    BY <1>0, EdgeForm
  <1>2. tag = gat /\ a = c /\ Enc(b) = Enc(d)
    BY <1>0, <1>1, EdgePrefixFree
  <1>3. Join(Enc(b), <<>>) = Join(Enc(d), <<>>)
    BY <1>2
  <1> QED
    BY <1>0, <1>2, <1>3, EncodingIsPrefixFree

\* No version has the key of an edge.
LEMMA CellIsNoEdge ==
  ASSUME NEW r \in Rows, NEW f \in Families, NEW q \in Quals, NEW t \in Times,
         NEW tag \in {TagF, TagB}, NEW a \in Nodes, NEW b \in Nodes
  PROVE  cellKey(r, f, q, t) # EdgeKey(tag, a, b)
  <1>0. r \in Bytes /\ f \in Byte /\ q \in Bytes /\ a \in Bytes /\ b \in Bytes /\ tag \in Byte
    BY KeyParts
  <1> DEFINE x == Join(Enc(q), One(255 - t))
  <1>1. cellKey(r, f, q, t) = Join(rowFamilyPrefix(r, f), x) /\ x \in Bytes
    BY <1>0, CellForm
  <1>2. EdgeKey(tag, a, b) = Join(EdgePrefix(tag, a), Enc(b)) /\ Enc(b) \in Bytes
    BY <1>0, EdgeForm
  <1> HIDE DEF x
  <1> QED
    BY <1>1, <1>2, RowIsNoEdge

\* There is a byte that PrefixEnd can raise.
CanRise(p) == \E z \in 1 .. Len(p) : p[z] # 255

\* A prefix that ends in an encoded segment, or goes on behind one, has a byte that is
\* not 255.
LEMMA ZeroInside ==
  ASSUME NEW s \in Bytes, NEW x \in Bytes
  PROVE  CanRise(Join(x, Enc(s))) /\ CanRise(Join(Enc(s), x))
  <1> DEFINE B == Body(s, Len(s))
             M == Len(B)
             E == Enc(s)
  <1>1. B \in Bytes /\ E = B \o <<0, 0>> /\ E \in Bytes /\ <<0, 0>> \in Bytes
    BY AppendsEncoding
  <1>2. M \in Nat /\ Len(E) = M + 2 /\ \A i \in 1 .. 2 : E[M + i] = <<0, 0>>[i]
    <2>1. M \in Nat /\ Len(B \o <<0, 0>>) = M + Len(<<0, 0>>)
      BY <1>1, Joined
    <2>2. \A i \in 1 .. 2 : (B \o <<0, 0>>)[M + i] = <<0, 0>>[i]
      BY <1>1, Joined
    <2> QED
      BY <1>1, <2>1, <2>2
  <1> HIDE DEF B, M, E
  <1>3. Len(E) \in Nat /\ M + 1 \in 1 .. Len(E) /\ E[M + 1] = 0
    BY <1>2
  <1>4. Len(x) \in Nat
    BY DEF Bytes
  <1>5. Len(E \o x) = Len(E) + Len(x) /\ (E \o x)[M + 1] = 0
    <2>1. Len(E \o x) = Len(E) + Len(x) /\ \A i \in 1 .. Len(E) : (E \o x)[i] = E[i]
      BY <1>1, Joined
    <2> QED
      BY <1>3, <2>1
  <1>6. Len(x \o E) = Len(x) + Len(E) /\ (x \o E)[Len(x) + (M + 1)] = 0
    BY <1>1, <1>3, Joined
  <1>7. M + 1 \in 1 .. Len(E) + Len(x) /\ Len(x) + (M + 1) \in 1 .. Len(x) + Len(E)
    BY <1>2, <1>3, <1>4
  <1> QED
    BY <1>5, <1>6, <1>7 DEF Join, E, CanRise

\* What the scans of a row's family, of a cell and of a node's edges are over: the keys
\* of the engine that begin with the prefix.
LEMMA ScanSet ==
  ASSUME NEW p \in Bytes, NEW K \in SUBSET KeySpace,
         \/ \E r \in Rows, f \in Families : p = rowFamilyPrefix(r, f)
         \/ \E r \in Rows, f \in Families, q \in Quals : p = cellKeyQualPrefix(r, f, q)
         \/ \E tag \in {TagF, TagB}, a \in Nodes : p = EdgePrefix(tag, a)
  PROVE  {k \in K : ~Less(k, p) /\ (PrefixEnd(p) = <<>> \/ Less(k, PrefixEnd(p)))}
         = {k \in K : StartsWith(k, p)}
  <1>1. CanRise(p)
    <2>1. ASSUME NEW r \in Rows, NEW f \in Families, p = rowFamilyPrefix(r, f)
          PROVE  CanRise(p)
      <3>1. r \in Bytes /\ f \in Byte
        BY KeyParts
      <3>2. p = Join(Enc(r), One(f)) /\ One(f) \in Bytes
        BY <2>1, <3>1, RowForm
      <3> QED
        BY <3>1, <3>2, ZeroInside
    <2>2. ASSUME NEW r \in Rows, NEW f \in Families, NEW q \in Quals, p = cellKeyQualPrefix(r, f, q)
          PROVE  CanRise(p)
      <3>1. r \in Bytes /\ f \in Byte /\ q \in Bytes
        BY KeyParts
      <3>2. p = Join(rowFamilyPrefix(r, f), Enc(q)) /\ rowFamilyPrefix(r, f) \in Bytes
        BY <2>2, <3>1, QualForm, RowForm
      <3> QED
        BY <3>1, <3>2, ZeroInside
    <2>3. ASSUME NEW tag \in {TagF, TagB}, NEW a \in Nodes, p = EdgePrefix(tag, a)
          PROVE  CanRise(p)
      <3>1. tag \in Byte /\ a \in Bytes
        BY KeyParts
      <3>2. p = Join(One(tag), Enc(a)) /\ One(tag) \in Bytes
        BY <2>3, <3>1, EdgeForm, FirstByte
      <3> QED
        BY <3>1, <3>2, ZeroInside
    <2> QED
      BY <2>1, <2>2, <2>3
  <1>2. ASSUME NEW k \in K
        PROVE  ~Less(k, p) /\ (PrefixEnd(p) = <<>> \/ Less(k, PrefixEnd(p))) <=> StartsWith(k, p)
    <2>1. k \in Bytes
      BY KeyKinds
    <2> QED
      BY <1>1, <2>1, ScanIsPrefix DEF CanRise
  <1> QED
    BY <1>2

\* The keys under a row's family are those of its versions: no other row, family or edge.
LEMMA RowScan ==
  ASSUME NEW k \in KeySpace, NEW r \in Rows, NEW f \in Families
  PROVE  StartsWith(k, rowFamilyPrefix(r, f)) <=> \E q \in Quals, t \in Times : k = cellKey(r, f, q, t)
  <1>0. k \in Bytes /\ r \in Bytes /\ f \in Byte /\ rowFamilyPrefix(r, f) \in Bytes
    BY KeyKinds, KeyParts, RowForm
  <1>1. ASSUME NEW q \in Quals, NEW t \in Times, k = cellKey(r, f, q, t)
        PROVE  StartsWith(k, rowFamilyPrefix(r, f))
    <2>1. q \in Bytes
      BY KeyParts
    <2>2. k = Join(rowFamilyPrefix(r, f), Join(Enc(q), One(255 - t))) /\ Join(Enc(q), One(255 - t)) \in Bytes
      BY <1>0, <1>1, <2>1, CellForm
    <2> QED
      BY <1>0, <2>2, StartsWithMeans
  <1>2. ASSUME StartsWith(k, rowFamilyPrefix(r, f))
        PROVE  \E q \in Quals, t \in Times : k = cellKey(r, f, q, t)
    <2>1. PICK x \in Bytes : k = Join(rowFamilyPrefix(r, f), x)
      BY <1>0, <1>2, StartsWithMeans
    <2>2. ASSUME NEW s \in Rows, NEW g \in Families, NEW q \in Quals, NEW t \in Times, k = cellKey(s, g, q, t)
          PROVE  r = s /\ f = g
      <3>1. q \in Bytes /\ s \in Bytes /\ g \in Byte
        BY KeyParts
      <3> DEFINE y == Join(Enc(q), One(255 - t))
      <3>2. k = Join(rowFamilyPrefix(s, g), y) /\ y \in Bytes
        BY <2>2, <3>1, CellForm
      <3> HIDE DEF y
      <3>3. Join(rowFamilyPrefix(r, f), x) = Join(rowFamilyPrefix(s, g), y)
        BY <2>1, <3>2
      <3> QED
        BY <1>0, <3>1, <3>2, <3>3, RowPrefixFree
    <2>3. ASSUME NEW tag \in {TagF, TagB}, NEW a \in Nodes, NEW b \in Nodes, k = EdgeKey(tag, a, b)
          PROVE  FALSE
      <3>1. tag \in Byte /\ a \in Bytes /\ b \in Bytes
        BY KeyParts
      <3>2. k = Join(EdgePrefix(tag, a), Enc(b)) /\ Enc(b) \in Bytes
        BY <2>3, <3>1, EdgeForm
      <3> QED
        BY <2>1, <3>2, RowIsNoEdge
    <2> QED
      BY <2>2, <2>3, KeyKinds
  <1> QED
    BY <1>1, <1>2

\* The keys under a cell are those of its versions.
LEMMA QualScan ==
  ASSUME NEW k \in KeySpace, NEW r \in Rows, NEW f \in Families, NEW q \in Quals
  PROVE  StartsWith(k, cellKeyQualPrefix(r, f, q)) <=> \E t \in Times : k = cellKey(r, f, q, t)
  <1>0. k \in Bytes /\ r \in Bytes /\ f \in Byte /\ q \in Bytes
    BY KeyKinds, KeyParts
  <1>p. /\ cellKeyQualPrefix(r, f, q) \in Bytes /\ rowFamilyPrefix(r, f) \in Bytes /\ Enc(q) \in Bytes
        /\ cellKeyQualPrefix(r, f, q) = Join(rowFamilyPrefix(r, f), Enc(q))
    BY <1>0, QualForm, RowForm
  <1>1. ASSUME NEW t \in Times, k = cellKey(r, f, q, t) PROVE StartsWith(k, cellKeyQualPrefix(r, f, q))
    <2>1. k = Join(cellKeyQualPrefix(r, f, q), One(255 - t)) /\ One(255 - t) \in Bytes
      BY <1>0, <1>1, CellForm
    <2> QED
      BY <1>0, <1>p, <2>1, StartsWithMeans
  <1>2. ASSUME StartsWith(k, cellKeyQualPrefix(r, f, q)) PROVE \E t \in Times : k = cellKey(r, f, q, t)
    <2>1. PICK x \in Bytes : k = Join(cellKeyQualPrefix(r, f, q), x)
      BY <1>0, <1>p, <1>2, StartsWithMeans
    <2>2. k = Join(rowFamilyPrefix(r, f), Join(Enc(q), x)) /\ Join(Enc(q), x) \in Bytes
      BY <1>p, <2>1, JoinAlgebra
    <2>3. StartsWith(k, rowFamilyPrefix(r, f))
      BY <1>0, <1>p, <2>2, StartsWithMeans
    <2>4. PICK p \in Quals, t \in Times : k = cellKey(r, f, p, t)
      BY <2>3, RowScan
    <2>5. p \in Bytes
      BY KeyParts
    <2>6. k = Join(cellKeyQualPrefix(r, f, p), One(255 - t)) /\ One(255 - t) \in Bytes
      BY <1>0, <2>4, <2>5, CellForm
    <2> DEFINE y == One(255 - t)
    <2>7. y \in Bytes /\ Join(cellKeyQualPrefix(r, f, q), x) = Join(cellKeyQualPrefix(r, f, p), y)
      BY <2>1, <2>6
    <2> HIDE DEF y
    <2>8. q = p
      BY <1>0, <2>5, <2>7, QualPrefixFree
    <2> QED
      BY <2>4, <2>8
  <1> QED
    BY <1>1, <1>2

\* The keys under a node, in one direction, are those of its edges.
LEMMA EdgeScan ==
  ASSUME NEW k \in KeySpace, NEW tag \in {TagF, TagB}, NEW a \in Nodes
  PROVE  StartsWith(k, EdgePrefix(tag, a)) <=> \E b \in Nodes : k = EdgeKey(tag, a, b)
  <1>0. k \in Bytes /\ a \in Bytes /\ tag \in Byte /\ EdgePrefix(tag, a) \in Bytes
    BY KeyKinds, KeyParts, EdgeForm
  <1>1. ASSUME NEW b \in Nodes, k = EdgeKey(tag, a, b) PROVE StartsWith(k, EdgePrefix(tag, a))
    <2>1. b \in Bytes
      BY KeyParts
    <2>2. k = Join(EdgePrefix(tag, a), Enc(b)) /\ Enc(b) \in Bytes
      BY <1>0, <1>1, <2>1, EdgeForm
    <2> QED
      BY <1>0, <2>2, StartsWithMeans
  <1>2. ASSUME StartsWith(k, EdgePrefix(tag, a)) PROVE \E b \in Nodes : k = EdgeKey(tag, a, b)
    <2>1. PICK x \in Bytes : k = Join(EdgePrefix(tag, a), x)
      BY <1>0, <1>2, StartsWithMeans
    <2>2. ASSUME NEW s \in Rows, NEW g \in Families, NEW q \in Quals, NEW t \in Times, k = cellKey(s, g, q, t)
          PROVE  FALSE
      <3>1. q \in Bytes /\ s \in Bytes /\ g \in Byte
        BY KeyParts
      <3> DEFINE y == Join(Enc(q), One(255 - t))
      <3>2. k = Join(rowFamilyPrefix(s, g), y) /\ y \in Bytes
        BY <2>2, <3>1, CellForm
      <3> HIDE DEF y
      <3> QED
        BY <2>1, <3>2, RowIsNoEdge
    <2>3. ASSUME NEW gat \in {TagF, TagB}, NEW c \in Nodes, NEW b \in Nodes, k = EdgeKey(gat, c, b)
          PROVE  tag = gat /\ a = c
      <3>1. gat \in Byte /\ c \in Bytes /\ b \in Bytes
        BY KeyParts
      <3>2. k = Join(EdgePrefix(gat, c), Enc(b)) /\ Enc(b) \in Bytes
        BY <2>3, <3>1, EdgeForm
      <3>3. Join(EdgePrefix(tag, a), x) = Join(EdgePrefix(gat, c), Enc(b))
        BY <2>1, <3>2
      <3> QED
        BY <1>0, <3>1, <3>2, <3>3, EdgePrefixFree
    <2> QED
      BY <2>2, <2>3, KeyKinds
  <1> QED
    BY <1>1, <1>2

\* What the readers decode from a key is what it was made of.
LEMMA KeysDecode ==
  /\ \A r \in Rows, f \in Families, q \in Quals, t \in Times :
       /\ decodeTS(cellKey(r, f, q, t)) = t
       /\ decodeQualifier(cellKey(r, f, q, t), r) = q
  /\ \A tag \in {TagF, TagB}, a \in Nodes, b \in Nodes :
       decodeOrdered(SubSeq(EdgeKey(tag, a, b), Len(EdgePrefix(tag, a)) + 1, Len(EdgeKey(tag, a, b)))) = b
  <1>1. ASSUME NEW r \in Rows, NEW f \in Families, NEW q \in Quals, NEW t \in Times
        PROVE  decodeTS(cellKey(r, f, q, t)) = t
    <2>1. r \in Bytes /\ q \in Bytes /\ f \in Byte /\ t \in Nat
      BY KeyParts
    <2> DEFINE p == cellKeyQualPrefix(r, f, q)
               o == One(255 - t)
               k == cellKey(r, f, q, t)
    <2>2. p \in Bytes /\ o \in Bytes /\ k = p \o o
      <3>1. p \in Bytes /\ o \in Bytes /\ k = Join(p, o)
        BY <2>1, QualForm, CellForm
      <3> HIDE DEF p, o, k
      <3> QED
        BY <3>1 DEF Join
    <2>3. Len(o) = 1 /\ o[1] = 255 - t
      BY DEF One
    <2> HIDE DEF p, o, k
    <2>4. Len(p) \in Nat /\ Len(p \o o) = Len(p) + Len(o) /\ \A i \in 1 .. Len(o) : (p \o o)[Len(p) + i] = o[i]
      BY <2>2, Joined
    <2>5. Len(k) = Len(p) + 1 /\ k[Len(p) + 1] = 255 - t
      BY <2>2, <2>3, <2>4
    <2>6. decodeTS(k) = 255 - (255 - t)
      BY <2>5 DEF decodeTS
    <2> QED
      BY <2>1, <2>6 DEF k
  <1>2. ASSUME NEW r \in Rows, NEW f \in Families, NEW q \in Quals, NEW t \in Times
        PROVE  decodeQualifier(cellKey(r, f, q, t), r) = q
    <2>1. r \in Bytes /\ q \in Bytes /\ f \in Byte
      BY KeyParts
    <2> DEFINE p == rowFamilyPrefix(r, f)
               x == Join(Enc(q), One(255 - t))
               k == cellKey(r, f, q, t)
    <2>2. p \in Bytes /\ x \in Bytes /\ k = Join(p, x) /\ One(255 - t) \in Bytes
      BY <2>1, RowForm, CellForm
    <2>3. Len(p) = Len(appendOrdered(<<>>, r)) + 1 /\ Len(appendOrdered(<<>>, r)) \in Nat
      <3>1. Enc(r) \in Bytes /\ One(f) \in Bytes /\ p = Enc(r) \o One(f)
        BY <2>1, RowForm DEF Join
      <3>2. Len(One(f)) = 1
        BY DEF One
      <3>3. Len(Enc(r)) \in Nat /\ Len(Enc(r) \o One(f)) = Len(Enc(r)) + Len(One(f))
        BY <3>1, Joined
      <3> QED
        BY <3>1, <3>2, <3>3 DEF Enc
    <2>4. decodeOrdered(x) = q
      BY <2>1, <2>2, DecodeIsInverse DEF Join
    <2>5. Len(appendOrdered(<<>>, r)) + 2 = Len(p) + 1
      BY <2>3
    <2> HIDE DEF p, x, k
    <2>6. SubSeq(k, Len(p) + 1, Len(k)) = x
      BY <2>2, DropJoined
    <2> QED
      BY <2>4, <2>5, <2>6 DEF decodeQualifier, k
  <1>3. ASSUME NEW tag \in {TagF, TagB}, NEW a \in Nodes, NEW b \in Nodes
        PROVE  decodeOrdered(SubSeq(EdgeKey(tag, a, b), Len(EdgePrefix(tag, a)) + 1, Len(EdgeKey(tag, a, b)))) = b
    <2>1. tag \in Byte /\ a \in Bytes /\ b \in Bytes
      BY KeyParts
    <2>2. Enc(b) \in Bytes /\ EdgePrefix(tag, a) \in Bytes /\ EdgeKey(tag, a, b) = Join(EdgePrefix(tag, a), Enc(b))
      BY <2>1, EdgeForm
    <2>3. SubSeq(EdgeKey(tag, a, b), Len(EdgePrefix(tag, a)) + 1, Len(EdgeKey(tag, a, b))) = Enc(b)
      BY <2>2, DropJoined
    <2>4. <<>> \in Bytes /\ Enc(b) \o <<>> = Enc(b)
      BY <2>2, ConcatEmptySeq DEF Bytes
    <2>5. decodeOrdered(Enc(b)) = b
      BY <2>1, <2>4, DecodeIsInverse
    <2> QED
      BY <2>3, <2>5
  <1> QED
    BY <1>1, <1>2, <1>3

\* The versions of a cell sort newest first.
LEMMA NewestFirst ==
  ASSUME NEW r \in Rows, NEW f \in Families, NEW q \in Quals, NEW t \in Times, NEW u \in Times
  PROVE  Less(cellKey(r, f, q, t), cellKey(r, f, q, u)) <=> t > u
  <1> DEFINE K(v) == cellKey(r, f, q, v)
  <1>0. r \in Bytes /\ q \in Bytes /\ f \in Byte /\ \A v \in Times : v \in Nat /\ v <= 127
    BY KeyParts
  <1>1. ASSUME NEW v \in Times, NEW w \in Times, v > w PROVE Less(K(v), K(w))
    <2> DEFINE p == cellKeyQualPrefix(r, f, q)
               n == Len(p) + 1
    <2>1. p \in Bytes /\ K(v) \in Bytes /\ K(w) \in Bytes /\ K(v) = p \o <<255 - v>> /\ K(w) = p \o <<255 - w>>
          /\ <<255 - v>> \in Bytes /\ <<255 - w>> \in Bytes
      <3>1. p \in Bytes
        BY <1>0, QualForm
      <3>2. K(v) \in Bytes /\ One(255 - v) \in Bytes /\ K(v) = Join(p, One(255 - v))
        BY <1>0, CellForm
      <3>3. K(w) \in Bytes /\ One(255 - w) \in Bytes /\ K(w) = Join(p, One(255 - w))
        BY <1>0, CellForm
      <3> HIDE DEF p, K
      <3> QED
        BY <3>1, <3>2, <3>3 DEF Join, One
    <2> HIDE DEF p
    <2>2. Len(p) \in Nat
      BY <2>1 DEF Bytes
    <2>3. Len(K(v)) = n /\ K(v)[n] = 255 - v /\ \A i \in 1 .. Len(p) : K(v)[i] = p[i]
      BY <2>1, Joined
    <2>4. Len(K(w)) = n /\ K(w)[n] = 255 - w /\ \A i \in 1 .. Len(p) : K(w)[i] = p[i]
      BY <2>1, Joined
    <2> HIDE DEF K
    <2>5. n \in Nat \ {0} /\ n \in 1 .. n /\ n - 1 = Len(p)
      BY <2>2
    <2>6. At(K(v), n) = 255 - v /\ At(K(w), n) = 255 - w
      BY <2>3, <2>4, <2>5 DEF At
    <2>7. ASSUME NEW j \in 1 .. n - 1 PROVE At(K(v), j) = At(K(w), j)
      <3>1. j \in 1 .. Len(p) /\ j \in 1 .. n
        BY <2>2
      <3> QED
        BY <2>3, <2>4, <3>1 DEF At
    <2>8. 255 - v < 255 - w
      BY <1>0, <1>1
    <2>9. Splits(K(v), K(w), n)
      BY <2>6, <2>7, <2>8 DEF Splits
    <2> QED
      BY <2>1, <2>5, <2>9, LessIsSplit
  <1>2. K(t) \in Bytes /\ K(u) \in Bytes
    BY <1>0, CellForm
  <1>3. ASSUME Less(K(t), K(u)) PROVE t > u
    <2>1. CASE t = u
      BY <1>2, <1>3, <2>1, LessIsTotal
    <2>2. CASE u > t
      <3>1. Less(K(u), K(t))
        BY <1>1, <2>2
      <3>2. ~Less(K(t), K(t))
        BY <1>2, LessIsTotal
      <3> QED
        BY <1>2, <1>3, <3>1, <3>2, LessIsTotal
    <2> QED
      BY <1>0, <2>1, <2>2
  <1> QED
    BY <1>1, <1>3

-----------------------------------------------------------------------------
(***************************************************************************)
(* Sets put in order.  An order is a set R of pairs.                       *)
(***************************************************************************)

Orders(R, S) ==
  /\ \A x \in S : <<x, x>> \notin R
  /\ \A x, y, z \in S : <<x, y>> \in R /\ <<y, z>> \in R => <<x, z>> \in R
  /\ \A x, y \in S : x = y \/ <<x, y>> \in R \/ <<y, x>> \in R

Below(R, S, x) == {y \in S : <<y, x>> \in R}

RankOf(R, S, x) == Cardinality(Below(R, S, x))

\* A rank is a number below the cardinality, and the larger element has the larger one.
LEMMA RankGrows ==
  ASSUME NEW S, IsFiniteSet(S), NEW R, Orders(R, S)
  PROVE  /\ Cardinality(S) \in Nat
         /\ \A x \in S : RankOf(R, S, x) \in 0 .. Cardinality(S) - 1
         /\ \A x, y \in S : <<x, y>> \in R <=> RankOf(R, S, x) < RankOf(R, S, y)
  <1>0. Cardinality(S) \in Nat
    BY FS_CardinalityType
  <1>1. ASSUME NEW x \in S
        PROVE  /\ IsFiniteSet(Below(R, S, x)) /\ RankOf(R, S, x) \in Nat
               /\ RankOf(R, S, x) \in 0 .. Cardinality(S) - 1
    <2>1. Below(R, S, x) \in SUBSET S /\ x \notin Below(R, S, x)
      BY DEF Below, Orders
    <2>2. Below(R, S, x) # S
      BY <2>1
    <2>3. IsFiniteSet(Below(R, S, x)) /\ Cardinality(Below(R, S, x)) <= Cardinality(S)
          /\ Cardinality(S) # Cardinality(Below(R, S, x))
      BY <2>1, <2>2, FS_Subset
    <2>4. Cardinality(Below(R, S, x)) \in Nat
      BY <2>3, FS_CardinalityType
    <2> QED
      BY <1>0, <2>3, <2>4 DEF RankOf
  <1>2. ASSUME NEW x \in S, NEW y \in S, <<x, y>> \in R PROVE RankOf(R, S, x) < RankOf(R, S, y)
    <2>1. Below(R, S, x) \in SUBSET Below(R, S, y)
      BY <1>2 DEF Below, Orders
    <2>2. x \in Below(R, S, y) /\ x \notin Below(R, S, x)
      BY <1>2 DEF Below, Orders
    <2>3. Below(R, S, x) # Below(R, S, y)
      BY <2>2
    <2>4. /\ Cardinality(Below(R, S, x)) <= Cardinality(Below(R, S, y))
          /\ Cardinality(Below(R, S, y)) # Cardinality(Below(R, S, x))
      BY <1>1, <2>1, <2>3, FS_Subset
    <2>5. RankOf(R, S, x) \in Nat /\ RankOf(R, S, y) \in Nat
      BY <1>1
    <2> QED
      BY <2>4, <2>5 DEF RankOf
  <1>3. ASSUME NEW x \in S, NEW y \in S, RankOf(R, S, x) < RankOf(R, S, y) PROVE <<x, y>> \in R
    <2>1. RankOf(R, S, x) \in Nat /\ RankOf(R, S, y) \in Nat
      BY <1>1
    <2>2. x # y /\ <<y, x>> \notin R
      BY <1>2, <1>3, <2>1
    <2> QED
      BY <2>2 DEF Orders
  <1> QED
    BY <1>0, <1>1, <1>2, <1>3

\* Every rank below the cardinality is taken, once.
LEMMA RankTaken ==
  ASSUME NEW S, IsFiniteSet(S), NEW R, Orders(R, S)
  PROVE  /\ \A x, y \in S : RankOf(R, S, x) = RankOf(R, S, y) => x = y
         /\ \A n \in 0 .. Cardinality(S) - 1 : \E x \in S : RankOf(R, S, x) = n
  <1> DEFINE c == Cardinality(S)
             h == [x \in S |-> RankOf(R, S, x)]
             D == 0 .. c - 1
  <1>1. c \in Nat /\ \A x \in S : RankOf(R, S, x) \in D /\ RankOf(R, S, x) \in Int
    BY RankGrows
  <1>2. \A x, y \in S : RankOf(R, S, x) = RankOf(R, S, y) => x = y
    <2> SUFFICES ASSUME NEW x \in S, NEW y \in S, RankOf(R, S, x) = RankOf(R, S, y), x # y PROVE FALSE
      OBVIOUS
    <2>1. <<x, y>> \in R \/ <<y, x>> \in R
      BY DEF Orders
    <2>2. RankOf(R, S, x) < RankOf(R, S, y) \/ RankOf(R, S, y) < RankOf(R, S, x)
      BY <2>1, RankGrows
    <2> QED
      BY <1>1, <2>2
  <1>3. h \in Injection(S, D)
    BY <1>1, <1>2 DEF Injection, IsInjective
  <1>4. IsFiniteSet(D) /\ Cardinality(D) = c
    <2>1. 0 \in Int /\ c - 1 \in Int
      BY <1>1
    <2>2. IsFiniteSet(D) /\ Cardinality(D) = IF 0 > c - 1 THEN 0 ELSE (c - 1) - 0 + 1
      BY <2>1, FS_Interval
    <2> HIDE DEF c
    <2> QED
      BY <1>1, <2>2
  <1>5. h \in Surjection(S, D)
    <2> HIDE DEF h, D
    <2> QED
      BY <1>3, <1>4, FS_Injection
  <1>6. \A n \in D : \E x \in S : h[x] = n
    BY <1>5 DEF Surjection
  <1> QED
    BY <1>2, <1>6

\* A finite set listed by rank: every element once, in order.
Listed(R, S) == [i \in 1 .. Cardinality(S) |-> CHOOSE x \in S : RankOf(R, S, x) = i - 1]

\* What a list by rank holds.
LEMMA ListedInOrder ==
  ASSUME NEW S, IsFiniteSet(S), NEW R, Orders(R, S)
  PROVE  /\ Cardinality(S) \in Nat /\ DOMAIN Listed(R, S) = 1 .. Cardinality(S)
         /\ \A i \in 1 .. Cardinality(S) : Listed(R, S)[i] \in S
         /\ \A i, j \in 1 .. Cardinality(S) : i < j <=> <<Listed(R, S)[i], Listed(R, S)[j]>> \in R
         /\ \A i, j \in 1 .. Cardinality(S) : Listed(R, S)[i] = Listed(R, S)[j] => i = j
         /\ \A x \in S : \E i \in 1 .. Cardinality(S) : Listed(R, S)[i] = x
  <1> DEFINE c == Cardinality(S)
             s == Listed(R, S)
  <1>1. c \in Nat /\ DOMAIN s = 1 .. c
    BY RankGrows DEF Listed
  <1>2. ASSUME NEW i \in 1 .. c PROVE s[i] \in S /\ RankOf(R, S, s[i]) = i - 1
    <2>1. i - 1 \in 0 .. c - 1
      BY <1>1
    <2>2. \E x \in S : RankOf(R, S, x) = i - 1
      BY <2>1, RankTaken
    <2>3. s[i] = CHOOSE x \in S : RankOf(R, S, x) = i - 1
      BY DEF Listed
    <2> HIDE DEF s
    <2> QED
      BY <2>2, <2>3
  <1> HIDE DEF s
  <1>3. ASSUME NEW i \in 1 .. c, NEW j \in 1 .. c PROVE i < j <=> <<s[i], s[j]>> \in R
    <2>1. s[i] \in S /\ s[j] \in S /\ RankOf(R, S, s[i]) = i - 1 /\ RankOf(R, S, s[j]) = j - 1
      BY <1>2
    <2>2. <<s[i], s[j]>> \in R <=> RankOf(R, S, s[i]) < RankOf(R, S, s[j])
      BY <2>1, RankGrows
    <2>3. i < j <=> i - 1 < j - 1
      BY <1>1
    <2> QED
      BY <2>1, <2>2, <2>3
  <1>4. ASSUME NEW i \in 1 .. c, NEW j \in 1 .. c, s[i] = s[j] PROVE i = j
    BY <1>1, <1>2, <1>4
  <1>5. ASSUME NEW x \in S PROVE \E i \in 1 .. c : s[i] = x
    <2>1. RankOf(R, S, x) \in 0 .. c - 1
      BY RankGrows
    <2>2. RankOf(R, S, x) + 1 \in 1 .. c /\ (RankOf(R, S, x) + 1) - 1 = RankOf(R, S, x)
      BY <1>1, <2>1
    <2>3. s[RankOf(R, S, x) + 1] = x
      BY <1>2, <2>2, RankTaken
    <2> QED
      BY <2>2, <2>3
  <1> QED
    BY <1>1, <1>2, <1>3, <1>4, <1>5 DEF s

KeyOrder == {w \in Bytes \X Bytes : Less(w[1], w[2])}

\* The engine's keys in order: every key of the set once, the smaller first.
LEMMA KeysInOrder ==
  ASSUME NEW K \in SUBSET Bytes, IsFiniteSet(K)
  PROVE  LET s == inOrder(K)
         IN  /\ Cardinality(K) \in Nat /\ DOMAIN s = 1 .. Cardinality(K) /\ Len(s) = Cardinality(K)
             /\ \A i \in 1 .. Cardinality(K) : s[i] \in K
             /\ \A i, j \in 1 .. Cardinality(K) : i < j <=> Less(s[i], s[j])
             /\ \A i, j \in 1 .. Cardinality(K) : s[i] = s[j] => i = j
             /\ \A k \in K : \E i \in 1 .. Cardinality(K) : s[i] = k
  <1>1. Orders(KeyOrder, K)
    <2>1. \A x, y \in K : <<x, y>> \in KeyOrder <=> Less(x, y)
      BY DEF KeyOrder
    <2>2. ASSUME NEW x \in K, NEW y \in K, NEW z \in K
          PROVE  ~Less(x, x) /\ (Less(x, y) /\ Less(y, z) => Less(x, z)) /\ (x = y \/ Less(x, y) \/ Less(y, x))
      <3>1. x \in Bytes /\ y \in Bytes /\ z \in Bytes
        OBVIOUS
      <3> QED
        BY <3>1, LessIsTotal
    <2> QED
      BY <2>1, <2>2 DEF Orders
  <1>2. \A k \in K : Cardinality({j \in K : Less(j, k)}) = RankOf(KeyOrder, K, k)
    <2> SUFFICES ASSUME NEW k \in K PROVE {j \in K : Less(j, k)} = Below(KeyOrder, K, k)
      BY DEF RankOf
    <2> QED
      BY DEF Below, KeyOrder
  <1>3. inOrder(K) = Listed(KeyOrder, K)
    <2> DEFINE A(i) == CHOOSE k \in K : Cardinality({j \in K : Less(j, k)}) = i - 1
               B(i) == CHOOSE k \in K : RankOf(KeyOrder, K, k) = i - 1
    <2>1. \A i \in 1 .. Cardinality(K) : A(i) = B(i)
      BY <1>2
    <2>2. inOrder(K) = [i \in 1 .. Cardinality(K) |-> A(i)]
      BY DEF inOrder
    <2>3. Listed(KeyOrder, K) = [i \in 1 .. Cardinality(K) |-> B(i)]
      BY DEF Listed
    <2> HIDE DEF A, B
    <2> QED
      BY <2>1, <2>2, <2>3
  <1>4. /\ Cardinality(K) \in Nat /\ DOMAIN Listed(KeyOrder, K) = 1 .. Cardinality(K)
        /\ \A i \in 1 .. Cardinality(K) : Listed(KeyOrder, K)[i] \in K
        /\ \A i, j \in 1 .. Cardinality(K) : i < j <=> <<Listed(KeyOrder, K)[i], Listed(KeyOrder, K)[j]>> \in KeyOrder
        /\ \A i, j \in 1 .. Cardinality(K) : Listed(KeyOrder, K)[i] = Listed(KeyOrder, K)[j] => i = j
        /\ \A x \in K : \E i \in 1 .. Cardinality(K) : Listed(KeyOrder, K)[i] = x
    BY <1>1, ListedInOrder
  <1> DEFINE s == Listed(KeyOrder, K)
             c == Cardinality(K)
  <1>5. \A i, j \in 1 .. c : <<s[i], s[j]>> \in KeyOrder <=> Less(s[i], s[j])
    BY <1>4 DEF KeyOrder
  <1>6. Len(s) = c
    <2>1. s = [i \in 1 .. c |-> s[i]]
      BY DEF Listed
    <2> HIDE DEF s, c
    <2> QED
      BY <1>4, <2>1 DEF c, s
  <1> QED
    BY <1>3, <1>4, <1>5, <1>6

NumberOrder == {w \in Nat \X Nat : w[1] < w[2]}

\* The elements picked from s: those at the places of I, each place once, in order.
LEMMA PickedInOrder ==
  ASSUME NEW s, NEW I \in SUBSET Nat, IsFiniteSet(I)
  PROVE  /\ Cardinality(I) \in Nat /\ DOMAIN picked(s, I) = 1 .. Cardinality(I)
         /\ Len(picked(s, I)) = Cardinality(I)
         /\ \A n \in 1 .. Cardinality(I) : \E i \in I : picked(s, I)[n] = s[i]
         /\ \A i \in I : \E n \in 1 .. Cardinality(I) : picked(s, I)[n] = s[i]
  <1> DEFINE c == Cardinality(I)
             o == Listed(NumberOrder, I)
             p == picked(s, I)
  <1>1. Orders(NumberOrder, I)
    BY DEF NumberOrder, Orders
  <1>2. \A i \in I : Cardinality({j \in I : j < i}) = RankOf(NumberOrder, I, i)
    <2> SUFFICES ASSUME NEW i \in I PROVE {j \in I : j < i} = Below(NumberOrder, I, i)
      BY DEF RankOf
    <2> QED
      BY DEF Below, NumberOrder
  <1>3. p = [n \in 1 .. c |-> s[o[n]]]
    <2> DEFINE A(n) == CHOOSE i \in I : Cardinality({j \in I : j < i}) = n - 1
               B(n) == CHOOSE i \in I : RankOf(NumberOrder, I, i) = n - 1
    <2>1. \A n \in 1 .. c : A(n) = B(n)
      BY <1>2
    <2>2. p = [n \in 1 .. c |-> s[A(n)]]
      BY DEF picked
    <2>3. o = [n \in 1 .. c |-> B(n)]
      BY DEF Listed
    <2> HIDE DEF A, B, p, o, c
    <2> QED
      BY <2>1, <2>2, <2>3
  <1>4. /\ c \in Nat /\ \A n \in 1 .. c : o[n] \in I
        /\ \A i \in I : \E n \in 1 .. c : o[n] = i
    BY <1>1, ListedInOrder
  <1> HIDE DEF p, o, c
  <1>5. DOMAIN p = 1 .. c /\ Len(p) = c
    BY <1>3, <1>4
  <1>6. \A n \in 1 .. c : p[n] = s[o[n]]
    BY <1>3
  <1>7. \A n \in 1 .. c : \E i \in I : p[n] = s[i]
    BY <1>4, <1>6
  <1>8. \A i \in I : \E n \in 1 .. c : p[n] = s[i]
    BY <1>4, <1>6
  <1> QED
    BY <1>4, <1>5, <1>7, <1>8 DEF p, c

-----------------------------------------------------------------------------
(***************************************************************************)
(* The engine's batches.                                                   *)
(***************************************************************************)

Written(e, op) == IF op.del THEN del(e, op.key) ELSE set(e, op.key, op.value)

\* The engine after each of the first n writes of a batch.
Applied(e, ops, n, after) ==
  after = [i \in 0 .. n |-> IF i = 0 THEN e ELSE Written(after[i - 1], ops[i])]

\* These states exist, whatever the batch.
LEMMA AppliedExist ==
  ASSUME NEW e, NEW ops, NEW n \in Nat
  PROVE  \E after : Applied(e, ops, n, after)
  <1> DEFINE P == {k \in Nat : \E after : Applied(e, ops, k, after)}
  <1>1. 0 \in P
    <2> DEFINE after == [i \in 0 .. 0 |-> e]
    <2>1. Applied(e, ops, 0, after)
      BY DEF Applied
    <2> QED
      BY <2>1
  <1>2. ASSUME NEW k \in Nat, k \in P PROVE k + 1 \in P
    <2>1. PICK after : Applied(e, ops, k, after)
      BY <1>2
    <2> DEFINE longer == [i \in 0 .. k + 1 |-> IF i <= k THEN after[i] ELSE Written(after[k], ops[k + 1])]
    <2>2. longer = [i \in 0 .. k + 1 |-> longer[i]]
      OBVIOUS
    <2>3. ASSUME NEW i \in 0 .. k + 1
          PROVE  longer[i] = IF i = 0 THEN e ELSE Written(longer[i - 1], ops[i])
      <3>1. CASE i <= k
        <4>1. i \in 0 .. k /\ longer[i] = after[i] /\ (i # 0 => longer[i - 1] = after[i - 1])
          BY <3>1
        <4>2. after[i] = IF i = 0 THEN e ELSE Written(after[i - 1], ops[i])
          BY <2>1, <4>1 DEF Applied
        <4> QED
          BY <4>1, <4>2
      <3>2. CASE i = k + 1
        BY <3>2
      <3> QED
        BY <3>1, <3>2
    <2> HIDE DEF longer
    <2>4. Applied(e, ops, k + 1, longer)
      BY <2>2, <2>3 DEF Applied
    <2> QED
      BY <2>4
  <1>3. Nat \subseteq P
    <2> HIDE DEF P
    <2>1. P \in SUBSET Nat
      BY DEF P
    <2> QED
      BY <1>1, <1>2, <2>1, NumberInduction
  <1> QED
    BY <1>3

\* Apply does the writes of its batch one after the other.
LEMMA ApplyRounds ==
  ASSUME NEW e, NEW ops, Len(ops) \in Nat
  PROVE  \E after : /\ after[0] = e
                    /\ \A i \in 1 .. Len(ops) : after[i] = Written(after[i - 1], ops[i])
                    /\ Apply(e, ops) = after[Len(ops)]
  <1> DEFINE n == Len(ops)
             after == CHOOSE after : Applied(e, ops, n, after)
  <1>1. Applied(e, ops, n, after)
    <2>1. \E f : Applied(e, ops, n, f)
      BY AppliedExist
    <2> QED
      BY <2>1
  <1>2. Apply(e, ops) = after[n]
    BY DEF Apply, Applied, Written
  <1> HIDE DEF after
  <1>3. after[0] = e
    BY <1>1 DEF Applied
  <1>4. \A i \in 1 .. n : after[i] = Written(after[i - 1], ops[i])
    BY <1>1 DEF Applied
  <1> QED
    BY <1>2, <1>3, <1>4

\* A batch of two writes makes both.
LEMMA ApplyLink ==
  ASSUME NEW e, NEW k, NEW l, NEW v
  PROVE  Apply(e, <<OpSet(k, v), OpSet(l, v)>>) = set(set(e, k, v), l, v)
  <1> DEFINE ops == <<OpSet(k, v), OpSet(l, v)>>
  <1>1. Len(ops) = 2 /\ ops[1] = OpSet(k, v) /\ ops[2] = OpSet(l, v)
    OBVIOUS
  <1> HIDE DEF ops
  <1>2. PICK after : /\ after[0] = e
                     /\ \A i \in 1 .. Len(ops) : after[i] = Written(after[i - 1], ops[i])
                     /\ Apply(e, ops) = after[Len(ops)]
    BY <1>1, ApplyRounds
  <1>3. after[1] = Written(e, OpSet(k, v)) /\ after[2] = Written(after[1], OpSet(l, v))
    BY <1>1, <1>2
  <1>4. \A d, x : Written(d, OpSet(x, v)) = set(d, x, v)
    BY DEF Written, OpSet
  <1> QED
    BY <1>1, <1>2, <1>3, <1>4 DEF ops

\* A batch of deletions takes its keys out and leaves the rest alone.
LEMMA ApplyDeletes ==
  ASSUME NEW e, NEW ops, Len(ops) \in Nat, \A i \in 1 .. Len(ops) : \E k : ops[i] = OpDelete(k)
  PROVE  /\ DOMAIN Apply(e, ops) = DOMAIN e \ {ops[i].key : i \in 1 .. Len(ops)}
         /\ \A k \in DOMAIN Apply(e, ops) : Apply(e, ops)[k] = e[k]
  <1> DEFINE n == Len(ops)
             gone(i) == {ops[j].key : j \in 1 .. i}
  <1>1. PICK after : /\ after[0] = e
                     /\ \A i \in 1 .. n : after[i] = Written(after[i - 1], ops[i])
                     /\ Apply(e, ops) = after[n]
    BY ApplyRounds
  <1> DEFINE P == {i \in Nat : i <= n => /\ DOMAIN after[i] = DOMAIN e \ gone(i)
                                         /\ \A k \in DOMAIN after[i] : after[i][k] = e[k]}
  <1>2. 0 \in P
    BY <1>1
  <1>3. ASSUME NEW i \in Nat, i \in P PROVE i + 1 \in P
    <2> SUFFICES ASSUME i + 1 <= n
                 PROVE  /\ DOMAIN after[i + 1] = DOMAIN e \ gone(i + 1)
                        /\ \A k \in DOMAIN after[i + 1] : after[i + 1][k] = e[k]
      OBVIOUS
    <2>1. i + 1 \in 1 .. n /\ i <= n /\ (i + 1) - 1 = i
      OBVIOUS
    <2>2. PICK key : ops[i + 1] = OpDelete(key)
      BY <2>1
    <2>3. ops[i + 1].key = key /\ ops[i + 1].del
      BY <2>2 DEF OpDelete
    <2>4. after[i + 1] = del(after[i], key)
      BY <1>1, <2>1, <2>3 DEF Written
    <2>5. DOMAIN after[i] = DOMAIN e \ gone(i) /\ \A k \in DOMAIN after[i] : after[i][k] = e[k]
      BY <1>3, <2>1
    <2>6. DOMAIN after[i + 1] = DOMAIN after[i] \ {key} /\ \A k \in DOMAIN after[i + 1] : after[i + 1][k] = after[i][k]
      BY <2>4 DEF del
    <2>7. gone(i + 1) = gone(i) \cup {key}
      <3>1. 1 .. i + 1 = 1 .. i \cup {i + 1}
        OBVIOUS
      <3> QED
        BY <2>3, <3>1
    <2> HIDE DEF gone
    <2> QED
      BY <2>5, <2>6, <2>7
  <1>4. n \in P
    <2> HIDE DEF P
    <2>1. P \in SUBSET Nat
      BY DEF P
    <2> QED
      BY <1>2, <1>3, <2>1, NumberInduction
  <1> QED
    BY <1>1, <1>4

-----------------------------------------------------------------------------
(***************************************************************************)
(* Retention.                                                              *)
(***************************************************************************)

\* A set of numbers of which some go.  If each that goes has n larger ones in the set,
\* then a number below n of the set still has n above it.
LEMMA NewerSurvive ==
  ASSUME NEW V \in SUBSET Nat, IsFiniteSet(V), NEW D, NEW n \in Nat, NEW t \in Nat,
         \A d \in D : Cardinality({u \in V : u > d}) >= n,
         Cardinality({u \in V : u > t}) >= n
  PROVE  Cardinality({u \in V \ D : u > t}) >= n
  <1> DEFINE N == {u \in V : u > t}
             R == {w \in Nat \X Nat : w[1] > w[2]}
             H == {u \in N : RankOf(R, N, u) < n}
             rest == {u \in V \ D : u > t}
             A == 0 .. n - 1
             h == [u \in H |-> RankOf(R, N, u)]
  <1>1. N \in SUBSET V /\ rest \in SUBSET V /\ N \in SUBSET Nat
    OBVIOUS
  <1>2. IsFiniteSet(N) /\ IsFiniteSet(rest) /\ Cardinality(rest) \in Nat /\ Cardinality(N) \in Nat
    BY <1>1, FS_Subset, FS_CardinalityType
  <1>3. Orders(R, N)
    BY <1>1 DEF Orders
  <1>4. \A u \in N : RankOf(R, N, u) = Cardinality({v \in V : v > u})
    <2> SUFFICES ASSUME NEW u \in N PROVE Below(R, N, u) = {v \in V : v > u}
      BY DEF RankOf
    <2>1. u \in Nat /\ u > t
      BY <1>1
    <2>2. \A v \in V : v \in Nat /\ (v > u => v > t)
      BY <2>1
    <2>3. \A v \in Nat : <<v, u>> \in R <=> v > u
      BY <2>1
    <2> HIDE DEF R
    <2> QED
      BY <2>2, <2>3 DEF Below
  <1>5. \A u \in N : RankOf(R, N, u) \in Nat
    BY <1>2, <1>3, RankGrows
  <1>6. H \in SUBSET rest
    <2> SUFFICES ASSUME NEW u \in H, u \in D PROVE FALSE
      BY <1>1
    <2>1. RankOf(R, N, u) >= n /\ RankOf(R, N, u) < n /\ RankOf(R, N, u) \in Nat
      BY <1>4, <1>5
    <2> QED
      BY <2>1
  <1>7. ASSUME NEW a \in A PROVE \E u \in H : h[u] = a
    <2>1. a \in 0 .. Cardinality(N) - 1
      BY <1>2
    <2>2. PICK u \in N : RankOf(R, N, u) = a
      <3> HIDE DEF N, R
      <3> QED
        BY <1>2, <1>3, <2>1, RankTaken
    <2>3. u \in H
      BY <2>2
    <2> HIDE DEF H
    <2> QED
      BY <2>2, <2>3
  <1>8. h \in Surjection(H, A)
    <2>1. \A u \in H : h[u] \in A
      BY <1>5
    <2> QED
      BY <1>7, <2>1 DEF Surjection
  <1>9. IsFiniteSet(H) /\ Cardinality(H) <= Cardinality(rest)
    BY <1>2, <1>6, FS_Subset
  <1>10. Cardinality(A) = n
    <2>1. 0 \in Int /\ n - 1 \in Int
      OBVIOUS
    <2>2. Cardinality(A) = IF 0 > n - 1 THEN 0 ELSE (n - 1) - 0 + 1
      BY <2>1, FS_Interval
    <2> QED
      BY <2>2
  <1> HIDE DEF h, H, A, rest
  <1>11. Cardinality(A) <= Cardinality(H) /\ Cardinality(H) \in Nat
    BY <1>8, <1>9, FS_Surjection, FS_CardinalityType
  <1>12. Cardinality(rest) >= n
    BY <1>2, <1>9, <1>10, <1>11
  <1> QED
    BY <1>12 DEF rest

-----------------------------------------------------------------------------
(***************************************************************************)
(* What the engine holds.                                                  *)
(***************************************************************************)

\* The keys are those of versions and edges, and an edge is there in both directions,
\* under the same anchor.
EngineOK(e) ==
  /\ IsFiniteSet(DOMAIN e) /\ DOMAIN e \subseteq KeySpace
  /\ \A a, b \in Nodes :
       /\ forwardKey(a, b) \in DOMAIN e <=> backKey(b, a) \in DOMAIN e
       /\ forwardKey(a, b) \in DOMAIN e => e[forwardKey(a, b)] = e[backKey(b, a)]

Keep == IF KeepN = 0 THEN 1 ELSE KeepN

Newer(e, r, f, q, t) == {u \in Times : u > t /\ cellKey(r, f, q, u) \in DOMAIN e}

\* A collector's deletion takes a version that has enough newer ones, now.
Outlived(op, e) ==
  \E r \in Rows, f \in Families, q \in Quals, t \in Times :
    op = OpDelete(cellKey(r, f, q, t)) /\ Cardinality(Newer(e, r, f, q, t)) >= Keep

\* The inductive invariant of the storage package.
StorageInv ==
  /\ EngineOK(entries)
  /\ snap # NoSnap => EngineOK(snap[1])
  /\ DOMAIN doomed = Collectors
  /\ \A g \in Collectors :
       /\ Len(doomed[g]) \in Nat /\ DOMAIN doomed[g] = 1 .. Len(doomed[g])
       /\ \A i \in 1 .. Len(doomed[g]) : Outlived(doomed[g][i], entries)

\* There are finitely many versions of a cell.
LEMMA TimesFinite ==
  /\ Times \in SUBSET Nat /\ IsFiniteSet(Times) /\ \A t \in Times : t <= 127
  /\ \A A \in SUBSET Times : IsFiniteSet(A) /\ Cardinality(A) \in Nat
  <1>1. Times \in SUBSET Nat /\ \A t \in Times : t <= 127
    BY KeyParts
  <1>2. IsFiniteSet(Times)
    <2>1. 127 \in Nat
      OBVIOUS
    <2> QED
      BY <1>1, <2>1, FS_BoundedSetOfNaturals
  <1>3. \A A \in SUBSET Times : IsFiniteSet(A) /\ Cardinality(A) \in Nat
    BY <1>2, FS_Subset, FS_CardinalityType
  <1> QED
    BY <1>1, <1>2, <1>3

\* The list s holds the keys of K, in order.
ListOf(s, K) ==
  /\ Cardinality(K) \in Nat /\ DOMAIN s = 1 .. Cardinality(K) /\ Len(s) = Cardinality(K)
  /\ \A i \in 1 .. Cardinality(K) : s[i] \in K
  /\ \A i, j \in 1 .. Cardinality(K) : i < j <=> Less(s[i], s[j])
  /\ \A i, j \in 1 .. Cardinality(K) : s[i] = s[j] => i = j
  /\ \A k \in K : \E i \in 1 .. Cardinality(K) : s[i] = k

Under(e, p) == {k \in DOMAIN e : StartsWith(k, p)}

\* The prefixes the readers scan.
Scanned(p) ==
  \/ \E r \in Rows, f \in Families : p = rowFamilyPrefix(r, f)
  \/ \E r \in Rows, f \in Families, q \in Quals : p = cellKeyQualPrefix(r, f, q)
  \/ \E tag \in {TagF, TagB}, a \in Nodes : p = EdgePrefix(tag, a)

\* A prefix scan lists the keys that begin with the prefix, in order.
LEMMA ScanListed ==
  ASSUME NEW e, EngineOK(e), NEW p \in Bytes, Scanned(p)
  PROVE  /\ Under(e, p) \in SUBSET KeySpace /\ Under(e, p) \in SUBSET DOMAIN e /\ IsFiniteSet(Under(e, p))
         /\ ListOf(ScanPrefix(e, p), Under(e, p))
  <1> DEFINE K == {k \in DOMAIN e : StartsWith(k, p)}
  <1>1. IsFiniteSet(DOMAIN e) /\ DOMAIN e \in SUBSET KeySpace
    BY DEF EngineOK
  <1>2. ScanPrefix(e, p) = inOrder(K)
    <2>1. {k \in DOMAIN e : ~Less(k, p) /\ (PrefixEnd(p) = <<>> \/ Less(k, PrefixEnd(p)))} = K
      BY <1>1, ScanSet DEF Scanned
    <2> QED
      BY <2>1 DEF ScanPrefix, Scan
  <1>3. K \in SUBSET DOMAIN e /\ K \in SUBSET KeySpace /\ K \in SUBSET Bytes
    BY <1>1, KeyKinds
  <1>4. IsFiniteSet(K)
    BY <1>1, <1>3, FS_Subset
  <1> HIDE DEF K
  <1>5. ListOf(inOrder(K), K)
    BY <1>3, <1>4, KeysInOrder DEF ListOf
  <1>6. K = Under(e, p)
    BY DEF K, Under
  <1> QED
    BY <1>2, <1>3, <1>4, <1>5, <1>6

\* The run of one qualifier that ends at place i.
Run(all, i) == {j \in 1 .. i : \A m \in j .. i : all[m].qual = all[i].qual}

\* The versions of a row's family as the loops of ScanFamily and GCVersions meet them.
FamilyList(e, r, f, all, n) ==
  /\ n \in Nat /\ DOMAIN all = 1 .. n /\ Len(all) = n
  /\ \A i \in 1 .. n : \E q \in Quals, t \in Times :
       all[i].key = cellKey(r, f, q, t) /\ all[i].qual = q /\ all[i].key \in DOMAIN e
  /\ \A i, j \in 1 .. n : i < j <=> Less(all[i].key, all[j].key)
  /\ \A i, j \in 1 .. n : all[i].key = all[j].key => i = j
  /\ \A q \in Quals, t \in Times :
       cellKey(r, f, q, t) \in DOMAIN e => \E i \in 1 .. n : all[i].key = cellKey(r, f, q, t)
  /\ \A i \in 1 .. n : all[i].seen = Cardinality(Run(all, i))

\* What the loops meet.
LEMMA FamilyListed ==
  ASSUME NEW e, EngineOK(e), NEW r \in Rows, NEW f \in Families
  PROVE  \E n : FamilyList(e, r, f, ranked(e, r, f), n)
  <1> DEFINE p == rowFamilyPrefix(r, f)
             K == Under(e, p)
             s == ScanPrefix(e, p)
             n == Cardinality(K)
             qual(i) == decodeQualifier(s[i], r)
             run(i) == {j \in 1 .. i : \A m \in j .. i : qual(m) = qual(i)}
             all == ranked(e, r, f)
  <1>0. p \in Bytes /\ Scanned(p)
    BY KeyParts, RowForm DEF Scanned
  <1>1a. K \in SUBSET KeySpace /\ ListOf(s, K)
    <2> HIDE DEF p
    <2> QED
      BY <1>0, ScanListed
  <1>1. /\ K \in SUBSET KeySpace
        /\ n \in Nat /\ DOMAIN s = 1 .. n /\ Len(s) = n
        /\ \A i \in 1 .. n : s[i] \in K
        /\ \A i, j \in 1 .. n : i < j <=> Less(s[i], s[j])
        /\ \A i, j \in 1 .. n : s[i] = s[j] => i = j
        /\ \A k \in K : \E i \in 1 .. n : s[i] = k
    <2> HIDE DEF K, s
    <2> QED
      BY <1>1a DEF ListOf, n
  <1>2. all = [i \in DOMAIN s |-> [key |-> s[i], qual |-> qual(i), seen |-> Cardinality(run(i))]]
    BY DEF ranked
  <1>3. \A k \in K : \E q \in Quals, t \in Times : k = cellKey(r, f, q, t)
    BY <1>1, RowScan DEF Under
  <1>4. \A q \in Quals, t \in Times : cellKey(r, f, q, t) \in DOMAIN e => cellKey(r, f, q, t) \in K
    BY RowScan, KeyKinds DEF Under
  <1>5. K \subseteq DOMAIN e
    BY DEF Under
  <1> HIDE DEF all, s, n, K
  <1>6. DOMAIN all = 1 .. n /\ Len(all) = n
    <2> HIDE DEF run, qual
    <2> QED
      BY <1>1, <1>2
  <1>7. \A i \in 1 .. n : all[i].key = s[i] /\ all[i].qual = qual(i) /\ all[i].seen = Cardinality(run(i))
    <2> HIDE DEF run, qual
    <2> QED
      BY <1>1, <1>2
  <1>8. ASSUME NEW i \in 1 .. n
        PROVE  \E q \in Quals, t \in Times :
                 all[i].key = cellKey(r, f, q, t) /\ all[i].qual = q /\ all[i].key \in DOMAIN e
    <2>1. PICK q \in Quals, t \in Times : s[i] = cellKey(r, f, q, t)
      BY <1>1, <1>3
    <2>2. qual(i) = q
      BY <2>1, KeysDecode
    <2>3. s[i] \in DOMAIN e
      BY <1>1, <1>5
    <2> HIDE DEF qual
    <2> QED
      BY <1>7, <2>1, <2>2, <2>3
  <1> HIDE DEF qual
  <1>9. ASSUME NEW i \in 1 .. n PROVE run(i) = Run(all, i)
    <2>1. \A j \in 1 .. i : \A m \in j .. i : m \in 1 .. n
      BY <1>1
    <2>2. \A m \in 1 .. n : all[m].qual = qual(m)
      BY <1>7
    <2> QED
      BY <2>1, <2>2 DEF Run
  <1> HIDE DEF run
  <1>10. \A i, j \in 1 .. n : i < j <=> Less(all[i].key, all[j].key)
    BY <1>1, <1>7
  <1>11. \A i, j \in 1 .. n : all[i].key = all[j].key => i = j
    BY <1>1, <1>7
  <1>12. \A q \in Quals, t \in Times :
           cellKey(r, f, q, t) \in DOMAIN e => \E i \in 1 .. n : all[i].key = cellKey(r, f, q, t)
    BY <1>1, <1>4, <1>7
  <1>13. \A i \in 1 .. n : all[i].seen = Cardinality(Run(all, i))
    BY <1>7, <1>9
  <1>14. FamilyList(e, r, f, all, n)
    BY <1>1, <1>6, <1>8, <1>10, <1>11, <1>12, <1>13 DEF FamilyList
  <1> QED
    BY <1>14 DEF all

\* A version behind so many of its qualifier has that many newer ones.
LEMMA SeenMeansNewer ==
  ASSUME NEW e, NEW r \in Rows, NEW f \in Families, NEW all, NEW n, FamilyList(e, r, f, all, n),
         NEW i \in 1 .. n, NEW q \in Quals, NEW t \in Times, all[i].key = cellKey(r, f, q, t)
  PROVE  /\ all[i].seen \in Nat \ {0}
         /\ Cardinality(Newer(e, r, f, q, t)) >= all[i].seen - 1
  <1> DEFINE A == Run(all, i) \ {i}
             N == Newer(e, r, f, q, t)
             ts(j) == CHOOSE u \in Times : all[j].key = cellKey(r, f, q, u)
             h == [j \in A |-> ts(j)]
  <1>0. n \in Nat /\ i \in Nat /\ i <= n /\ i \in Int
    BY DEF FamilyList
  <1>1. all[i].qual = q
    BY CellKeyIsInjective DEF FamilyList
  <1>2. ASSUME NEW j \in A PROVE j \in 1 .. n /\ j < i /\ ts(j) \in Times /\ all[j].key = cellKey(r, f, q, ts(j)) /\ ts(j) \in N
    <2>1. j \in 1 .. i /\ j # i /\ \A m \in j .. i : all[m].qual = all[i].qual
      BY DEF Run
    <2>2. j \in 1 .. n /\ j < i /\ j \in j .. i
      BY <1>0, <2>1
    <2>3. all[j].qual = q
      BY <1>1, <2>1, <2>2
    <2>4. PICK u \in Times : all[j].key = cellKey(r, f, q, u) /\ all[j].key \in DOMAIN e
      BY <2>2, <2>3 DEF FamilyList
    <2>5. ts(j) \in Times /\ all[j].key = cellKey(r, f, q, ts(j))
      BY <2>4
    <2> HIDE DEF ts
    <2>6. Less(cellKey(r, f, q, ts(j)), cellKey(r, f, q, t))
      BY <2>2, <2>5 DEF FamilyList
    <2>7. ts(j) > t
      BY <2>5, <2>6, NewestFirst
    <2> QED
      BY <2>2, <2>4, <2>5, <2>7 DEF Newer
  <1> HIDE DEF ts
  <1>3. \A j, k \in A : ts(j) = ts(k) => j = k
    BY <1>2 DEF FamilyList
  <1>4. h \in Injection(A, N)
    <2>1. \A j \in A : ts(j) \in N
      BY <1>2
    <2> QED
      BY <1>3, <2>1 DEF Injection, IsInjective
  <1>5. IsFiniteSet(N) /\ Cardinality(N) \in Nat
    BY TimesFinite DEF Newer
  <1>6. IsFiniteSet(Run(all, i)) /\ Cardinality(Run(all, i)) \in Nat /\ i \in Run(all, i)
    <2>1. 1 \in Int /\ i \in Int
      BY <1>0
    <2>2. IsFiniteSet(1 .. i)
      BY <2>1, FS_Interval
    <2>3. Run(all, i) \in SUBSET (1 .. i)
      BY DEF Run
    <2>4. i \in Run(all, i)
      BY <1>0 DEF Run
    <2> QED
      BY <2>2, <2>3, <2>4, FS_Subset, FS_CardinalityType
  <1>7. Cardinality(A) = Cardinality(Run(all, i)) - 1 /\ IsFiniteSet(A)
    BY <1>6, FS_RemoveElement
  <1>8. Cardinality(A) \in Nat
    BY <1>7, FS_CardinalityType
  <1> HIDE DEF h, A, N
  <1>9. Cardinality(A) <= Cardinality(N)
    BY <1>4, <1>5, FS_Injection
  <1>10. all[i].seen = Cardinality(Run(all, i))
    BY DEF FamilyList
  <1> QED
    BY <1>5, <1>6, <1>7, <1>8, <1>9, <1>10 DEF N

\* A Put keeps the edges as they are, and a version only gets newer ones.
LEMMA PutEngine ==
  ASSUME NEW e, EngineOK(e), NEW r \in Rows, NEW f \in Families, NEW q \in Quals, NEW t \in Times, NEW v
  PROVE  /\ EngineOK(set(e, cellKey(r, f, q, t), v))
         /\ \A r2 \in Rows, f2 \in Families, q2 \in Quals, t2 \in Times :
              Newer(e, r2, f2, q2, t2) \in SUBSET Newer(set(e, cellKey(r, f, q, t), v), r2, f2, q2, t2)
  <1> DEFINE k == cellKey(r, f, q, t)
             d == set(e, k, v)
  <1>1. k \in KeySpace
    BY KeyKinds
  <1>2. \A tag \in {TagF, TagB}, a \in Nodes, b \in Nodes : EdgeKey(tag, a, b) # k
    BY CellIsNoEdge
  <1>3. \A a, b \in Nodes : forwardKey(a, b) # k /\ backKey(b, a) # k
    BY <1>2, KeyKinds
  <1> HIDE DEF k
  <1>4. DOMAIN d = DOMAIN e \cup {k} /\ \A l \in DOMAIN e : l # k => d[l] = e[l]
    BY DEF set, d
  <1> HIDE DEF d
  <1>5. IsFiniteSet(DOMAIN d)
    BY <1>4, FS_AddElement DEF EngineOK
  <1>6. DOMAIN d \subseteq KeySpace
    BY <1>1, <1>4 DEF EngineOK
  <1>7. ASSUME NEW a \in Nodes, NEW b \in Nodes
        PROVE  /\ forwardKey(a, b) \in DOMAIN d <=> backKey(b, a) \in DOMAIN d
               /\ forwardKey(a, b) \in DOMAIN d => d[forwardKey(a, b)] = d[backKey(b, a)]
    BY <1>3, <1>4 DEF EngineOK
  <1>8. EngineOK(d)
    BY <1>5, <1>6, <1>7 DEF EngineOK
  <1>9. \A r2 \in Rows, f2 \in Families, q2 \in Quals, t2 \in Times :
          Newer(e, r2, f2, q2, t2) \in SUBSET Newer(d, r2, f2, q2, t2)
    BY <1>4 DEF Newer
  <1> QED
    BY <1>8, <1>9 DEF d, k

Linked(e, a, b, v) == Apply(e, <<OpSet(forwardKey(a, b), v), OpSet(backKey(b, a), v)>>)

\* AddLink writes both directions, and touches no version.
LEMMA LinkEngine ==
  ASSUME NEW e, EngineOK(e), NEW a \in Nodes, NEW b \in Nodes, NEW v
  PROVE  /\ EngineOK(Linked(e, a, b, v))
         /\ DOMAIN Linked(e, a, b, v) = DOMAIN e \cup {forwardKey(a, b), backKey(b, a)}
         /\ Linked(e, a, b, v)[forwardKey(a, b)] = v
         /\ \A k \in DOMAIN e : k # forwardKey(a, b) /\ k # backKey(b, a) => Linked(e, a, b, v)[k] = e[k]
         /\ \A r \in Rows, f \in Families, q \in Quals, t \in Times :
              cellKey(r, f, q, t) # forwardKey(a, b) /\ cellKey(r, f, q, t) # backKey(b, a)
  <1> DEFINE fk == forwardKey(a, b)
             bk == backKey(b, a)
             c == set(e, fk, v)
             d == set(c, bk, v)
  <1>1. Linked(e, a, b, v) = d
    BY ApplyLink DEF Linked
  <1>2. /\ fk \in KeySpace /\ bk \in KeySpace /\ fk # bk
        /\ \A x, y \in Nodes : (forwardKey(x, y) = fk <=> x = a /\ y = b) /\ (backKey(y, x) = bk <=> x = a /\ y = b)
        /\ \A x, y \in Nodes : forwardKey(x, y) # bk /\ backKey(y, x) # fk
        /\ \A r \in Rows, f \in Families, q \in Quals, t \in Times : cellKey(r, f, q, t) # fk /\ cellKey(r, f, q, t) # bk
    <2>1. fk = EdgeKey(TagF, a, b) /\ bk = EdgeKey(TagB, b, a) /\ fk \in KeySpace /\ bk \in KeySpace
      BY KeyKinds
    <2>2. \A x, y \in Nodes : forwardKey(x, y) = EdgeKey(TagF, x, y) /\ backKey(y, x) = EdgeKey(TagB, y, x)
      BY KeyKinds
    <2>3. TagF # TagB
      BY KeyParts
    <2>4. \A r \in Rows, f \in Families, q \in Quals, t \in Times : cellKey(r, f, q, t) # fk /\ cellKey(r, f, q, t) # bk
      BY <2>1, CellIsNoEdge
    <2> HIDE DEF fk, bk
    <2>5. \A x, y \in Nodes : EdgeKey(TagF, x, y) = fk => x = a /\ y = b
      BY <2>1, EdgeKeyIsInjective
    <2>6. \A x, y \in Nodes : EdgeKey(TagB, y, x) = bk => x = a /\ y = b
      BY <2>1, EdgeKeyIsInjective
    <2>7. \A x, y \in Nodes : EdgeKey(TagF, x, y) # bk /\ EdgeKey(TagB, y, x) # fk
      BY <2>1, <2>3, EdgeKeyIsInjective
    <2> QED
      BY <2>1, <2>2, <2>4, <2>5, <2>6, <2>7
  <1> HIDE DEF fk, bk
  <1>3. DOMAIN c = DOMAIN e \cup {fk} /\ c[fk] = v /\ \A l \in DOMAIN e : l # fk => c[l] = e[l]
    BY DEF set, c
  <1> HIDE DEF c
  <1>4. DOMAIN d = DOMAIN c \cup {bk} /\ d[bk] = v /\ \A l \in DOMAIN c : l # bk => d[l] = c[l]
    BY DEF set, d
  <1> HIDE DEF d
  <1>5. /\ DOMAIN d = DOMAIN e \cup {fk, bk} /\ d[fk] = v /\ d[bk] = v
        /\ \A k \in DOMAIN e : k # fk /\ k # bk => d[k] = e[k]
    BY <1>2, <1>3, <1>4
  <1>6. IsFiniteSet(DOMAIN d)
    <2>1. IsFiniteSet(DOMAIN c)
      BY <1>3, FS_AddElement DEF EngineOK
    <2> QED
      BY <1>4, <2>1, FS_AddElement
  <1>7. DOMAIN d \subseteq KeySpace
    BY <1>2, <1>5 DEF EngineOK
  <1>8. ASSUME NEW x \in Nodes, NEW y \in Nodes
        PROVE  /\ forwardKey(x, y) \in DOMAIN d <=> backKey(y, x) \in DOMAIN d
               /\ forwardKey(x, y) \in DOMAIN d => d[forwardKey(x, y)] = d[backKey(y, x)]
    <2>1. CASE x = a /\ y = b
      BY <1>2, <1>5, <2>1
    <2>2. CASE ~(x = a /\ y = b)
      <3>1. forwardKey(x, y) # fk /\ forwardKey(x, y) # bk /\ backKey(y, x) # fk /\ backKey(y, x) # bk
        BY <1>2, <2>2
      <3>2. /\ forwardKey(x, y) \in DOMAIN e <=> backKey(y, x) \in DOMAIN e
            /\ forwardKey(x, y) \in DOMAIN e => e[forwardKey(x, y)] = e[backKey(y, x)]
        BY DEF EngineOK
      <3> QED
        BY <1>5, <3>1, <3>2
    <2> QED
      BY <2>1, <2>2
  <1>9. EngineOK(d)
    BY <1>6, <1>7, <1>8 DEF EngineOK
  <1> QED
    BY <1>1, <1>2, <1>5, <1>9 DEF fk, bk

\* No version comes or goes with a link.
LEMMA LinkNewer ==
  ASSUME NEW e, EngineOK(e), NEW a \in Nodes, NEW b \in Nodes, NEW v,
         NEW r \in Rows, NEW f \in Families, NEW q \in Quals, NEW t \in Times
  PROVE  Newer(Linked(e, a, b, v), r, f, q, t) = Newer(e, r, f, q, t)
  <1>1. DOMAIN Linked(e, a, b, v) = DOMAIN e \cup {forwardKey(a, b), backKey(b, a)}
    BY LinkEngine
  <1>2. \A u \in Times : cellKey(r, f, q, u) # forwardKey(a, b) /\ cellKey(r, f, q, u) # backKey(b, a)
    BY LinkEngine
  <1> QED
    BY <1>1, <1>2 DEF Newer

\* The batch of a collector takes versions only, and every version with enough newer
\* ones keeps enough of them.
LEMMA CollectEngine ==
  ASSUME NEW e, EngineOK(e), NEW ops, Len(ops) \in Nat, \A i \in 1 .. Len(ops) : Outlived(ops[i], e)
  PROVE  LET d == Apply(e, ops)
         IN  /\ EngineOK(d) /\ DOMAIN d \subseteq DOMAIN e /\ \A k \in DOMAIN d : d[k] = e[k]
             /\ \A x, y \in Nodes : forwardKey(x, y) \in DOMAIN e => forwardKey(x, y) \in DOMAIN d
             /\ \A r \in Rows, f \in Families, q \in Quals, t \in Times :
                  /\ Cardinality(Newer(e, r, f, q, t)) >= Keep => Cardinality(Newer(d, r, f, q, t)) >= Keep
                  /\ cellKey(r, f, q, t) \in DOMAIN e \ DOMAIN d => Cardinality(Newer(e, r, f, q, t)) >= Keep
  <1> DEFINE d == Apply(e, ops)
             gone == {ops[i].key : i \in 1 .. Len(ops)}
  <1>1. ASSUME NEW i \in 1 .. Len(ops)
        PROVE  \E r \in Rows, f \in Families, q \in Quals, t \in Times :
                 /\ ops[i] = OpDelete(cellKey(r, f, q, t)) /\ ops[i].key = cellKey(r, f, q, t)
                 /\ Cardinality(Newer(e, r, f, q, t)) >= Keep
    BY DEF Outlived, OpDelete
  <1>2. DOMAIN d = DOMAIN e \ gone /\ \A k \in DOMAIN d : d[k] = e[k]
    <2>1. \A i \in 1 .. Len(ops) : \E k : ops[i] = OpDelete(k)
      BY <1>1
    <2> QED
      BY <2>1, ApplyDeletes
  <1>3. \A k \in gone : \E r \in Rows, f \in Families, q \in Quals, t \in Times :
                          k = cellKey(r, f, q, t) /\ Cardinality(Newer(e, r, f, q, t)) >= Keep
    BY <1>1
  <1> HIDE DEF d, gone
  <1>4. \A x, y \in Nodes : forwardKey(x, y) \notin gone /\ backKey(y, x) \notin gone
    <2> SUFFICES ASSUME NEW x \in Nodes, NEW y \in Nodes, NEW k \in gone
                 PROVE  forwardKey(x, y) # k /\ backKey(y, x) # k
      OBVIOUS
    <2>1. PICK r \in Rows, f \in Families, q \in Quals, t \in Times : k = cellKey(r, f, q, t)
      BY <1>3
    <2>2. cellKey(r, f, q, t) # EdgeKey(TagF, x, y) /\ cellKey(r, f, q, t) # EdgeKey(TagB, y, x)
      BY CellIsNoEdge
    <2> QED
      BY <2>1, <2>2, KeyKinds
  <1>5. \A r \in Rows, f \in Families, q \in Quals, t \in Times :
          cellKey(r, f, q, t) \in gone => Cardinality(Newer(e, r, f, q, t)) >= Keep
    <2> SUFFICES ASSUME NEW r \in Rows, NEW f \in Families, NEW q \in Quals, NEW t \in Times,
                        cellKey(r, f, q, t) \in gone
                 PROVE  Cardinality(Newer(e, r, f, q, t)) >= Keep
      OBVIOUS
    <2>1. PICK r2 \in Rows, f2 \in Families, q2 \in Quals, t2 \in Times :
            cellKey(r, f, q, t) = cellKey(r2, f2, q2, t2) /\ Cardinality(Newer(e, r2, f2, q2, t2)) >= Keep
      BY <1>3
    <2>2. r = r2 /\ f = f2 /\ q = q2 /\ t = t2
      BY <2>1, CellKeyIsInjective
    <2> QED
      BY <2>1, <2>2
  <1>6. EngineOK(d)
    <2>1. IsFiniteSet(DOMAIN d)
      <3>1. DOMAIN d \in SUBSET DOMAIN e /\ IsFiniteSet(DOMAIN e)
        BY <1>2 DEF EngineOK
      <3> QED
        BY <3>1, FS_Subset
    <2>2. DOMAIN d \subseteq KeySpace
      BY <1>2 DEF EngineOK
    <2>3. ASSUME NEW x \in Nodes, NEW y \in Nodes
          PROVE  /\ forwardKey(x, y) \in DOMAIN d <=> backKey(y, x) \in DOMAIN d
                 /\ forwardKey(x, y) \in DOMAIN d => d[forwardKey(x, y)] = d[backKey(y, x)]
      <3>1. /\ forwardKey(x, y) \in DOMAIN e <=> backKey(y, x) \in DOMAIN e
            /\ forwardKey(x, y) \in DOMAIN e => e[forwardKey(x, y)] = e[backKey(y, x)]
        BY DEF EngineOK
      <3> QED
        BY <1>2, <1>4, <3>1
    <2> QED
      BY <2>1, <2>2, <2>3 DEF EngineOK
  <1>7. Keep \in Nat
    BY StorageAssumption DEF Keep
  <1>8. ASSUME NEW r \in Rows, NEW f \in Families, NEW q \in Quals, NEW t \in Times,
               Cardinality(Newer(e, r, f, q, t)) >= Keep
        PROVE  Cardinality(Newer(d, r, f, q, t)) >= Keep
    <2> DEFINE V == {u \in Times : cellKey(r, f, q, u) \in DOMAIN e}
               D == {u \in Times : cellKey(r, f, q, u) \in gone}
    <2>1. V \in SUBSET Nat /\ IsFiniteSet(V) /\ t \in Nat
      BY TimesFinite
    <2>2. \A u \in Times : {w \in V : w > u} = Newer(e, r, f, q, u)
      BY DEF Newer
    <2>3. \A u \in D : Cardinality({w \in V : w > u}) >= Keep
      BY <1>5, <2>2
    <2>4. Cardinality({w \in V : w > t}) >= Keep
      BY <1>8, <2>2
    <2>5. {w \in V \ D : w > t} = Newer(d, r, f, q, t)
      BY <1>2 DEF Newer
    <2> HIDE DEF V, D
    <2>6. Cardinality({w \in V \ D : w > t}) >= Keep
      BY <1>7, <2>1, <2>3, <2>4, NewerSurvive
    <2> QED
      BY <2>5, <2>6
  <1>9. \A x, y \in Nodes : forwardKey(x, y) \in DOMAIN e => forwardKey(x, y) \in DOMAIN d
    BY <1>2, <1>4
  <1>10. \A r \in Rows, f \in Families, q \in Quals, t \in Times :
          cellKey(r, f, q, t) \in DOMAIN e \ DOMAIN d => Cardinality(Newer(e, r, f, q, t)) >= Keep
    BY <1>2, <1>5
  <1> QED
    BY <1>2, <1>6, <1>8, <1>9, <1>10 DEF d

\* What GCVersions decides to delete has enough newer versions when it decides.
LEMMA StaleOutlived ==
  ASSUME EngineOK(entries), NEW r \in Rows, NEW f \in Families
  PROVE  \E m \in Nat : /\ DOMAIN stale(r, f) = 1 .. m
                        /\ \A i \in 1 .. m : Outlived(OpDelete(stale(r, f)[i].key), entries)
  <1> DEFINE all == ranked(entries, r, f)
             I == {i \in DOMAIN all : all[i].seen > 1 /\ all[i].seen > KeepN}
             m == Cardinality(I)
  <1>1. PICK n : FamilyList(entries, r, f, all, n)
    BY FamilyListed
  <1>2. stale(r, f) = picked(all, I)
    BY DEF stale
  <1>3. n \in Nat /\ DOMAIN all = 1 .. n
    BY <1>1 DEF FamilyList
  <1> HIDE DEF all
  <1>4. I \in SUBSET (1 .. n) /\ I \in SUBSET Nat
    BY <1>3
  <1>5. IsFiniteSet(I)
    <2>1. 1 \in Int /\ n \in Int
      BY <1>3
    <2>2. IsFiniteSet(1 .. n)
      BY <2>1, FS_Interval
    <2> HIDE DEF I
    <2> QED
      BY <1>4, <2>2, FS_Subset
  <1>6. ASSUME NEW i \in I PROVE Outlived(OpDelete(all[i].key), entries)
    <2>1. i \in 1 .. n /\ all[i].seen > 1 /\ all[i].seen > KeepN
      BY <1>4
    <2>2. PICK q \in Quals, t \in Times : all[i].key = cellKey(r, f, q, t)
      BY <1>1, <2>1 DEF FamilyList
    <2>3. all[i].seen \in Nat \ {0} /\ Cardinality(Newer(entries, r, f, q, t)) >= all[i].seen - 1
      BY <1>1, <2>1, <2>2, SeenMeansNewer
    <2>4. Cardinality(Newer(entries, r, f, q, t)) \in Nat
      BY TimesFinite DEF Newer
    <2>5. KeepN \in Nat
      BY StorageAssumption
    <2>6. Cardinality(Newer(entries, r, f, q, t)) >= Keep
      BY <2>1, <2>3, <2>4, <2>5 DEF Keep
    <2> QED
      BY <2>2, <2>6 DEF Outlived
  <1> HIDE DEF I
  <1>7. /\ m \in Nat /\ DOMAIN picked(all, I) = 1 .. m
        /\ \A k \in 1 .. m : \E i \in I : picked(all, I)[k] = all[i]
    BY <1>4, <1>5, PickedInOrder
  <1>8. \A k \in 1 .. m : Outlived(OpDelete(picked(all, I)[k].key), entries)
    BY <1>6, <1>7
  <1> QED
    BY <1>2, <1>7, <1>8

\* The engine is empty at first.
LEMMA StorageInvStarts ==
  StorageInit => StorageInv
  <1> SUFFICES ASSUME StorageInit PROVE StorageInv
    OBVIOUS
  <1>1. DOMAIN entries = {}
    BY DEF StorageInit
  <1>2. EngineOK(entries)
    BY <1>1, FS_EmptySet DEF EngineOK
  <1>3. DOMAIN doomed = Collectors /\ \A g \in Collectors : doomed[g] = <<>>
    BY DEF StorageInit, Idle
  <1>4. Len(<<>>) = 0 /\ DOMAIN <<>> = 1 .. 0 /\ 0 \in Nat /\ \A i \in 1 .. 0 : FALSE
    OBVIOUS
  <1>5. \A g \in Collectors :
          /\ Len(doomed[g]) \in Nat /\ DOMAIN doomed[g] = 1 .. Len(doomed[g])
          /\ \A i \in 1 .. Len(doomed[g]) : Outlived(doomed[g][i], entries)
    BY <1>3, <1>4
  <1> QED
    BY <1>2, <1>3, <1>5 DEF StorageInit, StorageInv

\* What is doomed stays so as long as every version with enough newer ones keeps enough.
LEMMA DoomedStay ==
  ASSUME NEW e, NEW d, NEW op, Outlived(op, e),
         \A r \in Rows, f \in Families, q \in Quals, t \in Times :
           Cardinality(Newer(e, r, f, q, t)) >= Keep => Cardinality(Newer(d, r, f, q, t)) >= Keep
  PROVE  Outlived(op, d)
  BY DEF Outlived

\* A step that changes the entries and leaves the batches as they are, or empties one.
LEMMA EntriesChange ==
  ASSUME StorageInv, EngineOK(entries'), snap' = snap,
         \/ doomed' = doomed
         \/ \E g \in Collectors : doomed' = [doomed EXCEPT ![g] = Idle],
         \A r \in Rows, f \in Families, q \in Quals, t \in Times :
           Cardinality(Newer(entries, r, f, q, t)) >= Keep => Cardinality(Newer(entries', r, f, q, t)) >= Keep
  PROVE  StorageInv'
  <1>1. DOMAIN doomed' = Collectors
    BY DEF StorageInv
  <1>2. \A g \in Collectors : doomed'[g] = doomed[g] \/ doomed'[g] = <<>>
    BY DEF StorageInv, Idle
  <1>3. Len(<<>>) = 0 /\ DOMAIN <<>> = 1 .. 0 /\ 0 \in Nat /\ \A i \in 1 .. 0 : FALSE
    OBVIOUS
  <1>4. ASSUME NEW g \in Collectors
        PROVE  /\ Len(doomed'[g]) \in Nat /\ DOMAIN doomed'[g] = 1 .. Len(doomed'[g])
               /\ \A i \in 1 .. Len(doomed'[g]) : Outlived(doomed'[g][i], entries')
    <2>1. CASE doomed'[g] = doomed[g]
      <3>1. /\ Len(doomed[g]) \in Nat /\ DOMAIN doomed[g] = 1 .. Len(doomed[g])
            /\ \A i \in 1 .. Len(doomed[g]) : Outlived(doomed[g][i], entries)
        BY DEF StorageInv
      <3>2. \A i \in 1 .. Len(doomed[g]) : Outlived(doomed[g][i], entries')
        BY <3>1, DoomedStay
      <3> QED
        BY <2>1, <3>1, <3>2
    <2>2. CASE doomed'[g] = <<>>
      BY <1>3, <2>2
    <2> QED
      BY <1>2, <2>1, <2>2
  <1> QED
    BY <1>1, <1>4 DEF StorageInv

\* Every step keeps the invariant.
LEMMA StorageInvStays ==
  StorageInv /\ [StorageNext]_storageVars => StorageInv'
  <1> SUFFICES ASSUME StorageInv, [StorageNext]_storageVars PROVE StorageInv'
    OBVIOUS
  <1>0. EngineOK(entries)
    BY DEF StorageInv
  <1>1. ASSUME NEW r \in Rows, NEW f \in Families, NEW q \in Quals, NEW t \in Times, NEW v \in Values,
               Put(r, f, q, t, v)
        PROVE  StorageInv'
    <2>1. entries' = set(entries, cellKey(r, f, q, t), v) /\ snap' = snap /\ doomed' = doomed
      BY <1>1 DEF Put
    <2>2. /\ EngineOK(entries')
          /\ \A r2 \in Rows, f2 \in Families, q2 \in Quals, t2 \in Times :
               Newer(entries, r2, f2, q2, t2) \in SUBSET Newer(entries', r2, f2, q2, t2)
      BY <1>0, <2>1, PutEngine
    <2>3. ASSUME NEW r2 \in Rows, NEW f2 \in Families, NEW q2 \in Quals, NEW t2 \in Times,
                 Cardinality(Newer(entries, r2, f2, q2, t2)) >= Keep
          PROVE  Cardinality(Newer(entries', r2, f2, q2, t2)) >= Keep
      <3> DEFINE A == Newer(entries, r2, f2, q2, t2)
                 B == Newer(entries', r2, f2, q2, t2)
      <3>1. A \in SUBSET B /\ IsFiniteSet(B) /\ Cardinality(A) \in Nat /\ Cardinality(B) \in Nat
        <4>1. A \in SUBSET Times /\ B \in SUBSET Times
          BY DEF Newer
        <4> QED
          BY <2>2, <4>1, TimesFinite
      <3> HIDE DEF A, B
      <3>2. Cardinality(A) <= Cardinality(B)
        BY <3>1, FS_Subset
      <3>3. Keep \in Nat
        BY StorageAssumption DEF Keep
      <3>4. Cardinality(A) >= Keep
        BY <2>3 DEF A
      <3>5. Cardinality(B) >= Keep
        BY <3>1, <3>2, <3>3, <3>4
      <3> QED
        BY <3>5 DEF B
    <2> QED
      BY <2>1, <2>2, <2>3, EntriesChange
  <1>2. ASSUME NEW g \in Collectors, NEW r \in Rows, NEW f \in Families, GCScan(g, r, f) PROVE StorageInv'
    <2> DEFINE old == stale(r, f)
               ops == [i \in DOMAIN old |-> OpDelete(old[i].key)]
    <2>1. entries' = entries /\ snap' = snap /\ doomed' = [doomed EXCEPT ![g] = ops]
      BY <1>2 DEF GCScan
    <2>2. PICK m \in Nat : DOMAIN old = 1 .. m /\ \A i \in 1 .. m : Outlived(OpDelete(old[i].key), entries)
      BY <1>0, StaleOutlived
    <2>3. /\ Len(ops) \in Nat /\ DOMAIN ops = 1 .. Len(ops)
          /\ \A i \in 1 .. Len(ops) : Outlived(ops[i], entries)
      <3> HIDE DEF old
      <3>1. ops = [i \in 1 .. m |-> OpDelete(old[i].key)]
        BY <2>2
      <3>2. Len(ops) = m /\ DOMAIN ops = 1 .. m
        BY <3>1
      <3>3. \A i \in 1 .. m : ops[i] = OpDelete(old[i].key)
        BY <3>1
      <3> QED
        BY <2>2, <3>2, <3>3
    <2> HIDE DEF ops
    <2>4. DOMAIN doomed' = Collectors /\ \A h \in Collectors : doomed'[h] = doomed[h] \/ doomed'[h] = ops
      BY <2>1 DEF StorageInv
    <2>5. \A h \in Collectors :
            /\ Len(doomed'[h]) \in Nat /\ DOMAIN doomed'[h] = 1 .. Len(doomed'[h])
            /\ \A i \in 1 .. Len(doomed'[h]) : Outlived(doomed'[h][i], entries')
      BY <2>1, <2>3, <2>4 DEF StorageInv
    <2> QED
      BY <2>1, <2>4, <2>5 DEF StorageInv
  <1>3. ASSUME NEW a \in Nodes, NEW b \in Nodes, NEW v \in Values, AddLink(a, b, v) PROVE StorageInv'
    <2>1. entries' = Linked(entries, a, b, v) /\ snap' = snap /\ doomed' = doomed
      BY <1>3 DEF AddLink, Linked
    <2>2. /\ EngineOK(entries')
          /\ \A r \in Rows, f \in Families, q \in Quals, t \in Times :
               Newer(entries', r, f, q, t) = Newer(entries, r, f, q, t)
      <3>1. EngineOK(Linked(entries, a, b, v))
        BY <1>0, LinkEngine
      <3>2. \A r \in Rows, f \in Families, q \in Quals, t \in Times :
              Newer(Linked(entries, a, b, v), r, f, q, t) = Newer(entries, r, f, q, t)
        BY <1>0, LinkNewer
      <3> QED
        BY <2>1, <3>1, <3>2
    <2> QED
      BY <2>1, <2>2, EntriesChange
  <1>4. ASSUME NEW g \in Collectors, GCApply(g) PROVE StorageInv'
    <2>1. entries' = Apply(entries, doomed[g]) /\ snap' = snap /\ doomed' = [doomed EXCEPT ![g] = Idle]
      BY <1>4 DEF GCApply
    <2>2. Len(doomed[g]) \in Nat /\ \A i \in 1 .. Len(doomed[g]) : Outlived(doomed[g][i], entries)
      BY DEF StorageInv
    <2>3. /\ EngineOK(entries')
          /\ \A r \in Rows, f \in Families, q \in Quals, t \in Times :
               Cardinality(Newer(entries, r, f, q, t)) >= Keep => Cardinality(Newer(entries', r, f, q, t)) >= Keep
      BY <1>0, <2>1, <2>2, CollectEngine
    <2> QED
      BY <2>1, <2>3, EntriesChange
  <1>5. ASSUME Snapshot PROVE StorageInv'
    <2>1. entries' = entries /\ doomed' = doomed /\ snap' = <<entries>>
      BY <1>5 DEF Snapshot
    <2>2. snap'[1] = entries
      BY <2>1
    <2> QED
      BY <2>1, <2>2 DEF StorageInv
  <1>6. ASSUME CloseSnapshot PROVE StorageInv'
    BY <1>6 DEF CloseSnapshot, StorageInv
  <1>7. ASSUME UNCHANGED storageVars PROVE StorageInv'
    BY <1>7 DEF storageVars, StorageInv
  <1> QED
    BY <1>1, <1>2, <1>3, <1>4, <1>5, <1>6, <1>7 DEF StorageNext

\* The invariant holds at all times.
LEMMA StorageInvHolds ==
  StorageSpec => []StorageInv
  BY StorageInvStarts, StorageInvStays, PTL DEF StorageSpec

-----------------------------------------------------------------------------
(***************************************************************************)
(* The link graph.                                                         *)
(***************************************************************************)

\* The edges found under a node are those whose key is there, each with its anchor.
LEMMA EdgesFound ==
  ASSUME NEW e, EngineOK(e), NEW tag \in {TagF, TagB}, NEW a \in Nodes, NEW b \in Nodes, NEW v
  PROVE  [node |-> b, anchor |-> v] \in ToSet(scanEdges(e, EdgePrefix(tag, a)))
           <=> EdgeKey(tag, a, b) \in DOMAIN e /\ e[EdgeKey(tag, a, b)] = v
  <1> DEFINE p == EdgePrefix(tag, a)
             K == Under(e, p)
             s == ScanPrefix(e, p)
             n == Cardinality(K)
             node(i) == decodeOrdered(SubSeq(s[i], Len(p) + 1, Len(s[i])))
             found == scanEdges(e, p)
  <1>0. p \in Bytes /\ Scanned(p)
    BY KeyParts, EdgeForm DEF Scanned
  <1>1. K \in SUBSET KeySpace /\ K \in SUBSET DOMAIN e /\ ListOf(s, K)
    <2> HIDE DEF p
    <2> QED
      BY <1>0, ScanListed
  <1>2. found = [i \in DOMAIN s |-> [node |-> node(i), anchor |-> e[s[i]]]]
    BY DEF scanEdges
  <1>3. \A k \in K : \E c \in Nodes : k = EdgeKey(tag, a, c)
    BY <1>1, EdgeScan DEF Under
  <1>4. EdgeKey(tag, a, b) \in DOMAIN e => EdgeKey(tag, a, b) \in K
    BY KeyKinds, EdgeScan DEF Under
  <1>5. \A c \in Nodes : decodeOrdered(SubSeq(EdgeKey(tag, a, c), Len(p) + 1, Len(EdgeKey(tag, a, c)))) = c
    BY KeysDecode
  <1> HIDE DEF p, K, s
  <1>6. /\ DOMAIN s = 1 .. n /\ \A i \in 1 .. n : s[i] \in K
        /\ \A k \in K : \E i \in 1 .. n : s[i] = k
    BY <1>1 DEF ListOf
  <1>7. \A i \in 1 .. n : \A c \in Nodes : s[i] = EdgeKey(tag, a, c) => node(i) = c
    BY <1>5
  <1> HIDE DEF node, n
  <1>8. ToSet(found) = {[node |-> node(i), anchor |-> e[s[i]]] : i \in 1 .. n}
    <2>1. DOMAIN found = 1 .. n /\ \A i \in 1 .. n : found[i] = [node |-> node(i), anchor |-> e[s[i]]]
      BY <1>2, <1>6
    <2> HIDE DEF found
    <2> QED
      BY <2>1 DEF ToSet
  <1> HIDE DEF found
  <1>9. ASSUME [node |-> b, anchor |-> v] \in ToSet(found)
        PROVE  EdgeKey(tag, a, b) \in DOMAIN e /\ e[EdgeKey(tag, a, b)] = v
    <2>1. PICK i \in 1 .. n : [node |-> b, anchor |-> v] = [node |-> node(i), anchor |-> e[s[i]]]
      BY <1>8, <1>9
    <2>2. node(i) = b /\ e[s[i]] = v
      BY <2>1
    <2>3. PICK c \in Nodes : s[i] = EdgeKey(tag, a, c)
      BY <1>3, <1>6
    <2>4. c = b
      BY <1>7, <2>2, <2>3
    <2>5. s[i] \in DOMAIN e
      BY <1>1, <1>6
    <2> QED
      BY <2>2, <2>3, <2>4, <2>5
  <1>10. ASSUME EdgeKey(tag, a, b) \in DOMAIN e, e[EdgeKey(tag, a, b)] = v
         PROVE  [node |-> b, anchor |-> v] \in ToSet(found)
    <2>1. PICK i \in 1 .. n : s[i] = EdgeKey(tag, a, b)
      BY <1>4, <1>6, <1>10
    <2>2. node(i) = b /\ e[s[i]] = v
      BY <1>7, <1>10, <2>1
    <2> QED
      BY <1>8, <2>2
  <1> QED
    BY <1>9, <1>10 DEF found, p

\* The degree counts the edges.
LEMMA DegreeCounts ==
  ASSUME NEW e, EngineOK(e), NEW a \in Nodes
  PROVE  OutDegree(e, a) = Cardinality({b \in Nodes : <<a, b>> \in DOMAIN linksIn(e)})
  <1> DEFINE p == EdgePrefix(TagF, a)
             K == Under(e, p)
             B == {b \in Nodes : <<a, b>> \in DOMAIN linksIn(e)}
             node(k) == CHOOSE b \in Nodes : k = EdgeKey(TagF, a, b)
             h == [k \in K |-> node(k)]
  <1>0. p \in Bytes /\ Scanned(p)
    BY KeyParts, EdgeForm DEF Scanned
  <1>1. K \in SUBSET KeySpace /\ K \in SUBSET DOMAIN e /\ IsFiniteSet(K) /\ ListOf(ScanPrefix(e, p), K)
    <2> HIDE DEF p
    <2> QED
      BY <1>0, ScanListed
  <1>2. OutDegree(e, a) = Cardinality(K)
    <2>1. OutDegree(e, a) = Len(ScanPrefix(e, p))
      BY DEF OutDegree, EdgePrefix
    <2> HIDE DEF p, K
    <2> QED
      BY <1>1, <2>1 DEF ListOf
  <1>3. \A b \in Nodes : b \in B <=> EdgeKey(TagF, a, b) \in DOMAIN e
    <2>1. \A b \in Nodes : <<a, b>> \in Nodes \X Nodes /\ keyOfEdge[<<a, b>>] = EdgeKey(TagF, a, b)
      BY KeyKinds DEF keyOfEdge
    <2>2. DOMAIN linksIn(e) = {q \in Nodes \X Nodes : keyOfEdge[q] \in DOMAIN e}
      BY DEF linksIn
    <2> QED
      BY <2>1, <2>2
  <1>4. \A k \in K : node(k) \in Nodes /\ k = EdgeKey(TagF, a, node(k))
    <2>1. \A k \in K : \E b \in Nodes : k = EdgeKey(TagF, a, b)
      BY <1>1, EdgeScan DEF Under
    <2> QED
      BY <2>1
  <1>5. \A b \in Nodes : EdgeKey(TagF, a, b) \in DOMAIN e => EdgeKey(TagF, a, b) \in K
    BY KeyKinds, EdgeScan DEF Under
  <1>6. \A b, c \in Nodes : EdgeKey(TagF, a, b) = EdgeKey(TagF, a, c) => b = c
    BY EdgeKeyIsInjective
  <1> HIDE DEF node, K, B, p
  <1>7. \A k \in K : h[k] \in B
    BY <1>1, <1>3, <1>4
  <1>8. \A k, l \in K : h[k] = h[l] => k = l
    BY <1>4
  <1>9. \A b \in B : \E k \in K : h[k] = b
    <2> SUFFICES ASSUME NEW b \in B PROVE h[EdgeKey(TagF, a, b)] = b /\ EdgeKey(TagF, a, b) \in K
      OBVIOUS
    <2>1. b \in Nodes /\ EdgeKey(TagF, a, b) \in K
      BY <1>3, <1>5 DEF B
    <2>2. node(EdgeKey(TagF, a, b)) = b
      BY <1>4, <1>6, <2>1
    <2> QED
      BY <2>1, <2>2
  <1>10. h \in Bijection(K, B)
    <2>1. h \in Injection(K, B)
      BY <1>7, <1>8 DEF Injection, IsInjective
    <2>2. h \in Surjection(K, B)
      BY <1>7, <1>9 DEF Surjection
    <2> QED
      BY <2>1, <2>2 DEF Bijection
  <1> HIDE DEF h
  <1>11. Cardinality(B) = Cardinality(K)
    BY <1>1, <1>10, FS_Bijection DEF ExistsBijection
  <1> QED
    BY <1>2, <1>11 DEF B

\* What the engine holds shows every link from both ends.
LEMMA LinksFromBothEnds ==
  ASSUME NEW e, EngineOK(e), NEW a \in Nodes, NEW b \in Nodes, NEW v
  PROVE  [node |-> b, anchor |-> v] \in ToSet(OutLinks(e, a))
           <=> [node |-> a, anchor |-> v] \in ToSet(InLinks(e, b))
  <1>1. [node |-> b, anchor |-> v] \in ToSet(scanEdges(e, EdgePrefix(TagF, a)))
           <=> EdgeKey(TagF, a, b) \in DOMAIN e /\ e[EdgeKey(TagF, a, b)] = v
    BY EdgesFound
  <1>2. [node |-> a, anchor |-> v] \in ToSet(scanEdges(e, EdgePrefix(TagB, b)))
           <=> EdgeKey(TagB, b, a) \in DOMAIN e /\ e[EdgeKey(TagB, b, a)] = v
    BY EdgesFound
  <1>3. /\ EdgeKey(TagF, a, b) \in DOMAIN e <=> EdgeKey(TagB, b, a) \in DOMAIN e
        /\ EdgeKey(TagF, a, b) \in DOMAIN e => e[EdgeKey(TagF, a, b)] = e[EdgeKey(TagB, b, a)]
    BY KeyKinds DEF EngineOK
  <1>4. OutLinks(e, a) = scanEdges(e, EdgePrefix(TagF, a)) /\ InLinks(e, b) = scanEdges(e, EdgePrefix(TagB, b))
    BY DEF OutLinks, InLinks, EdgePrefix
  <1> QED
    BY <1>1, <1>2, <1>3, <1>4, Zenon

\* Links are symmetric, live and in every snapshot: whatever writers and collectors do
\* in between, dst is an out-link of src exactly when src is an in-link of dst, under the
\* same anchor, and OutDegree counts them (linkgraph.go, AddLink, OutLinks, InLinks).
THEOREM LinksAreSymmetric ==
  StorageSpec => []LinksSymmetric
  <1>1. StorageInv => LinksSymmetric
    <2> SUFFICES ASSUME StorageInv PROVE LinksSymmetric
      OBVIOUS
    <2>1. \A e \in {entries} \cup (IF snap = NoSnap THEN {} ELSE {snap[1]}) : EngineOK(e)
      BY DEF StorageInv
    <2>2. ASSUME NEW e, EngineOK(e)
          PROVE  /\ \A a \in Nodes, b \in Nodes, v \in Values :
                      [node |-> b, anchor |-> v] \in ToSet(OutLinks(e, a))
                        <=> [node |-> a, anchor |-> v] \in ToSet(InLinks(e, b))
                 /\ \A a \in Nodes :
                      OutDegree(e, a) = Cardinality({b \in Nodes : <<a, b>> \in DOMAIN linksIn(e)})
      <3>1. \A a \in Nodes, b \in Nodes, v \in Values :
              [node |-> b, anchor |-> v] \in ToSet(OutLinks(e, a))
                <=> [node |-> a, anchor |-> v] \in ToSet(InLinks(e, b))
        BY <2>2, LinksFromBothEnds
      <3>2. \A a \in Nodes :
              OutDegree(e, a) = Cardinality({b \in Nodes : <<a, b>> \in DOMAIN linksIn(e)})
        BY <2>2, DegreeCounts
      <3> QED
        BY <3>1, <3>2
    <2> QED
      BY <2>1, <2>2 DEF LinksSymmetric
  <1> QED
    BY <1>1, StorageInvHolds, PTL

-----------------------------------------------------------------------------
(***************************************************************************)
(* The table that the engine keeps, read back by its keys.                 *)
(***************************************************************************)

KeyOf(c, t) == cellKey(c[1], c[2], c[3], t)

\* The versions of a cell, and the links, are what the keys find.
LEMMA TableMeans ==
  /\ \A c \in Cells : c[1] \in Rows /\ c[2] \in Families /\ c[3] \in Quals /\ c = <<c[1], c[2], c[3]>>
  /\ \A e : \A c \in Cells :
       /\ versionsIn(e, c) = [t \in {u \in Times : KeyOf(c, u) \in DOMAIN e} |-> e[KeyOf(c, t)]]
       /\ DOMAIN versionsIn(e, c) = {u \in Times : KeyOf(c, u) \in DOMAIN e}
       /\ \A t \in DOMAIN versionsIn(e, c) : versionsIn(e, c)[t] = e[KeyOf(c, t)]
  /\ \A e :
       /\ DOMAIN linksIn(e) = {w \in Nodes \X Nodes : forwardKey(w[1], w[2]) \in DOMAIN e}
       /\ linksIn(e) = [w \in DOMAIN linksIn(e) |-> e[forwardKey(w[1], w[2])]]
  <1>1. \A c \in Cells : c[1] \in Rows /\ c[2] \in Families /\ c[3] \in Quals /\ c = <<c[1], c[2], c[3]>>
    BY DEF Cells
  <1>2. \A c \in Cells, t \in Times : keyOfVersion[c][t] = KeyOf(c, t)
    BY DEF keyOfVersion, KeyOf
  <1>3. \A w \in Nodes \X Nodes : keyOfEdge[w] = forwardKey(w[1], w[2])
    BY DEF keyOfEdge
  <1>4. ASSUME NEW e, NEW c \in Cells
        PROVE  /\ versionsIn(e, c) = [t \in {u \in Times : KeyOf(c, u) \in DOMAIN e} |-> e[KeyOf(c, t)]]
               /\ DOMAIN versionsIn(e, c) = {u \in Times : KeyOf(c, u) \in DOMAIN e}
               /\ \A t \in DOMAIN versionsIn(e, c) : versionsIn(e, c)[t] = e[KeyOf(c, t)]
    <2> DEFINE U == {u \in Times : keyOfVersion[c][u] \in DOMAIN e}
               W == {u \in Times : KeyOf(c, u) \in DOMAIN e}
    <2>1. U = W
      BY <1>2
    <2>2. versionsIn(e, c) = [t \in U |-> e[keyOfVersion[c][t]]]
      BY DEF versionsIn
    <2>3. \A t \in U : keyOfVersion[c][t] = KeyOf(c, t)
      BY <1>2
    <2> HIDE DEF U, W
    <2>4. versionsIn(e, c) = [t \in W |-> e[KeyOf(c, t)]]
      BY <2>1, <2>2, <2>3
    <2>5. DOMAIN versionsIn(e, c) = W /\ \A t \in W : versionsIn(e, c)[t] = e[KeyOf(c, t)]
      BY <2>4
    <2> QED
      BY <2>4, <2>5 DEF W
  <1>5. ASSUME NEW e
        PROVE  /\ DOMAIN linksIn(e) = {w \in Nodes \X Nodes : forwardKey(w[1], w[2]) \in DOMAIN e}
               /\ linksIn(e) = [w \in DOMAIN linksIn(e) |-> e[forwardKey(w[1], w[2])]]
    <2> DEFINE U == {w \in Nodes \X Nodes : keyOfEdge[w] \in DOMAIN e}
    <2>1. linksIn(e) = [w \in U |-> e[keyOfEdge[w]]]
      BY DEF linksIn
    <2>2. U = {w \in Nodes \X Nodes : forwardKey(w[1], w[2]) \in DOMAIN e}
      BY <1>3
    <2>3. \A w \in U : keyOfEdge[w] = forwardKey(w[1], w[2])
      BY <1>3
    <2> HIDE DEF U
    <2>4. DOMAIN linksIn(e) = U
      BY <2>1
    <2>5. linksIn(e) = [w \in U |-> e[forwardKey(w[1], w[2])]]
      BY <2>1, <2>3
    <2> QED
      BY <2>2, <2>4, <2>5
  <1> QED
    BY <1>1, <1>4, <1>5

\* Engines with the same versions of a cell under its keys hold the same cell.
LEMMA SameVersions ==
  ASSUME NEW e, NEW d, NEW c \in Cells,
         \A t \in Times : /\ KeyOf(c, t) \in DOMAIN d <=> KeyOf(c, t) \in DOMAIN e
                          /\ KeyOf(c, t) \in DOMAIN e => d[KeyOf(c, t)] = e[KeyOf(c, t)]
  PROVE  versionsIn(d, c) = versionsIn(e, c)
  <1> DEFINE U == {u \in Times : KeyOf(c, u) \in DOMAIN e}
             W == {u \in Times : KeyOf(c, u) \in DOMAIN d}
  <1>1. U = W
    OBVIOUS
  <1>2. versionsIn(e, c) = [t \in U |-> e[KeyOf(c, t)]]
    BY TableMeans
  <1>3. versionsIn(d, c) = [t \in W |-> d[KeyOf(c, t)]]
    BY TableMeans
  <1>4. \A t \in U : d[KeyOf(c, t)] = e[KeyOf(c, t)]
    OBVIOUS
  <1> HIDE DEF U, W
  <1> QED
    BY <1>1, <1>2, <1>3, <1>4

\* The same for links.
LEMMA SameLinks ==
  ASSUME NEW e, NEW d,
         \A a, b \in Nodes : /\ forwardKey(a, b) \in DOMAIN d <=> forwardKey(a, b) \in DOMAIN e
                             /\ forwardKey(a, b) \in DOMAIN e => d[forwardKey(a, b)] = e[forwardKey(a, b)]
  PROVE  linksIn(d) = linksIn(e)
  <1>1. DOMAIN linksIn(d) = DOMAIN linksIn(e)
    <2>1. \A w \in Nodes \X Nodes : forwardKey(w[1], w[2]) \in DOMAIN d <=> forwardKey(w[1], w[2]) \in DOMAIN e
      OBVIOUS
    <2>2. DOMAIN linksIn(e) = {w \in Nodes \X Nodes : forwardKey(w[1], w[2]) \in DOMAIN e}
      BY TableMeans
    <2>3. DOMAIN linksIn(d) = {w \in Nodes \X Nodes : forwardKey(w[1], w[2]) \in DOMAIN d}
      BY TableMeans
    <2> QED
      BY <2>1, <2>2, <2>3
  <1>2. \A w \in DOMAIN linksIn(e) : d[forwardKey(w[1], w[2])] = e[forwardKey(w[1], w[2])]
    <2>1. DOMAIN linksIn(e) = {w \in Nodes \X Nodes : forwardKey(w[1], w[2]) \in DOMAIN e}
      BY TableMeans
    <2>2. \A w \in DOMAIN linksIn(e) : w[1] \in Nodes /\ w[2] \in Nodes /\ forwardKey(w[1], w[2]) \in DOMAIN e
      BY <2>1
    <2> QED
      BY <2>2
  <1>3. linksIn(e) = [w \in DOMAIN linksIn(e) |-> e[forwardKey(w[1], w[2])]]
    BY TableMeans
  <1>4. linksIn(d) = [w \in DOMAIN linksIn(d) |-> d[forwardKey(w[1], w[2])]]
    BY TableMeans
  <1> QED
    BY <1>1, <1>2, <1>3, <1>4

\* A Put writes one version of one cell of the table.
LEMMA PutIsWrite ==
  ASSUME StorageInv, NEW r \in Rows, NEW f \in Families, NEW q \in Quals, NEW t \in Times, NEW v \in Values,
         Put(r, f, q, t, v)
  PROVE  T!Write(<<r, f, q>>, t, v)
  <1> DEFINE c == <<r, f, q>>
             k == cellKey(r, f, q, t)
  <1>1. c \in Cells /\ KeyOf(c, t) = k
    BY DEF Cells, KeyOf
  <1>2. \A d \in Cells, u \in Times : KeyOf(d, u) = k => d = c /\ u = t
    <2> SUFFICES ASSUME NEW d \in Cells, NEW u \in Times, KeyOf(d, u) = k PROVE d = c /\ u = t
      OBVIOUS
    <2>1. d[1] \in Rows /\ d[2] \in Families /\ d[3] \in Quals /\ d = <<d[1], d[2], d[3]>>
      BY TableMeans
    <2>2. cellKey(d[1], d[2], d[3], u) = cellKey(r, f, q, t)
      BY DEF KeyOf
    <2>3. d[1] = r /\ d[2] = f /\ d[3] = q /\ u = t
      BY <2>1, <2>2, CellKeyIsInjective
    <2> QED
      BY <2>1, <2>3
  <1>3. \A a, b \in Nodes : forwardKey(a, b) # k
    <2>1. \A a, b \in Nodes : EdgeKey(TagF, a, b) # k
      BY CellIsNoEdge
    <2> QED
      BY <2>1, KeyKinds
  <1>4. DOMAIN entries' = DOMAIN entries \cup {k} /\ entries'[k] = v /\ \A l \in DOMAIN entries : l # k => entries'[l] = entries[l]
    BY DEF Put, set
  <1> HIDE DEF c, k
  <1>5. linksIn(entries') = linksIn(entries)
    BY <1>3, <1>4, SameLinks
  <1>6. \A d \in Cells \ {c} : versionsIn(entries', d) = versionsIn(entries, d)
    <2> SUFFICES ASSUME NEW d \in Cells, d # c PROVE versionsIn(entries', d) = versionsIn(entries, d)
      OBVIOUS
    <2>1. \A u \in Times : KeyOf(d, u) # k
      BY <1>2
    <2> QED
      BY <1>4, <2>1, SameVersions
  <1> DEFINE B == versionsIn(entries, c)
             A == versionsIn(entries', c)
  <1>7. DOMAIN B = {u \in Times : KeyOf(c, u) \in DOMAIN entries} /\ \A u \in DOMAIN B : B[u] = entries[KeyOf(c, u)]
    BY <1>1, TableMeans
  <1>8. DOMAIN A = {u \in Times : KeyOf(c, u) \in DOMAIN entries'} /\ \A u \in DOMAIN A : A[u] = entries'[KeyOf(c, u)]
    BY <1>1, TableMeans
  <1> HIDE DEF A, B
  <1>9. t \in DOMAIN A /\ A[t] = v
    BY <1>1, <1>4, <1>8
  <1>10. DOMAIN A = DOMAIN B \cup {t}
    BY <1>1, <1>2, <1>4, <1>7, <1>8
  <1>11. \A u \in DOMAIN B \ {t} : A[u] = B[u]
    BY <1>1, <1>2, <1>4, <1>7, <1>8, <1>10
  <1>12. T!Write(c, t, v)
    BY <1>1, <1>5, <1>6, <1>9, <1>10, <1>11 DEF T!Write, A, B
  <1> QED
    BY <1>12 DEF c

\* AddLink adds one link to the table.
LEMMA AddLinkIsLink ==
  ASSUME StorageInv, NEW a \in Nodes, NEW b \in Nodes, NEW v \in Values, AddLink(a, b, v)
  PROVE  T!Link(a, b, v)
  <1>0. EngineOK(entries) /\ entries' = Linked(entries, a, b, v)
    BY DEF StorageInv, AddLink, Linked
  <1> DEFINE fk == forwardKey(a, b)
             bk == backKey(b, a)
             w0 == <<a, b>>
  <1>1. DOMAIN entries' = DOMAIN entries \cup {fk, bk}
    BY <1>0, LinkEngine
  <1>2. entries'[fk] = v /\ \A k \in DOMAIN entries : k # fk /\ k # bk => entries'[k] = entries[k]
    <2>1. entries' = set(set(entries, fk, v), bk, v)
      BY <1>0, ApplyLink DEF Linked
    <2>2. fk # bk
      <3>1. fk = EdgeKey(TagF, a, b) /\ bk = EdgeKey(TagB, b, a) /\ TagF # TagB
        BY KeyKinds, KeyParts
      <3> QED
        BY <3>1, EdgeKeyIsInjective
    <2> HIDE DEF fk, bk
    <2> QED
      BY <2>1, <2>2 DEF set
  <1>3. \A k \in DOMAIN entries : k # fk /\ k # bk => entries'[k] = entries[k]
    BY <1>2
  <1>4. \A r \in Rows, f \in Families, q \in Quals, t \in Times : cellKey(r, f, q, t) # fk /\ cellKey(r, f, q, t) # bk
    BY <1>0, LinkEngine
  <1>5. \A x, y \in Nodes : forwardKey(x, y) # bk /\ (forwardKey(x, y) = fk => x = a /\ y = b)
    <2>1. fk = EdgeKey(TagF, a, b) /\ bk = EdgeKey(TagB, b, a) /\ TagF # TagB
      BY KeyKinds, KeyParts
    <2> HIDE DEF fk, bk
    <2>2. \A x, y \in Nodes : EdgeKey(TagF, x, y) # bk /\ (EdgeKey(TagF, x, y) = fk => x = a /\ y = b)
      BY <2>1, EdgeKeyIsInjective
    <2> QED
      BY <2>2, KeyKinds
  <1>6. w0 \in Nodes \X Nodes /\ w0[1] = a /\ w0[2] = b /\ \A w \in Nodes \X Nodes : w[1] = a /\ w[2] = b => w = w0
    OBVIOUS
  <1>7. forwardKey(w0[1], w0[2]) = fk
    BY <1>6
  <1> HIDE DEF fk, bk, w0
  <1>8. \A c \in Cells : versionsIn(entries', c) = versionsIn(entries, c)
    <2> SUFFICES ASSUME NEW c \in Cells PROVE versionsIn(entries', c) = versionsIn(entries, c)
      OBVIOUS
    <2>1. \A t \in Times : KeyOf(c, t) # fk /\ KeyOf(c, t) # bk
      BY <1>4, TableMeans DEF KeyOf
    <2> QED
      BY <1>1, <1>3, <2>1, SameVersions
  <1> DEFINE M == linksIn(entries)
             N == linksIn(entries')
  <1>9. /\ DOMAIN M = {w \in Nodes \X Nodes : forwardKey(w[1], w[2]) \in DOMAIN entries}
        /\ M = [w \in DOMAIN M |-> entries[forwardKey(w[1], w[2])]]
    BY TableMeans
  <1>10. /\ DOMAIN N = {w \in Nodes \X Nodes : forwardKey(w[1], w[2]) \in DOMAIN entries'}
         /\ N = [w \in DOMAIN N |-> entries'[forwardKey(w[1], w[2])]]
    BY TableMeans
  <1> HIDE DEF M, N
  <1>11. \A w \in Nodes \X Nodes : forwardKey(w[1], w[2]) # bk /\ (forwardKey(w[1], w[2]) = fk <=> w = w0)
    BY <1>5, <1>6, <1>7
  <1>12. DOMAIN N = DOMAIN M \cup {w0}
    BY <1>1, <1>6, <1>9, <1>10, <1>11
  <1>13. ASSUME NEW w \in DOMAIN N PROVE N[w] = IF w = w0 THEN v ELSE M[w]
    <2>0. w \in Nodes \X Nodes /\ N[w] = entries'[forwardKey(w[1], w[2])]
      BY <1>10
    <2>1. CASE w = w0
      BY <1>2, <1>7, <2>0, <2>1
    <2>2. CASE w # w0
      <3>1. w \in DOMAIN M
        BY <1>12, <2>2
      <3>2. M[w] = entries[forwardKey(w[1], w[2])] /\ forwardKey(w[1], w[2]) \in DOMAIN entries
        BY <1>9, <3>1
      <3>3. forwardKey(w[1], w[2]) # fk /\ forwardKey(w[1], w[2]) # bk
        BY <1>11, <2>0, <2>2
      <3> QED
        BY <1>3, <2>0, <2>2, <3>2, <3>3
    <2> QED
      BY <2>1, <2>2
  <1>14. N = [w \in DOMAIN M \cup {w0} |-> IF w = w0 THEN v ELSE M[w]]
    <2>1. N = [w \in DOMAIN N |-> N[w]]
      BY <1>10
    <2> QED
      BY <1>12, <1>13, <2>1
  <1>15. [c \in Cells |-> versionsIn(entries', c)] = [c \in Cells |-> versionsIn(entries, c)]
    BY <1>8
  <1> QED
    BY <1>14, <1>15 DEF T!Link, M, N, w0

\* The batch of a collector takes old versions, and each leaves enough newer ones.
LEMMA BatchIsCollect ==
  ASSUME StorageInv, NEW g \in Collectors, GCApply(g)
  PROVE  T!Collect
  <1> DEFINE ops == doomed[g]
  <1>1. EngineOK(entries) /\ entries' = Apply(entries, ops)
    BY DEF StorageInv, GCApply
  <1>2. Len(ops) \in Nat /\ \A i \in 1 .. Len(ops) : Outlived(ops[i], entries)
    BY DEF StorageInv
  <1> HIDE DEF ops
  <1>3. /\ DOMAIN entries' \subseteq DOMAIN entries /\ \A k \in DOMAIN entries' : entries'[k] = entries[k]
        /\ \A x, y \in Nodes : forwardKey(x, y) \in DOMAIN entries => forwardKey(x, y) \in DOMAIN entries'
    BY <1>1, <1>2, CollectEngine
  <1>4. \A r \in Rows, f \in Families, q \in Quals, t \in Times :
          /\ Cardinality(Newer(entries, r, f, q, t)) >= Keep => Cardinality(Newer(entries', r, f, q, t)) >= Keep
          /\ cellKey(r, f, q, t) \in DOMAIN entries \ DOMAIN entries' => Cardinality(Newer(entries, r, f, q, t)) >= Keep
    BY <1>1, <1>2, CollectEngine
  <1>5. linksIn(entries') = linksIn(entries)
    BY <1>3, SameLinks
  <1>6. ASSUME NEW c \in Cells
        PROVE  /\ DOMAIN versionsIn(entries', c) \subseteq DOMAIN versionsIn(entries, c)
               /\ \A t \in DOMAIN versionsIn(entries', c) : versionsIn(entries', c)[t] = versionsIn(entries, c)[t]
               /\ \A t \in DOMAIN versionsIn(entries, c) \ DOMAIN versionsIn(entries', c) :
                    Cardinality({u \in DOMAIN versionsIn(entries', c) : u > t}) >= Keep
    <2> DEFINE B == versionsIn(entries, c)
               A == versionsIn(entries', c)
    <2>0. c[1] \in Rows /\ c[2] \in Families /\ c[3] \in Quals
      BY TableMeans
    <2>1. DOMAIN B = {u \in Times : KeyOf(c, u) \in DOMAIN entries} /\ \A u \in DOMAIN B : B[u] = entries[KeyOf(c, u)]
      BY TableMeans
    <2>2. DOMAIN A = {u \in Times : KeyOf(c, u) \in DOMAIN entries'} /\ \A u \in DOMAIN A : A[u] = entries'[KeyOf(c, u)]
      BY TableMeans
    <2> HIDE DEF A, B
    <2>3. DOMAIN A \subseteq DOMAIN B
      BY <1>3, <2>1, <2>2
    <2>4. \A t \in DOMAIN A : A[t] = B[t]
      BY <1>3, <2>1, <2>2, <2>3
    <2>5. ASSUME NEW t \in DOMAIN B \ DOMAIN A PROVE Cardinality({u \in DOMAIN A : u > t}) >= Keep
      <3>1. t \in Times /\ cellKey(c[1], c[2], c[3], t) \in DOMAIN entries \ DOMAIN entries'
        BY <2>1, <2>2 DEF KeyOf
      <3>2. Cardinality(Newer(entries', c[1], c[2], c[3], t)) >= Keep
        BY <1>4, <2>0, <3>1
      <3>3. Newer(entries', c[1], c[2], c[3], t) = {u \in DOMAIN A : u > t}
        BY <2>2 DEF Newer, KeyOf
      <3> QED
        BY <3>2, <3>3
    <2> QED
      BY <2>3, <2>4, <2>5 DEF A, B
  <1> DEFINE table == [c \in Cells |-> versionsIn(entries, c)]
  <1>7. \A c \in Cells : table[c] = versionsIn(entries, c) /\ table'[c] = versionsIn(entries', c)
    OBVIOUS
  <1> HIDE DEF table
  <1>8. \A c \in Cells :
          /\ DOMAIN table'[c] \subseteq DOMAIN table[c]
          /\ \A t \in DOMAIN table'[c] : table'[c][t] = table[c][t]
          /\ \A t \in DOMAIN table[c] \ DOMAIN table'[c] :
               Cardinality({u \in DOMAIN table'[c] : u > t}) >= (IF KeepN = 0 THEN 1 ELSE KeepN)
    BY <1>6, <1>7 DEF Keep
  <1>9. /\ linksIn(entries') = linksIn(entries)
        /\ \A c \in Cells :
             LET before == [d \in Cells |-> versionsIn(entries, d)][c]
                 after == [d \in Cells |-> versionsIn(entries', d)][c]
             IN  /\ DOMAIN after \subseteq DOMAIN before
                 /\ \A t \in DOMAIN after : after[t] = before[t]
                 /\ \A t \in DOMAIN before \ DOMAIN after :
                      Cardinality({u \in DOMAIN after : u > t}) >= (IF KeepN = 0 THEN 1 ELSE KeepN)
    BY <1>5, <1>8 DEF table
  <1>10. \A S : T!Cardinality(S) = Cardinality(S)
    BY Zenon DEF T!Cardinality, Cardinality
  <1> QED
    BY <1>9, <1>10 DEF T!Collect

\* The engine keeps the table's promise: every step of a writer, a reader's snapshot or a
\* collector is, read back through the keys, a step of VersionedTable or changes nothing
\* there.  A Put touches one version of one cell, a link adds one pair, and a batch decided
\* on a stale scan never takes the newest version or leaves fewer than KeepN newer ones
\* (webtable.go, Put and GCVersions; linkgraph.go, AddLink).
THEOREM StorageKeepsPromise ==
  StorageSpec => KeepsPromise
  <1> DEFINE tv == <<[c \in Cells |-> versionsIn(entries, c)], linksIn(entries)>>
  <1>1. StorageInit => T!TInit
    <2> SUFFICES ASSUME StorageInit PROVE T!TInit
      OBVIOUS
    <2>1. entries = <<>> /\ DOMAIN entries = {}
      BY DEF StorageInit
    <2>2. \A c \in Cells : versionsIn(entries, c) = <<>>
      <3> SUFFICES ASSUME NEW c \in Cells PROVE versionsIn(entries, c) = <<>>
        OBVIOUS
      <3>1. versionsIn(entries, c) = [u \in {w \in Times : KeyOf(c, w) \in DOMAIN entries} |-> entries[KeyOf(c, u)]]
        BY TableMeans
      <3>2. {w \in Times : KeyOf(c, w) \in DOMAIN entries} = {}
        BY <2>1
      <3> QED
        BY <3>1, <3>2
    <2>3. linksIn(entries) = <<>>
      <3>1. DOMAIN linksIn(entries) = {} /\ linksIn(entries) = [w \in DOMAIN linksIn(entries) |-> entries[forwardKey(w[1], w[2])]]
        BY <2>1, TableMeans
      <3> QED
        BY <3>1
    <2> QED
      BY <2>2, <2>3 DEF T!TInit
  <1>2. StorageInv /\ [StorageNext]_storageVars => [T!TNext]_tv
    <2> SUFFICES ASSUME StorageInv, [StorageNext]_storageVars PROVE [T!TNext]_tv
      OBVIOUS
    <2>1. ASSUME NEW r \in Rows, NEW f \in Families, NEW q \in Quals, NEW t \in Times, NEW v \in Values,
                 Put(r, f, q, t, v)
          PROVE  T!TNext
      <3>1. T!Write(<<r, f, q>>, t, v) /\ <<r, f, q>> \in Cells
        BY <2>1, PutIsWrite DEF Cells
      <3> QED
        BY <3>1 DEF T!TNext
    <2>2. ASSUME NEW a \in Nodes, NEW b \in Nodes, NEW v \in Values, AddLink(a, b, v) PROVE T!TNext
      <3>1. T!Link(a, b, v)
        BY <2>2, AddLinkIsLink
      <3> QED
        BY <3>1 DEF T!TNext
    <2>3. ASSUME NEW g \in Collectors, GCApply(g) PROVE T!TNext
      <3>1. T!Collect
        BY <2>3, BatchIsCollect
      <3> QED
        BY <3>1 DEF T!TNext
    <2>4. ASSUME entries' = entries PROVE tv' = tv
      BY <2>4
    <2>5. ASSUME NEW g \in Collectors, NEW r \in Rows, NEW f \in Families, GCScan(g, r, f) PROVE entries' = entries
      BY <2>5 DEF GCScan
    <2>6. Snapshot \/ CloseSnapshot \/ UNCHANGED storageVars => entries' = entries
      BY DEF Snapshot, CloseSnapshot, storageVars
    <2> HIDE DEF tv
    <2> QED
      BY <2>1, <2>2, <2>3, <2>4, <2>5, <2>6 DEF StorageNext
  <1> QED
    BY <1>1, <1>2, StorageInvHolds, PTL DEF StorageSpec, KeepsPromise, T!TSpec

-----------------------------------------------------------------------------
(***************************************************************************)
(* What the readers of the web table find.                                 *)
(***************************************************************************)

\* What the table promises a reader of a cell.
CellOf(e, r, f, q) ==
  LET v == versionsIn(e, <<r, f, q>>)
  IN  IF v = <<>> THEN NoCell
      ELSE [qual |-> q, ts |-> Max(DOMAIN v), value |-> v[Max(DOMAIN v)]]

Held(e, r, f, q) == {u \in Times : cellKey(r, f, q, u) \in DOMAIN e}

IsNewest(e, r, f, q, t) == t \in Held(e, r, f, q) /\ \A u \in Held(e, r, f, q) : u <= t

CellAt(e, k, q) == [qual |-> q, ts |-> decodeTS(k), value |-> e[k]]

\* A cell is its newest version, and none when it has no version.
LEMMA CellMeans ==
  ASSUME NEW e, NEW r \in Rows, NEW f \in Families, NEW q \in Quals
  PROVE  /\ Held(e, r, f, q) = {} => CellOf(e, r, f, q) = NoCell
         /\ Held(e, r, f, q) # {} => \E t \in Times : IsNewest(e, r, f, q, t)
         /\ \A t \in Times : IsNewest(e, r, f, q, t) =>
              /\ CellOf(e, r, f, q) = CellAt(e, cellKey(r, f, q, t), q)
              /\ CellOf(e, r, f, q) # NoCell /\ CellOf(e, r, f, q).qual = q
  <1> DEFINE c == <<r, f, q>>
             v == versionsIn(e, c)
             D == Held(e, r, f, q)
  <1>1. c \in Cells /\ \A u : KeyOf(c, u) = cellKey(r, f, q, u)
    BY DEF Cells, KeyOf
  <1>2. /\ v = [u \in {w \in Times : KeyOf(c, w) \in DOMAIN e} |-> e[KeyOf(c, u)]]
        /\ DOMAIN v = {w \in Times : KeyOf(c, w) \in DOMAIN e}
        /\ \A u \in DOMAIN v : v[u] = e[KeyOf(c, u)]
    BY <1>1, TableMeans
  <1>3. CellOf(e, r, f, q) = IF v = <<>> THEN NoCell ELSE [qual |-> q, ts |-> Max(DOMAIN v), value |-> v[Max(DOMAIN v)]]
    BY DEF CellOf
  <1> HIDE DEF v, c
  <1>4. DOMAIN v = D /\ \A u \in D : v[u] = e[cellKey(r, f, q, u)]
    BY <1>1, <1>2 DEF Held
  <1>5. D \in SUBSET Times /\ D \in SUBSET Nat /\ \A u \in D : u <= 127
    BY TimesFinite DEF Held
  <1>6. v = <<>> <=> D = {}
    <2>1. v = <<>> => D = {}
      BY <1>4
    <2>2. D = {} => v = <<>>
      BY <1>2, <1>4
    <2> QED
      BY <2>1, <2>2
  <1>7. ASSUME D # {} PROVE \E t \in Times : IsNewest(e, r, f, q, t)
    <2>1. 127 \in Nat
      OBVIOUS
    <2> HIDE DEF D
    <2>2. Max(D) \in D /\ \A y \in D : Max(D) >= y
      BY <1>5, <1>7, <2>1, MaxOfNumbers
    <2>3. Max(D) \in Times /\ Max(D) \in Nat /\ \A y \in D : y <= Max(D)
      BY <1>5, <2>2
    <2> QED
      BY <2>2, <2>3 DEF IsNewest, D
  <1>8. ASSUME NEW t \in Times, IsNewest(e, r, f, q, t)
        PROVE  /\ CellOf(e, r, f, q) = CellAt(e, cellKey(r, f, q, t), q)
               /\ CellOf(e, r, f, q) # NoCell /\ CellOf(e, r, f, q).qual = q
    <2>1. t \in D /\ \A u \in D : u <= t
      BY <1>8 DEF IsNewest
    <2> HIDE DEF D
    <2>2. Max(D) \in D /\ \A y \in D : Max(D) >= y
      <3>1. 127 \in Nat /\ D # {}
        BY <2>1
      <3> QED
        BY <1>5, <3>1, MaxOfNumbers
    <2>3. Max(D) = t
      <3>1. Max(D) \in Nat /\ t \in Nat /\ Max(D) <= t /\ Max(D) >= t
        BY <1>5, <2>1, <2>2
      <3> QED
        BY <3>1
    <2>4. CellOf(e, r, f, q) = [qual |-> q, ts |-> t, value |-> e[cellKey(r, f, q, t)]]
      BY <1>3, <1>4, <1>6, <2>1, <2>3
    <2>5. decodeTS(cellKey(r, f, q, t)) = t
      BY KeysDecode
    <2>6. t # -1
      BY KeyParts
    <2>7. [qual |-> q, ts |-> t, value |-> e[cellKey(r, f, q, t)]].ts = t /\ NoCell.ts = -1
      BY DEF NoCell
    <2> QED
      BY <2>4, <2>5, <2>6, <2>7 DEF CellAt
  <1> QED
    BY <1>3, <1>6, <1>7, <1>8

\* Latest reads the newest version: it sorts first under the prefix of its qualifier.
LEMMA LatestIsNewest ==
  ASSUME NEW e, EngineOK(e), NEW r \in Rows, NEW f \in Families, NEW q \in Quals
  PROVE  Latest(e, r, f, q) = CellOf(e, r, f, q)
  <1> DEFINE p == cellKeyQualPrefix(r, f, q)
             K == Under(e, p)
             s == ScanPrefix(e, p)
             n == Cardinality(K)
  <1>0. p \in Bytes /\ Scanned(p)
    BY KeyParts, QualForm DEF Scanned
  <1>1. K \in SUBSET KeySpace /\ K \in SUBSET DOMAIN e /\ IsFiniteSet(K) /\ ListOf(s, K)
    <2> HIDE DEF p
    <2> QED
      BY <1>0, ScanListed
  <1>2. Latest(e, r, f, q) = IF s = <<>> THEN NoCell ELSE CellAt(e, s[1], q)
    BY DEF Latest, CellAt
  <1>3. s = [i \in DOMAIN s |-> s[i]]
    <2> DEFINE S == {k \in DOMAIN e : ~Less(k, p) /\ (PrefixEnd(p) = <<>> \/ Less(k, PrefixEnd(p)))}
               A(i) == CHOOSE k \in S : Cardinality({j \in S : Less(j, k)}) = i - 1
    <2>1. s = inOrder(S)
      BY DEF ScanPrefix, Scan
    <2>2. inOrder(S) = [i \in 1 .. Cardinality(S) |-> A(i)]
      BY DEF inOrder
    <2> HIDE DEF A, S, s
    <2> QED
      BY <2>1, <2>2
  <1>4. \A k \in K : \E t \in Times : k = cellKey(r, f, q, t)
    BY <1>1, QualScan DEF Under
  <1>5. \A t \in Times : cellKey(r, f, q, t) \in DOMAIN e => cellKey(r, f, q, t) \in K
    BY KeyKinds, QualScan DEF Under
  <1> HIDE DEF p, K, s
  <1>6. /\ n \in Nat /\ DOMAIN s = 1 .. n /\ \A i \in 1 .. n : s[i] \in K
        /\ \A i, j \in 1 .. n : i < j <=> Less(s[i], s[j])
        /\ \A k \in K : \E i \in 1 .. n : s[i] = k
    BY <1>1 DEF ListOf
  <1> HIDE DEF n
  <1>7. CASE Held(e, r, f, q) = {}
    <2>1. K = {}
      BY <1>1, <1>4, <1>7 DEF Held
    <2>2. n = 0
      BY <1>6, <2>1
    <2>3. s = <<>>
      BY <1>3, <1>6, <2>2
    <2> QED
      BY <1>2, <1>7, <2>3, CellMeans
  <1>8. CASE Held(e, r, f, q) # {}
    <2>1. PICK t \in Times : IsNewest(e, r, f, q, t)
      BY <1>8, CellMeans
    <2>2. cellKey(r, f, q, t) \in DOMAIN e /\ t \in Nat
      BY <2>1, KeyParts DEF IsNewest, Held
    <2>3. PICK i \in 1 .. n : s[i] = cellKey(r, f, q, t)
      BY <1>5, <1>6, <2>2
    <2>4. i = 1
      <3> SUFFICES ASSUME i # 1 PROVE FALSE
        OBVIOUS
      <3>1. 1 \in 1 .. n /\ 1 < i
        BY <1>6
      <3>2. PICK u \in Times : s[1] = cellKey(r, f, q, u)
        BY <1>4, <1>6, <3>1
      <3>3. u \in Held(e, r, f, q) /\ u \in Nat
        BY <1>1, <1>6, <3>1, <3>2, KeyParts DEF Held
      <3>4. Less(cellKey(r, f, q, u), cellKey(r, f, q, t))
        BY <1>6, <2>3, <3>1, <3>2
      <3>5. u > t
        BY <3>4, NewestFirst
      <3> QED
        BY <2>1, <2>2, <3>3, <3>5 DEF IsNewest
    <2>5. s # <<>> /\ s[1] = cellKey(r, f, q, t)
      BY <1>6, <2>3, <2>4
    <2>6. CellOf(e, r, f, q) = CellAt(e, cellKey(r, f, q, t), q)
      BY <2>1, CellMeans
    <2> QED
      BY <1>2, <2>5, <2>6
  <1> QED
    BY <1>7, <1>8

\* What lies between two keys with a prefix has the prefix.
LEMMA PrefixIsConvex ==
  ASSUME NEW p \in Bytes, CanRise(p), NEW j \in Bytes, NEW k \in Bytes, NEW l \in Bytes,
         StartsWith(j, p), StartsWith(l, p), j = k \/ Less(j, k), k = l \/ Less(k, l)
  PROVE  StartsWith(k, p)
  <1> DEFINE d == PrefixEnd(p)
  <1>1. d \in Bytes /\ d # <<>>
    BY PrefixEndAt DEF CanRise
  <1>2. \A x \in Bytes : ~Less(x, p) /\ (d = <<>> \/ Less(x, d)) <=> StartsWith(x, p)
    BY ScanIsPrefix DEF CanRise
  <1> HIDE DEF d
  <1>3. ~Less(j, p) /\ Less(l, d)
    BY <1>1, <1>2
  <1>4. ~Less(k, p)
    BY <1>3, LessIsTotal
  <1>5. Less(k, d)
    BY <1>1, <1>3, LessIsTotal
  <1> QED
    BY <1>2, <1>4, <1>5

\* The loops count one exactly at the newest version of a qualifier: the versions of a
\* qualifier are next to each other, the newest first.
LEMMA SeenFirstIsNewest ==
  ASSUME NEW e, NEW r \in Rows, NEW f \in Families, NEW all, NEW n, FamilyList(e, r, f, all, n),
         NEW i \in 1 .. n, NEW q \in Quals, NEW t \in Times, all[i].key = cellKey(r, f, q, t)
  PROVE  all[i].seen = 1 <=> IsNewest(e, r, f, q, t)
  <1>0. n \in Nat /\ i \in Nat /\ i <= n /\ t \in Nat
    BY KeyParts DEF FamilyList
  <1>1. all[i].seen \in Nat \ {0} /\ Cardinality(Newer(e, r, f, q, t)) >= all[i].seen - 1
    BY SeenMeansNewer
  <1>2. t \in Held(e, r, f, q) /\ all[i].qual = q
    BY CellKeyIsInjective DEF FamilyList, Held
  <1>3. Newer(e, r, f, q, t) = {} <=> IsNewest(e, r, f, q, t)
    <2>1. \A u \in Times : u \in Nat
      BY KeyParts
    <2>2. \A u \in Times : ~(u > t) <=> u <= t
      BY <1>0, <2>1
    <2>3. Newer(e, r, f, q, t) = {u \in Held(e, r, f, q) : u > t} /\ Held(e, r, f, q) \subseteq Times
      BY DEF Newer, Held
    <2> QED
      BY <1>2, <2>2, <2>3 DEF IsNewest
  <1>4. ASSUME IsNewest(e, r, f, q, t) PROVE all[i].seen = 1
    <2>1. Cardinality(Newer(e, r, f, q, t)) = 0
      BY <1>3, <1>4, FS_EmptySet
    <2> QED
      BY <1>1, <2>1
  <1>5. ASSUME ~IsNewest(e, r, f, q, t) PROVE all[i].seen # 1
    <2>1. PICK u \in Times : u > t /\ cellKey(r, f, q, u) \in DOMAIN e
      BY <1>3, <1>5 DEF Newer
    <2>2. PICK j \in 1 .. n : all[j].key = cellKey(r, f, q, u)
      BY <2>1 DEF FamilyList
    <2>3. Less(all[j].key, all[i].key)
      BY <2>1, <2>2, NewestFirst
    <2>4. j < i /\ j \in Nat
      BY <1>0, <2>3 DEF FamilyList
    <2> DEFINE p == cellKeyQualPrefix(r, f, q)
    <2>5. p \in Bytes /\ CanRise(p)
      <3>1. r \in Bytes /\ f \in Byte /\ q \in Bytes
        BY KeyParts
      <3>2. p = Join(rowFamilyPrefix(r, f), Enc(q)) /\ rowFamilyPrefix(r, f) \in Bytes /\ p \in Bytes
        BY <3>1, QualForm, RowForm
      <3> QED
        BY <3>1, <3>2, ZeroInside
    <2>6. StartsWith(all[j].key, p) /\ StartsWith(all[i].key, p)
      BY <2>2, KeyKinds, QualScan
    <2>7. ASSUME NEW m \in j .. i PROVE all[m].qual = all[i].qual
      <3>1. m \in 1 .. n /\ (m = j \/ j < m) /\ (m = i \/ m < i)
        BY <1>0, <2>4
      <3>2. PICK q2 \in Quals, t2 \in Times : all[m].key = cellKey(r, f, q2, t2) /\ all[m].qual = q2
        BY <3>1 DEF FamilyList
      <3>3. all[m].key \in KeySpace /\ all[m].key \in Bytes /\ all[j].key \in Bytes /\ all[i].key \in Bytes
        BY <2>2, <3>2, KeyKinds
      <3>4. all[j].key = all[m].key \/ Less(all[j].key, all[m].key)
        BY <3>1 DEF FamilyList
      <3>5. all[m].key = all[i].key \/ Less(all[m].key, all[i].key)
        BY <3>1 DEF FamilyList
      <3>6. StartsWith(all[m].key, p)
        <4> HIDE DEF p
        <4> QED
          BY <2>5, <2>6, <3>3, <3>4, <3>5, PrefixIsConvex
      <3>7. PICK t3 \in Times : all[m].key = cellKey(r, f, q, t3)
        BY <3>3, <3>6, QualScan
      <3>8. q2 = q
        <4>1. cellKey(r, f, q2, t2) = cellKey(r, f, q, t3)
          BY <3>2, <3>7
        <4> QED
          BY <4>1, CellKeyIsInjective
      <3> QED
        BY <1>2, <3>2, <3>8
    <2>8. j \in Run(all, i) /\ i \in Run(all, i) /\ j # i
      BY <1>0, <2>4, <2>7 DEF Run
    <2>9. IsFiniteSet(Run(all, i))
      <3>1. 1 \in Int /\ i \in Int
        BY <1>0
      <3>2. IsFiniteSet(1 .. i)
        BY <3>1, FS_Interval
      <3>3. Run(all, i) \in SUBSET (1 .. i)
        BY DEF Run
      <3> QED
        BY <3>2, <3>3, FS_Subset
    <2> DEFINE A == Run(all, i) \ {i}
    <2>10. IsFiniteSet(A) /\ Cardinality(A) = Cardinality(Run(all, i)) - 1 /\ A # {}
      BY <2>8, <2>9, FS_RemoveElement
    <2> HIDE DEF A
    <2>11. Cardinality(A) # 0
      BY <2>10, FS_EmptySet
    <2>12. all[i].seen = Cardinality(Run(all, i))
      BY DEF FamilyList
    <2> QED
      BY <2>10, <2>11, <2>12
  <1> QED
    BY <1>4, <1>5

\* ScanFamily reads every cell of the family that has a version, once, its newest.
LEMMA FamilyIsNewest ==
  ASSUME NEW e, EngineOK(e), NEW r \in Rows, NEW f \in Families, NEW C,
         C = {CellOf(e, r, f, q) : q \in Quals} \ {NoCell}
  PROVE  ToSet(ScanFamily(e, r, f)) = C /\ Len(ScanFamily(e, r, f)) = Cardinality(C)
  <1> DEFINE all == ranked(e, r, f)
             I == {i \in DOMAIN all : all[i].seen = 1}
             found(x) == CellAt(e, x.key, x.qual)
             newest == picked(all, I)
             m == Cardinality(I)
             h == [i \in I |-> found(all[i])]
  <1>1. PICK n : FamilyList(e, r, f, all, n)
    BY FamilyListed
  <1>2. ScanFamily(e, r, f) = [k \in DOMAIN newest |-> found(newest[k])]
    BY DEF ScanFamily, CellAt
  <1> HIDE DEF all
  <1>3. n \in Nat /\ DOMAIN all = 1 .. n
    BY <1>1 DEF FamilyList
  <1>4. I \in SUBSET (1 .. n) /\ I \in SUBSET Nat
    BY <1>3
  <1>5. IsFiniteSet(I)
    <2>1. 1 \in Int /\ n \in Int
      BY <1>3
    <2>2. IsFiniteSet(1 .. n)
      BY <2>1, FS_Interval
    <2> HIDE DEF I
    <2> QED
      BY <1>4, <2>2, FS_Subset
  <1>6. ASSUME NEW i \in I
        PROVE  \E q \in Quals, t \in Times :
                 /\ all[i].key = cellKey(r, f, q, t) /\ all[i].qual = q /\ IsNewest(e, r, f, q, t)
                 /\ found(all[i]) = CellOf(e, r, f, q) /\ found(all[i]) \in C
    <2>1. i \in 1 .. n /\ all[i].seen = 1
      BY <1>4
    <2>2. PICK q \in Quals, t \in Times : all[i].key = cellKey(r, f, q, t) /\ all[i].qual = q
      BY <1>1, <2>1 DEF FamilyList
    <2>3. IsNewest(e, r, f, q, t)
      BY <1>1, <2>1, <2>2, SeenFirstIsNewest
    <2>4. CellOf(e, r, f, q) = CellAt(e, cellKey(r, f, q, t), q) /\ CellOf(e, r, f, q) # NoCell
      BY <2>3, CellMeans
    <2>5. found(all[i]) = CellOf(e, r, f, q)
      BY <2>2, <2>4
    <2> QED
      BY <2>2, <2>3, <2>4, <2>5
  <1>7. ASSUME NEW c \in C PROVE \E i \in I : found(all[i]) = c
    <2>1. PICK q \in Quals : c = CellOf(e, r, f, q) /\ c # NoCell
      OBVIOUS
    <2>2. PICK t \in Times : IsNewest(e, r, f, q, t)
      BY <2>1, CellMeans
    <2>3. c = CellAt(e, cellKey(r, f, q, t), q)
      BY <2>1, <2>2, CellMeans
    <2>4. PICK i \in 1 .. n : all[i].key = cellKey(r, f, q, t)
      BY <1>1, <2>2 DEF FamilyList, IsNewest, Held
    <2>5. all[i].seen = 1
      BY <1>1, <2>2, <2>4, SeenFirstIsNewest
    <2>6. all[i].qual = q
      BY <1>1, <2>4, CellKeyIsInjective DEF FamilyList
    <2> QED
      BY <1>3, <2>3, <2>4, <2>5, <2>6
  <1>8. ASSUME NEW i \in I, NEW j \in I, found(all[i]) = found(all[j]) PROVE i = j
    <2>1. PICK q \in Quals, t \in Times :
            all[i].key = cellKey(r, f, q, t) /\ IsNewest(e, r, f, q, t) /\ found(all[i]) = CellOf(e, r, f, q)
      BY <1>6
    <2>2. PICK q2 \in Quals, t2 \in Times :
            all[j].key = cellKey(r, f, q2, t2) /\ IsNewest(e, r, f, q2, t2) /\ found(all[j]) = CellOf(e, r, f, q2)
      BY <1>6
    <2>3. q = q2
      <3>1. CellOf(e, r, f, q).qual = q /\ CellOf(e, r, f, q2).qual = q2
        BY <2>1, <2>2, CellMeans
      <3> HIDE DEF found
      <3> QED
        BY <1>8, <2>1, <2>2, <3>1
    <2>4. t = t2
      <3>1. t \in Nat /\ t2 \in Nat
        BY KeyParts
      <3> QED
        BY <2>1, <2>2, <2>3, <3>1 DEF IsNewest
    <2> QED
      BY <1>1, <1>4, <2>1, <2>2, <2>3, <2>4 DEF FamilyList
  <1> HIDE DEF I, found
  <1>9. h \in Bijection(I, C)
    <2>1. \A i \in I : h[i] = found(all[i]) /\ h[i] \in C
      BY <1>6
    <2>2. h \in Injection(I, C)
      BY <1>8, <2>1 DEF Injection, IsInjective
    <2>3. h \in Surjection(I, C)
      BY <1>7, <2>1 DEF Surjection
    <2> QED
      BY <2>2, <2>3 DEF Bijection
  <1>10. Cardinality(C) = m
    <2> HIDE DEF h
    <2> QED
      BY <1>5, <1>9, FS_Bijection DEF ExistsBijection
  <1>11. /\ m \in Nat /\ DOMAIN newest = 1 .. m
         /\ \A k \in 1 .. m : \E i \in I : newest[k] = all[i]
         /\ \A i \in I : \E k \in 1 .. m : newest[k] = all[i]
    BY <1>4, <1>5, PickedInOrder
  <1> HIDE DEF newest, m, h
  <1> DEFINE res == ScanFamily(e, r, f)
  <1>12. DOMAIN res = 1 .. m /\ Len(res) = m /\ \A k \in 1 .. m : res[k] = found(newest[k])
    BY <1>2, <1>11
  <1> HIDE DEF res
  <1>13. ToSet(res) = C
    <2>1. \A k \in 1 .. m : res[k] \in C
      BY <1>6, <1>11, <1>12
    <2>2. \A c \in C : \E k \in 1 .. m : res[k] = c
      BY <1>7, <1>11, <1>12
    <2> QED
      BY <1>12, <2>1, <2>2 DEF ToSet
  <1> QED
    BY <1>10, <1>12, <1>13 DEF res

\* Readers see the newest: in every state the writers, readers and collectors can reach,
\* Latest finds by its prefix scan the newest version of the cell and ScanFamily the
\* newest of each cell of the family, each once; no key of another row, family, qualifier
\* or edge falls into the scanned range (webtable.go, Latest, ScanFamily, PrefixEnd).
THEOREM ReadersSeeTheNewest ==
  StorageSpec => []ReadsAreNewest
  <1>1. StorageInv => ReadsAreNewest
    <2> SUFFICES ASSUME StorageInv PROVE ReadsAreNewest
      OBVIOUS
    <2>0. EngineOK(entries)
      BY DEF StorageInv
    <2>1. \A r \in Rows, f \in Families, q \in Quals : Latest(entries, r, f, q) = CellOf(entries, r, f, q)
      BY <2>0, LatestIsNewest
    <2>2. ASSUME NEW r \in Rows, NEW f \in Families
          PROVE  LET C == {CellOf(entries, r, f, q) : q \in Quals} \ {NoCell}
                 IN  ToSet(ScanFamily(entries, r, f)) = C /\ Len(ScanFamily(entries, r, f)) = Cardinality(C)
      BY <2>0, FamilyIsNewest
    <2> QED
      BY <2>1, <2>2 DEF ReadsAreNewest, CellOf
  <1> QED
    BY <1>1, StorageInvHolds, PTL

-----------------------------------------------------------------------------
(***************************************************************************)
(* robots.txt: the parser.                                                 *)
(***************************************************************************)

NamingLines == {line \in FileLines : line.field = "user-agent" /\ line.value # <<>>}
RulingLines == {line \in FileLines :
                  line.field = "allow" \/ (line.field = "disallow" /\ line.value # <<>>)}
DelayLines == {line \in FileLines : line.field = "crawl-delay" /\ line.value >= 0}

Rules == [allow : BOOLEAN, pattern : Patterns]
Groups == [agents : Seq(Seq(Nat)), rules : Seq(Rules), crawlDelay : Int, hasDelay : BOOLEAN]

\* The agent lines among the first n lines, and the lines that end an agent list.
AgentsOf(fl) == {i \in 1 .. Len(fl) : fl[i].field = "user-agent"}
RulesOf(fl) == {i \in 1 .. Len(fl) : fl[i].field \in {"allow", "disallow", "crawl-delay"}}

\* Line i of n lines belongs to group of[i] of m, 0 for none: agents A open a group
\* when a rule of R has come since the last of them.
Grouped(of, n, A, R, m, st) ==
  /\ of \in [1 .. n -> 0 .. m]
  /\ IF n = 0 THEN m = 0 ELSE of[n] = m
  /\ \A i, k \in 1 .. n : i <= k => of[i] <= of[k]
  /\ \A j \in A : of[j] >= 1
  /\ \A j \in A : \A i \in j + 1 .. n :
       of[i] = of[j] <=> ~\E r \in R, a \in A : j < r /\ r < a /\ a <= i
  /\ \A r \in R, j \in A : r < j => of[r] # of[j]
  /\ st <=> m >= 1 /\ \E r \in R : of[r] = m

\* The lines of kind L that belong to group g.
Kept(of, fl, g, L) == {i \in 1 .. Len(fl) : of[i] = g /\ fl[i] \in L}

ruleOf(line) == [allow |-> line.field = "allow", pattern |-> line.value]

\* The group holds what its lines say.
GroupIs(of, fl, g, gr) ==
  /\ ToSet(gr.agents) = {fl[i].value : i \in Kept(of, fl, g, NamingLines)}
  /\ ToSet(gr.rules) = {ruleOf(fl[i]) : i \in Kept(of, fl, g, RulingLines)}
  /\ gr.hasDelay <=> Kept(of, fl, g, DelayLines) # {}
  /\ gr.hasDelay => \E i \in Kept(of, fl, g, DelayLines) :
                      fl[i].value = gr.crawlDelay /\ \A k \in Kept(of, fl, g, DelayLines) : k <= i

ParseInv ==
  /\ file \in Seq(FileLines)
  /\ groups \in Seq(Groups)
  /\ startedRules \in BOOLEAN
  /\ \E of \in [1 .. Len(file) -> 0 .. Len(groups)] :
       /\ Grouped(of, Len(file), AgentsOf(file), RulesOf(file), Len(groups), startedRules)
       /\ \A g \in 1 .. Len(groups) : GroupIs(of, file, g, groups[g])

\* One more line belongs to group k.
Longer(of, n, k) == [i \in 1 .. n + 1 |-> IF i <= n THEN of[i] ELSE k]

\* A further agent line opens a group, or joins the one that has no rule yet.
LEMMA AgentJoins ==
  ASSUME NEW n \in Nat, NEW m \in Nat, NEW A \in SUBSET (1 .. n), NEW R \in SUBSET (1 .. n),
         NEW of, NEW st \in BOOLEAN, Grouped(of, n, A, R, m, st), A \cap R = {}
  PROVE  LET k == IF m = 0 \/ st THEN m + 1 ELSE m
         IN  Grouped(Longer(of, n, k), n + 1, A \cup {n + 1}, R, k, FALSE)
  <1> DEFINE k == IF m = 0 \/ st THEN m + 1 ELSE m
             f == Longer(of, n, k)
             B == A \cup {n + 1}
             between(j, i) == \E r \in R, a \in B : j < r /\ r < a /\ a <= i
  <1>1. /\ of \in [1 .. n -> 0 .. m]
        /\ IF n = 0 THEN m = 0 ELSE of[n] = m
        /\ \A i, e \in 1 .. n : i <= e => of[i] <= of[e]
        /\ \A j \in A : of[j] >= 1
        /\ \A j \in A : \A i \in j + 1 .. n :
             of[i] = of[j] <=> ~\E r \in R, a \in A : j < r /\ r < a /\ a <= i
        /\ \A r \in R, j \in A : r < j => of[r] # of[j]
        /\ st <=> m >= 1 /\ \E r \in R : of[r] = m
    BY DEF Grouped
  <1>2. k \in Nat /\ k >= 1 /\ m <= k
    OBVIOUS
  <1>3. f \in [1 .. n + 1 -> 0 .. k] /\ f[n + 1] = k /\ \A i \in 1 .. n : f[i] = of[i] /\ of[i] \in 0 .. m
    BY <1>1, <1>2 DEF Longer
  <1>4. k = m => \A r \in R : of[r] # k
    BY <1>1
  <1> HIDE DEF f
  <1>5. ASSUME NEW i \in 1 .. n + 1, NEW e \in 1 .. n + 1, i <= e PROVE f[i] <= f[e]
    <2>1. CASE e = n + 1
      BY <1>3, <2>1
    <2>2. CASE e # n + 1
      <3>1. i \in 1 .. n /\ e \in 1 .. n
        BY <1>5, <2>2
      <3> QED
        BY <1>1, <1>3, <1>5, <3>1
    <2> QED
      BY <2>1, <2>2
  <1>6. ASSUME NEW j \in B PROVE f[j] >= 1
    BY <1>1, <1>2, <1>3
  <1>7. ASSUME NEW j \in B, NEW i \in j + 1 .. n + 1 PROVE f[i] = f[j] <=> ~between(j, i)
    <2>1. j \in A /\ j \in 1 .. n /\ of[j] >= 1
      BY <1>1
    <2>2. CASE i \in 1 .. n
      <3>1. between(j, i) <=> \E r \in R, a \in A : j < r /\ r < a /\ a <= i
        BY <2>2
      <3>2. i \in j + 1 .. n
        BY <2>1, <2>2
      <3>3. of[i] = of[j] <=> ~\E r \in R, a \in A : j < r /\ r < a /\ a <= i
        BY <1>1, <2>1, <3>2
      <3>4. f[i] = of[i] /\ f[j] = of[j]
        BY <1>3, <2>1, <2>2
      <3> HIDE DEF between
      <3> QED
        BY <3>1, <3>3, <3>4
    <2>3. CASE i = n + 1
      <3>1. between(j, n + 1) <=> \E r \in R : j < r
        <4>1. ASSUME NEW r \in R, j < r PROVE between(j, n + 1)
          <5>1. r < n + 1
            OBVIOUS
          <5> QED
            BY <4>1, <5>1
        <4> QED
          BY <4>1
      <3>2. CASE k = m
        <4>1. ASSUME NEW r \in R, j < r PROVE of[j] # m
          <5>1. of[j] <= of[r] /\ of[r] \in 0 .. m /\ of[r] # m
            BY <1>1, <1>3, <1>4, <2>1, <3>2, <4>1
          <5> QED
            BY <5>1
        <4>2. ASSUME of[j] # m PROVE \E r \in R : j < r
          <5>1. n \in 1 .. n /\ of[n] = m /\ j # n
            BY <1>1, <2>1, <4>2
          <5>2. n \in j + 1 .. n
            BY <2>1, <5>1
          <5> QED
            BY <1>1, <2>1, <4>2, <5>1, <5>2
        <4> QED
          BY <1>3, <2>1, <2>3, <3>1, <3>2, <4>1, <4>2
      <3>3. CASE k # m
        <4>1. f[i] # f[j]
          BY <1>2, <1>3, <2>1, <2>3, <3>3
        <4>2. \E r \in R : j < r
          <5>1. m >= 1 /\ st
            BY <1>3, <2>1, <3>3
          <5>2. PICK r \in R : of[r] = m
            BY <1>1, <5>1
          <5>3. CASE r < j
            <6>1. of[r] # of[j] /\ of[r] <= of[j] /\ of[j] \in 0 .. m
              BY <1>1, <1>3, <2>1, <5>3
            <6> QED
              BY <5>2, <6>1
          <5>4. r # j
            BY <2>1
          <5> QED
            BY <2>1, <5>3, <5>4
        <4> QED
          BY <2>3, <3>1, <4>1, <4>2
      <3> QED
        BY <3>2, <3>3
    <2> QED
      BY <2>1, <2>2, <2>3
  <1>8. ASSUME NEW r \in R, NEW j \in B, r < j PROVE f[r] # f[j]
    <2>1. CASE j = n + 1
      <3>1. f[r] = of[r] /\ of[r] \in 0 .. m
        BY <1>3
      <3> QED
        BY <1>2, <1>3, <1>4, <2>1, <3>1
    <2>2. CASE j # n + 1
      BY <1>1, <1>3, <1>8, <2>2
    <2> QED
      BY <2>1, <2>2
  <1>9. ~\E r \in R : f[r] = k
    BY <1>2, <1>3, <1>4
  <1> HIDE DEF k
  <1>10. Grouped(f, n + 1, B, R, k, FALSE)
    BY <1>2, <1>3, <1>5, <1>6, <1>7, <1>8, <1>9 DEF Grouped
  <1> QED
    BY <1>10 DEF f, k

\* Any other line belongs to the last group.
LEMMA OtherJoins ==
  ASSUME NEW n \in Nat, NEW m \in Nat, NEW A \in SUBSET (1 .. n), NEW R \in SUBSET (1 .. n),
         NEW of, NEW st \in BOOLEAN, Grouped(of, n, A, R, m, st), A \cap R = {},
         NEW rule \in BOOLEAN, NEW Q, Q = IF rule THEN R \cup {n + 1} ELSE R,
         NEW after \in BOOLEAN, after <=> st \/ (rule /\ m >= 1)
  PROVE  Grouped(Longer(of, n, m), n + 1, A, Q, m, after)
  <1> DEFINE f == Longer(of, n, m)
  <1>1. /\ of \in [1 .. n -> 0 .. m]
        /\ IF n = 0 THEN m = 0 ELSE of[n] = m
        /\ \A i, e \in 1 .. n : i <= e => of[i] <= of[e]
        /\ \A j \in A : of[j] >= 1
        /\ \A j \in A : \A i \in j + 1 .. n :
             of[i] = of[j] <=> ~\E r \in R, a \in A : j < r /\ r < a /\ a <= i
        /\ \A r \in R, j \in A : r < j => of[r] # of[j]
        /\ st <=> m >= 1 /\ \E r \in R : of[r] = m
    BY DEF Grouped
  <1>2. f \in [1 .. n + 1 -> 0 .. m] /\ f[n + 1] = m /\ \A i \in 1 .. n : f[i] = of[i] /\ of[i] \in 0 .. m
    BY <1>1 DEF Longer
  <1> HIDE DEF f
  <1>3. \A i \in A : i \in 1 .. n
    OBVIOUS
  <1>4. \A r \in Q : r \in R \/ (rule /\ r = n + 1)
    OBVIOUS
  <1>5. ASSUME NEW i \in 1 .. n + 1, NEW e \in 1 .. n + 1, i <= e PROVE f[i] <= f[e]
    <2>1. CASE e = n + 1
      BY <1>2, <2>1
    <2>2. CASE e # n + 1
      <3>1. i \in 1 .. n /\ e \in 1 .. n
        BY <1>5, <2>2
      <3> QED
        BY <1>1, <1>2, <1>5, <3>1
    <2> QED
      BY <2>1, <2>2
  <1>6. ASSUME NEW j \in A PROVE f[j] >= 1
    BY <1>1, <1>2, <1>3
  <1>7. ASSUME NEW j \in A, NEW i \in j + 1 .. n + 1
        PROVE  f[i] = f[j] <=> ~\E r \in Q, a \in A : j < r /\ r < a /\ a <= i
    <2>1. j \in 1 .. n /\ f[j] = of[j] /\ of[j] \in 0 .. m
      BY <1>2
    <2>2. ASSUME NEW e
          PROVE  (\E r \in Q, a \in A : j < r /\ r < a /\ a <= e) <=>
                   \E r \in R, a \in A : j < r /\ r < a /\ a <= e
      <3>1. \A r \in Q, a \in A : r < a => r \in R
        <4>1. \A a \in A : ~(n + 1 < a)
          OBVIOUS
        <4> QED
          BY <1>4, <4>1
      <3>2. R \subseteq Q
        OBVIOUS
      <3> QED
        BY <3>1, <3>2
    <2>3. CASE i \in 1 .. n
      <3>1. i \in j + 1 .. n /\ f[i] = of[i]
        BY <1>2, <2>1, <2>3
      <3>2. of[i] = of[j] <=> ~\E r \in R, a \in A : j < r /\ r < a /\ a <= i
        BY <1>1, <3>1
      <3> QED
        BY <2>1, <2>2, <3>1, <3>2
    <2>4. CASE i = n + 1
      <3>1. (\E r \in R, a \in A : j < r /\ r < a /\ a <= n + 1) <=>
              \E r \in R, a \in A : j < r /\ r < a /\ a <= n
        <4>1. \A a \in A : a <= n + 1 <=> a <= n
          BY <1>3
        <4> QED
          BY <4>1
      <3>2. of[n] = m
        BY <1>1, <2>1
      <3>3. CASE j = n
        <4>1. ~\E r \in R, a \in A : j < r /\ r < a /\ a <= n
          BY <3>3
        <4> QED
          BY <1>2, <2>1, <2>2, <2>4, <3>1, <3>2, <3>3, <4>1
      <3>4. CASE j # n
        <4>1. n \in j + 1 .. n
          BY <2>1, <3>4
        <4>2. of[n] = of[j] <=> ~\E r \in R, a \in A : j < r /\ r < a /\ a <= n
          BY <1>1, <4>1
        <4> QED
          BY <1>2, <2>1, <2>2, <2>4, <3>1, <3>2, <4>2
      <3> QED
        BY <3>3, <3>4
    <2> QED
      BY <2>1, <2>3, <2>4
  <1>8. ASSUME NEW r \in Q, NEW j \in A, r < j PROVE f[r] # f[j]
    <2>1. r \in R /\ r \in 1 .. n /\ j \in 1 .. n
      BY <1>3, <1>4, <1>8
    <2> QED
      BY <1>1, <1>2, <1>8, <2>1
  <1>9. after <=> m >= 1 /\ \E r \in Q : f[r] = m
    <2>1. \A r \in R : f[r] = of[r]
      BY <1>2
    <2>2. CASE rule
      BY <1>1, <1>2, <2>1, <2>2
    <2>3. CASE ~rule
      BY <1>1, <2>1, <2>3
    <2> QED
      BY <2>2, <2>3
  <1>10. n + 1 \in 1 .. n + 1 /\ n + 1 # 0
    OBVIOUS
  <1>11. Grouped(f, n + 1, A, Q, m, after)
    BY <1>2, <1>5, <1>6, <1>7, <1>8, <1>9, <1>10 DEF Grouped
  <1> QED
    BY <1>11 DEF f

\* The lines a file keeps, with one line more.
LEMMA KeptGrows ==
  ASSUME NEW fl \in Seq(FileLines), NEW line \in FileLines, NEW of, NEW k, NEW g, NEW L
  PROVE  LET more == Append(fl, line)
             n == Len(fl)
         IN  /\ Kept(Longer(of, n, k), more, g, L) =
                  Kept(of, fl, g, L) \cup (IF k = g /\ line \in L THEN {n + 1} ELSE {})
             /\ \A i \in Kept(of, fl, g, L) : more[i] = fl[i] /\ i \in 1 .. n
             /\ more[n + 1] = line
  <1> DEFINE more == Append(fl, line)
             n == Len(fl)
             f == Longer(of, n, k)
  <1>1. n \in Nat /\ Len(more) = n + 1 /\ more[n + 1] = line /\ \A i \in 1 .. n : more[i] = fl[i]
    OBVIOUS
  <1>2. f[n + 1] = k /\ \A i \in 1 .. n : f[i] = of[i]
    BY <1>1 DEF Longer
  <1>3. \A i : i \in 1 .. n + 1 <=> i \in 1 .. n \/ i = n + 1
    BY <1>1
  <1> HIDE DEF more, n, f
  <1>4. Kept(f, more, g, L) = Kept(of, fl, g, L) \cup (IF k = g /\ line \in L THEN {n + 1} ELSE {})
    <2>1. \A i : i \in Kept(f, more, g, L) <=> i \in 1 .. n + 1 /\ f[i] = g /\ more[i] \in L
      BY <1>1 DEF Kept
    <2>2. \A i : i \in Kept(of, fl, g, L) <=> i \in 1 .. n /\ of[i] = g /\ fl[i] \in L
      BY DEF Kept, n
    <2> QED
      BY <1>1, <1>2, <1>3, <2>1, <2>2
  <1>5. \A i \in Kept(of, fl, g, L) : more[i] = fl[i] /\ i \in 1 .. n
    BY <1>1 DEF Kept, n
  <1> QED
    BY <1>1, <1>4, <1>5 DEF more, n, f

\* What a line adds to the members of a list.
LEMMA ListGrows ==
  ASSUME NEW S, NEW s \in Seq(S), NEW x \in S
  PROVE  ToSet(Append(s, x)) = ToSet(s) \cup {x}
  <1>1. Len(Append(s, x)) = Len(s) + 1 /\ Append(s, x)[Len(s) + 1] = x /\ Len(s) \in Nat
        /\ \A i \in 1 .. Len(s) : Append(s, x)[i] = s[i]
    OBVIOUS
  <1>2. DOMAIN Append(s, x) = 1 .. Len(s) + 1 /\ DOMAIN s = 1 .. Len(s)
    OBVIOUS
  <1>3. \A i : i \in 1 .. Len(s) + 1 <=> i \in 1 .. Len(s) \/ i = Len(s) + 1
    BY <1>1
  <1> DEFINE t == Append(s, x)
  <1> HIDE DEF t
  <1>4. ToSet(t) = {t[i] : i \in 1 .. Len(s) + 1}
    BY <1>2 DEF ToSet, t
  <1>5. ToSet(s) = {s[i] : i \in 1 .. Len(s)}
    BY <1>2 DEF ToSet
  <1>6. t[Len(s) + 1] = x /\ \A i \in 1 .. Len(s) : t[i] = s[i]
    BY <1>1 DEF t
  <1>7. ToSet(t) = ToSet(s) \cup {x}
    BY <1>3, <1>4, <1>5, <1>6
  <1> QED
    BY <1>7 DEF t

\* What a line does to a group, when it is that group's.
Touched(gr, more, mine, line) ==
  /\ more.agents = IF mine /\ line \in NamingLines THEN Append(gr.agents, line.value) ELSE gr.agents
  /\ more.rules = IF mine /\ line \in RulingLines THEN Append(gr.rules, ruleOf(line)) ELSE gr.rules
  /\ IF mine /\ line \in DelayLines THEN more.hasDelay = TRUE /\ more.crawlDelay = line.value
     ELSE more.hasDelay = gr.hasDelay /\ more.crawlDelay = gr.crawlDelay

\* The lines have the shapes the parser leaves.
LEMMA LineShapes ==
  /\ \A line \in NamingLines : line.value \in Seq(Nat)
  /\ \A line \in RulingLines : ruleOf(line) \in Rules /\ line.value \in Seq(Nat)
  /\ \A line \in DelayLines : line.value \in Int
  <1>1. ASSUME NEW line \in NamingLines PROVE line.value \in Seq(Nat)
    BY RobotsAssumption DEF NamingLines
  <1>2. ASSUME NEW line \in RulingLines PROVE ruleOf(line) \in Rules /\ line.value \in Seq(Nat)
    <2>1. line \in FileLines /\ line.field \in {"allow", "disallow"}
      BY DEF RulingLines
    <2>2. line.value \in Patterns
      BY <2>1 DEF Patterns
    <2>3. line.value \in Seq(Nat)
      BY <2>1, RobotsAssumption
    <2> QED
      BY <2>2, <2>3 DEF Rules, ruleOf
  <1>3. ASSUME NEW line \in DelayLines PROVE line.value \in Int
    BY RobotsAssumption DEF DelayLines
  <1> QED
    BY <1>1, <1>2, <1>3

\* A group that holds what its lines say still does with one line more.
LEMMA GroupGrows ==
  ASSUME NEW fl \in Seq(FileLines), NEW line \in FileLines, NEW of, NEW k, NEW g,
         NEW gr \in Groups, NEW more \in Groups, GroupIs(of, fl, g, gr),
         Touched(gr, more, k = g, line)
  PROVE  GroupIs(Longer(of, Len(fl), k), Append(fl, line), g, more)
  <1> DEFINE n == Len(fl)
             lines == Append(fl, line)
             f == Longer(of, n, k)
             K(L) == Kept(of, fl, g, L)
             M(L) == Kept(f, lines, g, L)
  <1>1. /\ \A L : M(L) = K(L) \cup (IF k = g /\ line \in L THEN {n + 1} ELSE {})
        /\ \A L : \A i \in K(L) : lines[i] = fl[i] /\ i \in 1 .. n
        /\ lines[n + 1] = line
    BY KeptGrows
  <1>2. gr.agents \in Seq(Seq(Nat)) /\ gr.rules \in Seq(Rules) /\ n \in Nat
    BY DEF Groups
  <1>3. /\ ToSet(gr.agents) = {fl[i].value : i \in K(NamingLines)}
        /\ ToSet(gr.rules) = {ruleOf(fl[i]) : i \in K(RulingLines)}
        /\ gr.hasDelay <=> K(DelayLines) # {}
        /\ gr.hasDelay => \E i \in K(DelayLines) :
                            fl[i].value = gr.crawlDelay /\ \A e \in K(DelayLines) : e <= i
    BY DEF GroupIs
  <1> HIDE DEF lines, f, n, K, M
  <1>4. ToSet(more.agents) = {lines[i].value : i \in M(NamingLines)}
    <2>1. {lines[i].value : i \in K(NamingLines)} = {fl[i].value : i \in K(NamingLines)}
      BY <1>1
    <2>2. CASE k = g /\ line \in NamingLines
      <3>1. more.agents = Append(gr.agents, line.value) /\ line.value \in Seq(Nat)
        BY <2>2, LineShapes DEF Touched
      <3>2. ToSet(more.agents) = ToSet(gr.agents) \cup {line.value}
        BY <1>2, <3>1, ListGrows
      <3>3. M(NamingLines) = K(NamingLines) \cup {n + 1}
        BY <1>1, <2>2
      <3> QED
        BY <1>1, <1>3, <2>1, <3>2, <3>3
    <2>3. CASE ~(k = g /\ line \in NamingLines)
      <3>1. more.agents = gr.agents
        BY <2>3 DEF Touched
      <3>2. M(NamingLines) = K(NamingLines)
        BY <1>1, <2>3
      <3> QED
        BY <1>3, <2>1, <3>1, <3>2
    <2> QED
      BY <2>2, <2>3
  <1>5. ToSet(more.rules) = {ruleOf(lines[i]) : i \in M(RulingLines)}
    <2>1. {ruleOf(lines[i]) : i \in K(RulingLines)} = {ruleOf(fl[i]) : i \in K(RulingLines)}
      BY <1>1
    <2>2. CASE k = g /\ line \in RulingLines
      <3>1. more.rules = Append(gr.rules, ruleOf(line)) /\ ruleOf(line) \in Rules
        BY <2>2, LineShapes DEF Touched
      <3>2. ToSet(more.rules) = ToSet(gr.rules) \cup {ruleOf(line)}
        BY <1>2, <3>1, ListGrows
      <3>3. M(RulingLines) = K(RulingLines) \cup {n + 1}
        BY <1>1, <2>2
      <3> QED
        BY <1>1, <1>3, <2>1, <3>2, <3>3
    <2>3. CASE ~(k = g /\ line \in RulingLines)
      <3>1. more.rules = gr.rules
        BY <2>3 DEF Touched
      <3>2. M(RulingLines) = K(RulingLines)
        BY <1>1, <2>3
      <3> QED
        BY <1>3, <2>1, <3>1, <3>2
    <2> QED
      BY <2>2, <2>3
  <1>6. /\ more.hasDelay <=> M(DelayLines) # {}
        /\ more.hasDelay => \E i \in M(DelayLines) :
                              lines[i].value = more.crawlDelay /\ \A e \in M(DelayLines) : e <= i
    <2>1. CASE k = g /\ line \in DelayLines
      <3>1. more.hasDelay = TRUE /\ more.crawlDelay = line.value
        BY <2>1 DEF Touched
      <3>2. M(DelayLines) = K(DelayLines) \cup {n + 1}
        BY <1>1, <2>1
      <3>3. \A e \in M(DelayLines) : e <= n + 1
        BY <1>1, <1>2, <3>2
      <3> QED
        BY <1>1, <3>1, <3>2, <3>3
    <2>2. CASE ~(k = g /\ line \in DelayLines)
      <3>1. more.hasDelay = gr.hasDelay /\ more.crawlDelay = gr.crawlDelay
        BY <2>2 DEF Touched
      <3>2. M(DelayLines) = K(DelayLines)
        BY <1>1, <2>2
      <3> QED
        BY <1>1, <1>3, <3>1, <3>2
    <2> QED
      BY <2>1, <2>2
  <1> QED
    BY <1>4, <1>5, <1>6 DEF GroupIs, M, f, lines, n

\* A file with one line more, and a group as yet without lines.
LEMMA FileGrows ==
  ASSUME NEW fl \in Seq(FileLines), NEW line \in FileLines
  PROVE  LET n == Len(fl) IN
         /\ Append(fl, line) \in Seq(FileLines) /\ Len(Append(fl, line)) = n + 1 /\ n \in Nat
         /\ AgentsOf(fl) \in SUBSET (1 .. n) /\ RulesOf(fl) \in SUBSET (1 .. n)
         /\ AgentsOf(fl) \cap RulesOf(fl) = {}
         /\ AgentsOf(Append(fl, line)) =
              IF line.field = "user-agent" THEN AgentsOf(fl) \cup {n + 1} ELSE AgentsOf(fl)
         /\ RulesOf(Append(fl, line)) =
              IF line.field \in {"allow", "disallow", "crawl-delay"} THEN RulesOf(fl) \cup {n + 1}
              ELSE RulesOf(fl)
  <1> DEFINE more == Append(fl, line)
             n == Len(fl)
  <1>1. n \in Nat /\ Len(more) = n + 1 /\ more[n + 1] = line /\ \A i \in 1 .. n : more[i] = fl[i]
    OBVIOUS
  <1>2. more \in Seq(FileLines)
    OBVIOUS
  <1>3. \A i : i \in 1 .. n + 1 <=> i \in 1 .. n \/ i = n + 1
    BY <1>1
  <1> HIDE DEF more, n
  <1>4. AgentsOf(more) = IF line.field = "user-agent" THEN AgentsOf(fl) \cup {n + 1} ELSE AgentsOf(fl)
    BY <1>1, <1>3 DEF AgentsOf, n
  <1>5. RulesOf(more) = IF line.field \in {"allow", "disallow", "crawl-delay"} THEN RulesOf(fl) \cup {n + 1}
                        ELSE RulesOf(fl)
    BY <1>1, <1>3 DEF RulesOf, n
  <1>6. AgentsOf(fl) \in SUBSET (1 .. n) /\ RulesOf(fl) \in SUBSET (1 .. n) /\ AgentsOf(fl) \cap RulesOf(fl) = {}
    BY DEF AgentsOf, RulesOf, n
  <1> QED
    BY <1>1, <1>2, <1>4, <1>5, <1>6 DEF more, n

LEMMA EmptyGroupIs ==
  ASSUME NEW fl \in Seq(FileLines), NEW m \in Nat, NEW of \in [1 .. Len(fl) -> 0 .. m]
  PROVE  emptyGroup \in Groups /\ GroupIs(of, fl, m + 1, emptyGroup)
  <1>1. emptyGroup \in Groups
    BY DEF Groups, emptyGroup
  <1>2. ASSUME NEW L PROVE Kept(of, fl, m + 1, L) = {}
    BY DEF Kept
  <1>3. ToSet(<<>>) = {}
    BY DEF ToSet
  <1> QED
    BY <1>1, <1>2, <1>3 DEF GroupIs, emptyGroup

\* What the invariant needs of a line, whatever its field.
LEMMA ParseStep ==
  ASSUME ParseInv, NEW line \in FileLines, file' = Append(file, line), NEW gs,
         NEW agent \in BOOLEAN, agent <=> line.field = "user-agent",
         NEW rule \in BOOLEAN, rule <=> line.field \in {"allow", "disallow", "crawl-delay"},
         gs = IF agent /\ (groups = <<>> \/ startedRules) THEN Append(groups, emptyGroup) ELSE groups,
         startedRules' = IF agent THEN FALSE ELSE startedRules \/ (rule /\ groups # <<>>),
         groups' \in Seq(Groups), Len(groups') = Len(gs),
         \A g \in 1 .. Len(gs) : Touched(gs[g], groups'[g], Len(gs) = g, line)
  PROVE  ParseInv'
  <1> DEFINE n == Len(file)
             m == Len(groups)
             k == Len(gs)
  <1>1. PICK of \in [1 .. n -> 0 .. m] :
          /\ Grouped(of, n, AgentsOf(file), RulesOf(file), m, startedRules)
          /\ \A g \in 1 .. m : GroupIs(of, file, g, groups[g])
    BY DEF ParseInv
  <1>2. file \in Seq(FileLines) /\ groups \in Seq(Groups) /\ startedRules \in BOOLEAN /\ m \in Nat
    BY DEF ParseInv
  <1>3. /\ file' \in Seq(FileLines) /\ Len(file') = n + 1 /\ n \in Nat
        /\ AgentsOf(file) \in SUBSET (1 .. n) /\ RulesOf(file) \in SUBSET (1 .. n)
        /\ AgentsOf(file) \cap RulesOf(file) = {}
        /\ AgentsOf(file)' = IF agent THEN AgentsOf(file) \cup {n + 1} ELSE AgentsOf(file)
        /\ RulesOf(file)' = IF rule THEN RulesOf(file) \cup {n + 1} ELSE RulesOf(file)
    <2>1. AgentsOf(file)' = AgentsOf(file') /\ RulesOf(file)' = RulesOf(file')
      BY DEF AgentsOf, RulesOf
    <2> QED
      BY <1>2, <2>1, FileGrows
  <1>4. m = 0 <=> groups = <<>>
    BY <1>2
  <1>5. k = IF agent /\ (m = 0 \/ startedRules) THEN m + 1 ELSE m
    BY <1>2, <1>4
  <1>6. ASSUME NEW g \in 1 .. k PROVE gs[g] \in Groups /\ GroupIs(of, file, g, gs[g])
    <2>1. emptyGroup \in Groups /\ GroupIs(of, file, m + 1, emptyGroup)
      BY <1>2, EmptyGroupIs
    <2>2. CASE g \in 1 .. m
      <3>1. gs[g] = groups[g]
        BY <1>2, <2>2
      <3> QED
        BY <1>1, <1>2, <2>2, <3>1
    <2>3. CASE g \notin 1 .. m
      <3>1. g = m + 1 /\ gs = Append(groups, emptyGroup)
        BY <1>2, <1>4, <1>5, <2>3
      <3>2. gs[g] = emptyGroup
        BY <1>2, <3>1
      <3> QED
        BY <2>1, <3>1, <3>2
    <2> QED
      BY <2>2, <2>3
  <1> DEFINE f == Longer(of, n, k)
  <1>7. k \in Nat /\ m <= k
    BY <1>2, <1>5
  <1>8. ~(agent /\ rule)
    OBVIOUS
  <1> HIDE DEF n, m, k
  <1>9. Grouped(f, n + 1, AgentsOf(file)', RulesOf(file)', k, startedRules')
    <2>1. CASE agent
      <3>1. k = IF m = 0 \/ startedRules THEN m + 1 ELSE m
        BY <1>5, <2>1
      <3>2. startedRules' = FALSE
        BY <2>1
      <3>3. AgentsOf(file)' = AgentsOf(file) \cup {n + 1} /\ RulesOf(file)' = RulesOf(file)
        BY <1>3, <1>8, <2>1
      <3>4. Grouped(f, n + 1, AgentsOf(file) \cup {n + 1}, RulesOf(file), k, FALSE)
        <4>1. LET e == IF m = 0 \/ startedRules THEN m + 1 ELSE m
              IN  Grouped(Longer(of, n, e), n + 1, AgentsOf(file) \cup {n + 1}, RulesOf(file), e, FALSE)
          BY <1>1, <1>2, <1>3, AgentJoins, Zenon
        <4> QED
          BY <3>1, <4>1, Zenon
      <3> QED
        BY <3>2, <3>3, <3>4
    <2>2. CASE ~agent
      <3>1. k = m /\ AgentsOf(file)' = AgentsOf(file)
        BY <1>3, <1>5, <2>2
      <3>2. startedRules' = (startedRules \/ (rule /\ m >= 1))
        <4>1. groups # <<>> <=> m >= 1
          BY <1>2, <1>4
        <4> QED
          BY <2>2, <4>1
      <3>3. Grouped(Longer(of, n, m), n + 1, AgentsOf(file), RulesOf(file)', m, startedRules')
        <4> DEFINE A == AgentsOf(file)
                   R == RulesOf(file)
        <4>1. Grouped(of, n, A, R, m, startedRules) /\ A \in SUBSET (1 .. n) /\ R \in SUBSET (1 .. n)
              /\ A \cap R = {}
          BY <1>1, <1>3
        <4> HIDE DEF A, R
        <4>2. n \in Nat /\ m \in Nat /\ startedRules \in BOOLEAN /\ rule \in BOOLEAN
          BY <1>2, <1>3
        <4>3. RulesOf(file)' = IF rule THEN R \cup {n + 1} ELSE R
          BY <1>3 DEF R
        <4>4. startedRules' \in BOOLEAN /\ (startedRules' <=> startedRules \/ (rule /\ m >= 1))
          BY <3>2, <4>2
        <4>5. Grouped(Longer(of, n, m), n + 1, A, RulesOf(file)', m, startedRules')
          <5>1. ASSUME NEW Q, Q = IF rule THEN R \cup {n + 1} ELSE R,
                       NEW after \in BOOLEAN, after <=> startedRules \/ (rule /\ m >= 1)
                PROVE  Grouped(Longer(of, n, m), n + 1, A, Q, m, after)
            BY <4>1, <4>2, <5>1, OtherJoins
          <5> QED
            BY <4>3, <4>4, <5>1
        <4> QED
          BY <4>5 DEF A
      <3> QED
        BY <1>3, <3>1, <3>2, <3>3
    <2> QED
      BY <2>1, <2>2
  <1>10. ASSUME NEW g \in 1 .. k PROVE GroupIs(f, file', g, groups'[g])
    <2>1. Touched(gs[g], groups'[g], k = g, line)
      BY DEF k
    <2>2. groups'[g] \in Groups
      BY <1>7 DEF k
    <2>3. GroupIs(Longer(of, Len(file), k), Append(file, line), g, groups'[g])
      BY <1>2, <1>6, <2>1, <2>2, GroupGrows
    <2> QED
      BY <2>3 DEF n
  <1>11. f \in [1 .. Len(file') -> 0 .. Len(groups')]
    <2>1. ASSUME NEW i \in 1 .. n PROVE of[i] \in 0 .. k
      BY <1>1, <1>2, <1>7
    <2>2. f \in [1 .. n + 1 -> 0 .. k]
      BY <1>3, <1>7, <2>1 DEF Longer
    <2> QED
      BY <1>3, <2>2 DEF k
  <1>12. startedRules' \in BOOLEAN
    BY <1>2
  <1>13. Len(groups') = k /\ Len(file') = n + 1
    BY <1>3 DEF k
  <1> HIDE DEF f
  <1>14. /\ Grouped(f, Len(file'), AgentsOf(file'), RulesOf(file'), Len(groups'), startedRules')
         /\ \A g \in 1 .. Len(groups') : GroupIs(f, file', g, groups'[g])
    <2>1. AgentsOf(file)' = AgentsOf(file') /\ RulesOf(file)' = RulesOf(file')
      BY DEF AgentsOf, RulesOf
    <2> QED
      BY <1>9, <1>10, <1>13, <2>1
  <1> QED
    BY <1>3, <1>11, <1>12, <1>14 DEF ParseInv

\* What the parser does to a group, field by field.
LEMMA GroupEdits ==
  ASSUME NEW gr \in Groups
  PROVE  /\ \A v \in Seq(Nat) :
              LET more == [gr EXCEPT !.agents = Append(gr.agents, v)]
              IN  /\ more \in Groups /\ more.agents = Append(gr.agents, v) /\ more.rules = gr.rules
                  /\ more.hasDelay = gr.hasDelay /\ more.crawlDelay = gr.crawlDelay
         /\ \A r \in Rules :
              LET more == [gr EXCEPT !.rules = Append(gr.rules, r)]
              IN  /\ more \in Groups /\ more.agents = gr.agents /\ more.rules = Append(gr.rules, r)
                  /\ more.hasDelay = gr.hasDelay /\ more.crawlDelay = gr.crawlDelay
         /\ \A d \in Int :
              LET more == [gr EXCEPT !.crawlDelay = d, !.hasDelay = TRUE]
              IN  /\ more \in Groups /\ more.agents = gr.agents /\ more.rules = gr.rules
                  /\ more.hasDelay = TRUE /\ more.crawlDelay = d
  <1>1. /\ gr.agents \in Seq(Seq(Nat)) /\ gr.rules \in Seq(Rules) /\ gr.crawlDelay \in Int
        /\ gr.hasDelay \in BOOLEAN
    BY DEF Groups
  <1>2. ASSUME NEW v \in Seq(Nat)
        PROVE  LET more == [gr EXCEPT !.agents = Append(gr.agents, v)]
               IN  /\ more \in Groups /\ more.agents = Append(gr.agents, v) /\ more.rules = gr.rules
                   /\ more.hasDelay = gr.hasDelay /\ more.crawlDelay = gr.crawlDelay
    <2>1. Append(gr.agents, v) \in Seq(Seq(Nat))
      BY <1>1
    <2> QED
      BY <1>1, <2>1 DEF Groups
  <1>3. ASSUME NEW r \in Rules
        PROVE  LET more == [gr EXCEPT !.rules = Append(gr.rules, r)]
               IN  /\ more \in Groups /\ more.agents = gr.agents /\ more.rules = Append(gr.rules, r)
                   /\ more.hasDelay = gr.hasDelay /\ more.crawlDelay = gr.crawlDelay
    <2>1. Append(gr.rules, r) \in Seq(Rules)
      BY <1>1
    <2> QED
      BY <1>1, <2>1 DEF Groups
  <1>4. ASSUME NEW d \in Int
        PROVE  LET more == [gr EXCEPT !.crawlDelay = d, !.hasDelay = TRUE]
               IN  /\ more \in Groups /\ more.agents = gr.agents /\ more.rules = gr.rules
                   /\ more.hasDelay = TRUE /\ more.crawlDelay = d
    BY <1>1 DEF Groups
  <1> QED
    BY <1>2, <1>3, <1>4

\* A line of the last group.
LEMMA LastTouched ==
  ASSUME NEW gs \in Seq(Groups), gs # <<>>, NEW more \in Groups, NEW line \in FileLines,
         Touched(gs[Len(gs)], more, TRUE, line)
  PROVE  LET hs == [gs EXCEPT ![Len(gs)] = more]
         IN  /\ hs \in Seq(Groups) /\ Len(hs) = Len(gs)
             /\ \A g \in 1 .. Len(gs) : Touched(gs[g], hs[g], Len(gs) = g, line)
  <1> DEFINE hs == [gs EXCEPT ![Len(gs)] = more]
  <1>1. Len(gs) \in Nat \ {0}
    OBVIOUS
  <1>2. hs \in Seq(Groups) /\ Len(hs) = Len(gs)
    BY <1>1
  <1>3. ASSUME NEW g \in 1 .. Len(gs) PROVE hs[g] = IF g = Len(gs) THEN more ELSE gs[g]
    BY <1>1
  <1> HIDE DEF hs
  <1>4. ASSUME NEW g \in 1 .. Len(gs) PROVE Touched(gs[g], hs[g], Len(gs) = g, line)
    <2>1. CASE g = Len(gs)
      <3>1. hs[g] = more /\ gs[g] = gs[Len(gs)]
        BY <1>3, <2>1
      <3> QED
        BY <2>1, <3>1 DEF Touched
    <2>2. CASE g # Len(gs)
      BY <1>3, <2>2 DEF Touched
    <2> QED
      BY <2>1, <2>2
  <1> QED
    BY <1>2, <1>4 DEF hs

\* A line of no consequence.
LEMMA Untouched ==
  ASSUME NEW gs \in Seq(Groups), NEW line \in FileLines,
         gs = <<>> \/ line \notin NamingLines \cup RulingLines \cup DelayLines
  PROVE  \A g \in 1 .. Len(gs) : Touched(gs[g], gs[g], Len(gs) = g, line)
  BY DEF Touched

LEMMA ParseInvStarts == RobotsInit => ParseInv
  <1> SUFFICES ASSUME RobotsInit PROVE ParseInv
    OBVIOUS
  <1>1. file = <<>> /\ groups = <<>> /\ startedRules = FALSE
    BY DEF RobotsInit
  <1> DEFINE of == [i \in 1 .. 0 |-> 0]
  <1>2. of \in [1 .. 0 -> 0 .. 0] /\ AgentsOf(<<>>) = {} /\ RulesOf(<<>>) = {}
    BY DEF AgentsOf, RulesOf
  <1>3. Grouped(of, 0, {}, {}, 0, FALSE)
    BY <1>2 DEF Grouped
  <1>4. Len(<<>>) = 0
    OBVIOUS
  <1> HIDE DEF of
  <1>5. file \in Seq(FileLines) /\ groups \in Seq(Groups) /\ startedRules \in BOOLEAN
    <2>1. <<>> \in Seq(FileLines) /\ <<>> \in Seq(Groups) /\ FALSE \in BOOLEAN
      OBVIOUS
    <2> QED
      BY <1>1, <2>1, Zenon
  <1>6. Grouped(of, Len(file), AgentsOf(file), RulesOf(file), Len(groups), startedRules)
    BY <1>1, <1>2, <1>3, <1>4, Zenon
  <1>7. of \in [1 .. Len(file) -> 0 .. Len(groups)]
    BY <1>1, <1>2, <1>4, Zenon
  <1>8. \A g \in 1 .. Len(groups) : GroupIs(of, file, g, groups[g])
    BY <1>1, <1>4
  <1> QED
    BY <1>5, <1>6, <1>7, <1>8 DEF ParseInv

LEMMA ParseInvStays == ParseInv /\ [RobotsNext]_robotsVars => ParseInv'
  <1> SUFFICES ASSUME ParseInv, [RobotsNext]_robotsVars PROVE ParseInv'
    OBVIOUS
  <1>1. CASE UNCHANGED robotsVars
    <2>1. file' = file /\ groups' = groups /\ startedRules' = startedRules
      BY <1>1 DEF robotsVars
    <2> QED
      BY <2>1, Zenon DEF ParseInv
  <1>2. CASE RobotsNext
    <2>1. PICK line \in FileLines :
            /\ file' = Append(file, line)
            /\ \/ line.field = "user-agent" /\ UserAgentLine(line.value)
               \/ line.field = "allow" /\ RuleLine(TRUE, line.value)
               \/ line.field = "disallow" /\ RuleLine(FALSE, line.value)
               \/ line.field = "crawl-delay" /\ CrawlDelayLine(line.value)
               \/ line.field = "sitemap" /\ SitemapLine(line.value)
               \/ line.field = "none" /\ UNCHANGED <<groups, sitemaps, startedRules>>
      BY <1>2 DEF RobotsNext, Parse
    <2>2. groups \in Seq(Groups) /\ startedRules \in BOOLEAN
      BY DEF ParseInv
    <2> DEFINE agent == line.field = "user-agent"
               rule == line.field \in {"allow", "disallow", "crawl-delay"}
               gs == IF agent /\ (groups = <<>> \/ startedRules) THEN Append(groups, emptyGroup) ELSE groups
    <2>3. gs \in Seq(Groups)
      <3>1. emptyGroup \in Groups
        BY DEF Groups, emptyGroup
      <3>2. Append(groups, emptyGroup) \in Seq(Groups)
        BY <2>2, <3>1
      <3> QED
        BY <2>2, <3>2
    <2>4. ASSUME startedRules' = IF agent THEN FALSE ELSE startedRules \/ (rule /\ groups # <<>>),
                 groups' \in Seq(Groups), Len(groups') = Len(gs),
                 \A g \in 1 .. Len(gs) : Touched(gs[g], groups'[g], Len(gs) = g, line)
          PROVE  ParseInv'
      <3> HIDE DEF gs
      <3>1. gs = IF agent /\ (groups = <<>> \/ startedRules) THEN Append(groups, emptyGroup) ELSE groups
        BY DEF gs
      <3>2. agent \in BOOLEAN /\ rule \in BOOLEAN
        OBVIOUS
      <3> QED
        BY <2>1, <2>4, <3>1, <3>2, ParseStep
    <2>5. CASE line.field = "user-agent" /\ UserAgentLine(line.value)
      <3>1. gs = IF groups = <<>> \/ startedRules THEN Append(groups, emptyGroup) ELSE groups
        BY <2>5
      <3>2. startedRules' = FALSE
        BY <2>5 DEF UserAgentLine
      <3>3. groups' = IF line.value = <<>> THEN gs ELSE [gs EXCEPT ![Len(gs)].agents = Append(@, line.value)]
        BY <2>5, <3>1 DEF UserAgentLine
      <3>4. gs # <<>>
        <4>1. Append(groups, emptyGroup) # <<>>
          BY <2>2
        <4> QED
          BY <3>1, <4>1
      <3> HIDE DEF gs
      <3>5. CASE line.value = <<>>
        <4>1. line \notin NamingLines \cup RulingLines \cup DelayLines
          BY <2>5, <3>5 DEF NamingLines, RulingLines, DelayLines
        <4>2. \A g \in 1 .. Len(gs) : Touched(gs[g], groups'[g], Len(gs) = g, line)
          BY <2>3, <3>3, <3>5, <4>1, Untouched
        <4> QED
          BY <2>3, <2>4, <2>5, <3>2, <3>3, <3>5, <4>2
      <3>6. CASE line.value # <<>>
        <4> DEFINE gr == gs[Len(gs)]
                   more == [gr EXCEPT !.agents = Append(gr.agents, line.value)]
        <4>1. line \in NamingLines /\ line \notin RulingLines \cup DelayLines
          BY <2>5, <3>6 DEF NamingLines, RulingLines, DelayLines
        <4>2. line.value \in Seq(Nat)
          BY <4>1, LineShapes
        <4>3. gr \in Groups
          BY <2>3, <3>4
        <4>4. groups' = [gs EXCEPT ![Len(gs)] = more]
          BY <3>3, <3>6
        <4>5. /\ more \in Groups /\ more.agents = Append(gr.agents, line.value) /\ more.rules = gr.rules
              /\ more.hasDelay = gr.hasDelay /\ more.crawlDelay = gr.crawlDelay
          <5> HIDE DEF gr
          <5> QED
            BY <4>2, <4>3, GroupEdits
        <4> HIDE DEF more
        <4>6. Touched(gr, more, TRUE, line)
          BY <4>1, <4>5 DEF Touched
        <4>7. /\ groups' \in Seq(Groups) /\ Len(groups') = Len(gs)
              /\ \A g \in 1 .. Len(gs) : Touched(gs[g], groups'[g], Len(gs) = g, line)
          BY <2>3, <3>4, <4>4, <4>5, <4>6, LastTouched
        <4> QED
          BY <2>4, <2>5, <3>2, <4>7
      <3> QED
        BY <3>5, <3>6
    <2>6. ASSUME line.field \in {"allow", "disallow"}, RuleLine(line.field = "allow", line.value)
          PROVE  ParseInv'
      <3>1. gs = groups /\ ~agent /\ rule
        BY <2>6
      <3>2. CASE groups = <<>>
        <4>1. groups' = groups /\ startedRules' = startedRules
          BY <2>6, <3>2 DEF RuleLine
        <4>2. \A g \in 1 .. Len(groups) : Touched(groups[g], groups[g], Len(groups) = g, line)
          BY <2>2, <3>2, Untouched
        <4> QED
          BY <2>2, <2>4, <3>1, <3>2, <4>1, <4>2
      <3>3. CASE groups # <<>>
        <4>1. startedRules' = TRUE
          BY <2>6, <3>3 DEF RuleLine
        <4>2. CASE line.field # "allow" /\ line.value = <<>>
          <5>1. groups' = groups
            BY <2>6, <3>3, <4>2 DEF RuleLine
          <5>2. line \notin NamingLines \cup RulingLines \cup DelayLines
            BY <2>6, <4>2 DEF NamingLines, RulingLines, DelayLines
          <5>3. \A g \in 1 .. Len(groups) : Touched(groups[g], groups[g], Len(groups) = g, line)
            BY <2>2, <5>2, Untouched
          <5> QED
            BY <2>2, <2>4, <3>1, <3>3, <4>1, <5>1, <5>3
        <4>3. CASE ~(line.field # "allow" /\ line.value = <<>>)
          <5> DEFINE gr == groups[Len(groups)]
                     more == [gr EXCEPT !.rules = Append(gr.rules, ruleOf(line))]
          <5>1. line \in RulingLines /\ line \notin NamingLines \cup DelayLines
            BY <2>6, <4>3 DEF NamingLines, RulingLines, DelayLines
          <5>2. ruleOf(line) \in Rules
            BY <5>1, LineShapes
          <5>3. gr \in Groups
            BY <2>2, <3>3
          <5>4. groups' = [groups EXCEPT ![Len(groups)] = more]
            BY <2>6, <3>3, <4>3 DEF RuleLine, ruleOf
          <5>5. /\ more \in Groups /\ more.agents = gr.agents /\ more.rules = Append(gr.rules, ruleOf(line))
                /\ more.hasDelay = gr.hasDelay /\ more.crawlDelay = gr.crawlDelay
            <6> HIDE DEF gr
            <6> QED
              BY <5>2, <5>3, GroupEdits
          <5> HIDE DEF more
          <5>6. Touched(gr, more, TRUE, line)
            BY <5>1, <5>5 DEF Touched
          <5>7. /\ groups' \in Seq(Groups) /\ Len(groups') = Len(groups)
                /\ \A g \in 1 .. Len(groups) : Touched(groups[g], groups'[g], Len(groups) = g, line)
            BY <2>2, <3>3, <5>4, <5>5, <5>6, LastTouched
          <5> QED
            BY <2>4, <3>1, <3>3, <4>1, <5>7
        <4> QED
          BY <4>2, <4>3
      <3> QED
        BY <3>2, <3>3
    <2>7. CASE line.field = "crawl-delay" /\ CrawlDelayLine(line.value)
      <3>1. gs = groups /\ ~agent /\ rule
        BY <2>7
      <3>2. CASE groups = <<>>
        <4>1. groups' = groups /\ startedRules' = startedRules
          BY <2>7, <3>2 DEF CrawlDelayLine
        <4>2. \A g \in 1 .. Len(groups) : Touched(groups[g], groups[g], Len(groups) = g, line)
          BY <2>2, <3>2, Untouched
        <4> QED
          BY <2>2, <2>4, <3>1, <3>2, <4>1, <4>2
      <3>3. CASE groups # <<>>
        <4>1. startedRules' = TRUE
          BY <2>7, <3>3 DEF CrawlDelayLine
        <4>2. line.value \in Int
          BY <2>7, RobotsAssumption
        <4>3. CASE line.value < 0
          <5>1. groups' = groups
            BY <2>7, <3>3, <4>3 DEF CrawlDelayLine
          <5>2. line \notin NamingLines \cup RulingLines \cup DelayLines
            BY <2>7, <4>2, <4>3 DEF NamingLines, RulingLines, DelayLines
          <5>3. \A g \in 1 .. Len(groups) : Touched(groups[g], groups[g], Len(groups) = g, line)
            BY <2>2, <5>2, Untouched
          <5> QED
            BY <2>2, <2>4, <3>1, <3>3, <4>1, <5>1, <5>3
        <4>4. CASE ~(line.value < 0)
          <5> DEFINE gr == groups[Len(groups)]
                     more == [gr EXCEPT !.crawlDelay = line.value, !.hasDelay = TRUE]
          <5>1. line \in DelayLines /\ line \notin NamingLines \cup RulingLines
            BY <2>7, <4>2, <4>4 DEF NamingLines, RulingLines, DelayLines
          <5>2. gr \in Groups
            BY <2>2, <3>3
          <5>3. groups' = [groups EXCEPT ![Len(groups)].crawlDelay = line.value,
                                         ![Len(groups)].hasDelay = TRUE]
            BY <2>7, <3>3, <4>4 DEF CrawlDelayLine
          <5>4. groups' = [groups EXCEPT ![Len(groups)] = more]
            BY <5>3
          <5>5. /\ more \in Groups /\ more.agents = gr.agents /\ more.rules = gr.rules
                /\ more.hasDelay = TRUE /\ more.crawlDelay = line.value
            <6> HIDE DEF gr
            <6> QED
              BY <4>2, <5>2, GroupEdits
          <5> HIDE DEF more
          <5>6. Touched(gr, more, TRUE, line)
            BY <5>1, <5>5 DEF Touched
          <5>7. /\ groups' \in Seq(Groups) /\ Len(groups') = Len(groups)
                /\ \A g \in 1 .. Len(groups) : Touched(groups[g], groups'[g], Len(groups) = g, line)
            BY <2>2, <3>3, <5>4, <5>5, <5>6, LastTouched
          <5> QED
            BY <2>4, <3>1, <3>3, <4>1, <5>7
        <4> QED
          BY <4>3, <4>4
      <3> QED
        BY <3>2, <3>3
    <2>8. CASE \/ line.field = "sitemap" /\ SitemapLine(line.value)
               \/ line.field = "none" /\ UNCHANGED <<groups, sitemaps, startedRules>>
      <3>1. gs = groups /\ ~agent /\ ~rule
        BY <2>8
      <3>2. groups' = groups /\ startedRules' = startedRules
        BY <2>8 DEF SitemapLine
      <3>3. line \notin NamingLines \cup RulingLines \cup DelayLines
        BY <2>8 DEF NamingLines, RulingLines, DelayLines
      <3>4. \A g \in 1 .. Len(groups) : Touched(groups[g], groups[g], Len(groups) = g, line)
        BY <2>2, <3>3, Untouched
      <3> QED
        BY <2>2, <2>4, <3>1, <3>2, <3>4
    <2>9. ASSUME line.field = "allow", RuleLine(TRUE, line.value) PROVE ParseInv'
      <3>1. (line.field = "allow") = TRUE
        BY <2>9
      <3> QED
        BY <2>6, <2>9, <3>1
    <2>10. ASSUME line.field = "disallow", RuleLine(FALSE, line.value) PROVE ParseInv'
      <3>1. (line.field = "allow") = FALSE
        BY <2>10
      <3> QED
        BY <2>6, <2>10, <3>1
    <2> QED
      BY <2>1, <2>5, <2>7, <2>8, <2>9, <2>10
  <1> QED
    BY <1>1, <1>2

\* The parser reads groups as the file means them, whatever its lines and their order.
LEMMA ParseInvHolds == RobotsSpec => []ParseInv
  BY ParseInvStarts, ParseInvStays, PTL DEF RobotsSpec

-----------------------------------------------------------------------------
(***************************************************************************)
(* robots.txt: patterns.                                                   *)
(***************************************************************************)

\* The characters of the pattern from p on can be laid along s from j on.
Lays(pat, s, whole, p, j) ==
  \E laid \in [p .. Len(pat) -> 0 .. Len(s)] :
    /\ laid[p] = j
    /\ \A k \in p + 1 .. Len(pat) : takes(pat, s, k, laid[k - 1], laid[k])
    /\ whole => laid[Len(pat)] = Len(s)

\* Nothing is left to lay.
LEMMA LaysEnd ==
  ASSUME NEW pat \in Seq(Nat), NEW s \in Seq(Nat), NEW whole \in BOOLEAN, NEW j \in 0 .. Len(s)
  PROVE  Lays(pat, s, whole, Len(pat), j) <=> (whole => j = Len(s))
  <1> DEFINE n == Len(pat)
  <1>1. n \in Nat
    OBVIOUS
  <1>2. ASSUME Lays(pat, s, whole, n, j) PROVE whole => j = Len(s)
    BY <1>2 DEF Lays
  <1>3. ASSUME whole => j = Len(s) PROVE Lays(pat, s, whole, n, j)
    <2> DEFINE laid == [k \in n .. n |-> j]
    <2>1. laid \in [n .. n -> 0 .. Len(s)] /\ laid[n] = j
      BY <1>1
    <2>2. n + 1 .. n = {}
      BY <1>1
    <2> QED
      BY <1>3, <2>1, <2>2 DEF Lays
  <1> QED
    BY <1>2, <1>3

\* The next character takes its part, and the rest is laid behind it.
LEMMA LaysOn ==
  ASSUME NEW pat \in Seq(Nat), NEW s \in Seq(Nat), NEW whole \in BOOLEAN,
         NEW p \in 0 .. Len(pat) - 1, NEW j \in 0 .. Len(s)
  PROVE  Lays(pat, s, whole, p, j) <=>
           \E i \in 0 .. Len(s) : takes(pat, s, p + 1, j, i) /\ Lays(pat, s, whole, p + 1, i)
  <1> DEFINE n == Len(pat)
  <1>1. n \in Nat /\ p \in Nat /\ p < n /\ Len(s) \in Nat
    OBVIOUS
  <1>2. ASSUME Lays(pat, s, whole, p, j)
        PROVE  \E i \in 0 .. Len(s) : takes(pat, s, p + 1, j, i) /\ Lays(pat, s, whole, p + 1, i)
    <2>1. PICK laid \in [p .. n -> 0 .. Len(s)] :
            /\ laid[p] = j
            /\ \A k \in p + 1 .. n : takes(pat, s, k, laid[k - 1], laid[k])
            /\ whole => laid[n] = Len(s)
      BY <1>2 DEF Lays
    <2> DEFINE rest == [k \in p + 1 .. n |-> laid[k]]
    <2>2. rest \in [p + 1 .. n -> 0 .. Len(s)] /\ rest[p + 1] = laid[p + 1] /\ laid[p + 1] \in 0 .. Len(s)
      BY <1>1
    <2>3. ASSUME NEW k \in (p + 1) + 1 .. n PROVE takes(pat, s, k, rest[k - 1], rest[k])
      <3>1. k \in p + 1 .. n /\ k - 1 \in p + 1 .. n
        BY <1>1
      <3> QED
        BY <2>1, <3>1
    <2>4. whole => rest[n] = Len(s)
      BY <1>1, <2>1
    <2>5. takes(pat, s, p + 1, j, laid[p + 1])
      <3>1. p + 1 \in p + 1 .. n /\ (p + 1) - 1 = p
        BY <1>1
      <3> QED
        BY <2>1, <3>1
    <2> QED
      BY <2>2, <2>3, <2>4, <2>5 DEF Lays
  <1>3. ASSUME NEW i \in 0 .. Len(s), takes(pat, s, p + 1, j, i), Lays(pat, s, whole, p + 1, i)
        PROVE  Lays(pat, s, whole, p, j)
    <2>1. PICK rest \in [p + 1 .. n -> 0 .. Len(s)] :
            /\ rest[p + 1] = i
            /\ \A k \in (p + 1) + 1 .. n : takes(pat, s, k, rest[k - 1], rest[k])
            /\ whole => rest[n] = Len(s)
      BY <1>3 DEF Lays
    <2> DEFINE laid == [k \in p .. n |-> IF k = p THEN j ELSE rest[k]]
    <2>2. laid \in [p .. n -> 0 .. Len(s)] /\ laid[p] = j
      BY <1>1
    <2>3. ASSUME NEW k \in p + 1 .. n PROVE takes(pat, s, k, laid[k - 1], laid[k])
      <3>1. CASE k = p + 1
        <4>1. laid[k - 1] = j /\ laid[k] = i
          BY <1>1, <2>1, <3>1
        <4> QED
          BY <1>3, <3>1, <4>1
      <3>2. CASE k # p + 1
        <4>1. k \in (p + 1) + 1 .. n /\ laid[k - 1] = rest[k - 1] /\ laid[k] = rest[k]
          BY <1>1, <3>2
        <4> QED
          BY <2>1, <4>1
      <3> QED
        BY <3>1, <3>2
    <2>4. whole => laid[n] = Len(s)
      BY <1>1, <2>1
    <2> QED
      BY <2>2, <2>3, <2>4 DEF Lays
  <1> QED
    BY <1>2, <1>3

\* The loop of matchGlob after k turns, with p characters of the pattern and j of s
\* consumed and the last "*" at c, swallowing up to d.  What is left to that "*" is
\* what it may still swallow, and if the rest of the pattern fits there, then what
\* comes after the present place fits further on.
Later(pat, s, whole, c, d) == {i \in d + 1 .. Len(s) : c >= 0 /\ Lays(pat, s, whole, c + 1, i)}

GlobHolds(pat, s, whole, k, p, j, c, d, v) ==
  LET fits(a, b) == Lays(pat, s, whole, a, b)
      later == Later(pat, s, whole, c, d)
  IN  /\ v = "match" => fits(0, 0)
      /\ v = "miss" => ~fits(0, 0)
      /\ v = "none" =>
           /\ k <= IF c < 0 THEN p ELSE (d + 1) * (Len(pat) + 1) + p
           /\ c >= 0 => d <= j /\ c < p
           /\ fits(0, 0) <=> fits(p, j) \/ later # {}
           /\ later # {} => \E i \in j + 1 .. Len(s) : fits(p, i)

GlobAt(pat, s, whole, k) ==
  {g \in Globbing(pat, s) : GlobHolds(pat, s, whole, k, g.p, g.j, g.starP, g.starS, g.verdict)}

\* What it takes to be such a state.
LEMMA GlobState ==
  ASSUME NEW pat \in Seq(Nat), NEW s \in Seq(Nat), NEW whole \in BOOLEAN, NEW k \in Nat,
         NEW p \in 0 .. Len(pat), NEW j \in 0 .. Len(s), NEW c \in -1 .. Len(pat),
         NEW d \in 0 .. Len(s), NEW v \in {"none", "match", "miss"},
         GlobHolds(pat, s, whole, k, p, j, c, d, v)
  PROVE  [p |-> p, j |-> j, starP |-> c, starS |-> d, verdict |-> v] \in GlobAt(pat, s, whole, k)
  <1> DEFINE g == [p |-> p, j |-> j, starP |-> c, starS |-> d, verdict |-> v]
  <1>1. g \in Globbing(pat, s)
    BY DEF Globbing
  <1>2. g.p = p /\ g.j = j /\ g.starP = c /\ g.starS = d /\ g.verdict = v
    OBVIOUS
  <1> HIDE DEF g
  <1>3. GlobHolds(pat, s, whole, k, g.p, g.j, g.starP, g.starS, g.verdict)
    BY <1>2
  <1> QED
    BY <1>1, <1>3 DEF GlobAt, g

\* The weight of a "*" grows with what it has swallowed.
LEMMA StarWeighs ==
  ASSUME NEW a \in Nat, NEW b \in Nat, NEW n \in Nat
  PROVE  /\ (a + 1) * (n + 1) \in Nat
         /\ (a + 1 + 1) * (n + 1) = (a + 1) * (n + 1) + n + 1
         /\ a <= b => (a + 1) * (n + 1) <= (b + 1) * (n + 1)
  <1>1. (a + 1) * (n + 1) \in Nat /\ (a + 1 + 1) * (n + 1) = (a + 1) * (n + 1) + n + 1
    OBVIOUS
  <1>2. ASSUME a <= b PROVE (a + 1) * (n + 1) <= (b + 1) * (n + 1)
    <2>1. b - a \in Nat /\ (b - a) * (n + 1) \in Nat
      BY <1>2
    <2>2. (b + 1) * (n + 1) = (a + 1) * (n + 1) + (b - a) * (n + 1)
      OBVIOUS
    <2> QED
      BY <1>1, <2>1, <2>2
  <1> QED
    BY <1>1, <1>2

\* A state of the loop is its fields.
LEMMA GlobFields ==
  ASSUME NEW h, h = [x \in {"p", "j", "starP", "starS", "verdict"} |-> h[x]]
  PROVE  h = [p |-> h.p, j |-> h.j, starP |-> h.starP, starS |-> h.starS, verdict |-> h.verdict]
  OBVIOUS

\* One turn keeps it.
LEMMA GlobTurns ==
  ASSUME NEW pat \in Seq(Nat), NEW s \in Seq(Nat), NEW whole \in BOOLEAN, NEW k \in Nat,
         NEW p \in 0 .. Len(pat), NEW j \in 0 .. Len(s), NEW c \in -1 .. Len(pat),
         NEW d \in 0 .. Len(s), NEW v \in {"none", "match", "miss"},
         GlobHolds(pat, s, whole, k, p, j, c, d, v)
  PROVE  globTurn(pat, s, whole)[[p |-> p, j |-> j, starP |-> c, starS |-> d, verdict |-> v]]
           \in GlobAt(pat, s, whole, k + 1)
  <1> DEFINE n == Len(pat)
             m == Len(s)
             fits(a, b) == Lays(pat, s, whole, a, b)
             later(a, b) == {i \in b + 1 .. m : a >= 0 /\ fits(a + 1, i)}
             state(a, b, e, f, w) == [p |-> a, j |-> b, starP |-> e, starS |-> f, verdict |-> w]
             next == globTurn(pat, s, whole)[state(p, j, c, d, v)]
  <1>1. n \in Nat /\ m \in Nat
    OBVIOUS
  <1> SUFFICES next \in GlobAt(pat, s, whole, k + 1)
    OBVIOUS
  <1>2. next = IF v # "none" THEN state(p, j, c, d, v)
               ELSE IF p = n /\ (~whole \/ j = m) THEN state(p, j, c, d, "match")
               ELSE IF p < n /\ pat[p + 1] = Star THEN state(p + 1, j, p, j, v)
               ELSE IF p < n /\ j < m /\ pat[p + 1] = s[j + 1] THEN state(p + 1, j + 1, c, d, v)
               ELSE IF c < 0 \/ d >= m THEN state(p, j, c, d, "miss")
               ELSE state(c + 1, d + 1, c, d + 1, v)
    <2> DEFINE g == state(p, j, c, d, v)
    <2>1. g \in Globbing(pat, s)
      BY DEF Globbing
    <2>2. g.p = p /\ g.j = j /\ g.starP = c /\ g.starS = d /\ g.verdict = v
      OBVIOUS
    <2>3. [g EXCEPT !.verdict = "match"] = state(p, j, c, d, "match")
      OBVIOUS
    <2>4. [g EXCEPT !.starP = p, !.starS = j, !.p = p + 1] = state(p + 1, j, p, j, v)
      <3> DEFINE h == [g EXCEPT !.starP = p, !.starS = j, !.p = p + 1]
      <3>1. h = [x \in {"p", "j", "starP", "starS", "verdict"} |-> h[x]]
        OBVIOUS
      <3>2. h.p = p + 1 /\ h.j = j /\ h.starP = p /\ h.starS = j /\ h.verdict = v
        OBVIOUS
      <3> HIDE DEF h
      <3>3. h = state(p + 1, j, p, j, v)
        BY <3>1, <3>2, GlobFields
      <3> QED
        BY <3>3 DEF h
    <2>5. [g EXCEPT !.p = p + 1, !.j = j + 1] = state(p + 1, j + 1, c, d, v)
      <3> DEFINE h == [g EXCEPT !.p = p + 1, !.j = j + 1]
      <3>1. h = [x \in {"p", "j", "starP", "starS", "verdict"} |-> h[x]]
        OBVIOUS
      <3>2. h.p = p + 1 /\ h.j = j + 1 /\ h.starP = c /\ h.starS = d /\ h.verdict = v
        OBVIOUS
      <3> HIDE DEF h
      <3>3. h = state(p + 1, j + 1, c, d, v)
        BY <3>1, <3>2, GlobFields
      <3> QED
        BY <3>3 DEF h
    <2>6. [g EXCEPT !.verdict = "miss"] = state(p, j, c, d, "miss")
      OBVIOUS
    <2>7. [g EXCEPT !.starS = d + 1, !.j = d + 1, !.p = c + 1] = state(c + 1, d + 1, c, d + 1, v)
      <3> DEFINE h == [g EXCEPT !.starS = d + 1, !.j = d + 1, !.p = c + 1]
      <3>1. h = [x \in {"p", "j", "starP", "starS", "verdict"} |-> h[x]]
        OBVIOUS
      <3>2. h.p = c + 1 /\ h.j = d + 1 /\ h.starP = c /\ h.starS = d + 1 /\ h.verdict = v
        OBVIOUS
      <3> HIDE DEF h
      <3>3. h = state(c + 1, d + 1, c, d + 1, v)
        BY <3>1, <3>2, GlobFields
      <3> QED
        BY <3>3 DEF h
    <2> HIDE DEF g
    <2>8. next =
            IF g.verdict # "none" THEN g
            ELSE IF g.p = n /\ (~whole \/ g.j = m) THEN [g EXCEPT !.verdict = "match"]
            ELSE IF g.p < n /\ pat[g.p + 1] = Star
            THEN [g EXCEPT !.starP = g.p, !.starS = g.j, !.p = @ + 1]
            ELSE IF g.p < n /\ g.j < m /\ pat[g.p + 1] = s[g.j + 1]
            THEN [g EXCEPT !.p = @ + 1, !.j = @ + 1]
            ELSE IF g.starP < 0 \/ g.starS >= m THEN [g EXCEPT !.verdict = "miss"]
            ELSE [g EXCEPT !.starS = @ + 1, !.j = g.starS + 1, !.p = g.starP + 1]
      <3>1. next = globTurn(pat, s, whole)[g]
        BY DEF g
      <3> QED
        BY <2>1, <3>1, Zenon DEF globTurn
    <2>9. g = state(p, j, c, d, v)
      BY DEF g
    <2> HIDE DEF state, next
    <2> QED
      BY <2>2, <2>3, <2>4, <2>5, <2>6, <2>7, <2>8, <2>9
  <1> HIDE DEF next
  <1>3. ASSUME NEW a \in 0 .. n, NEW b \in 0 .. m, NEW e \in -1 .. n, NEW f \in 0 .. m,
               NEW w \in {"none", "match", "miss"}, next = state(a, b, e, f, w),
               GlobHolds(pat, s, whole, k + 1, a, b, e, f, w)
        PROVE  next \in GlobAt(pat, s, whole, k + 1)
    <2>1. k + 1 \in Nat
      OBVIOUS
    <2> QED
      BY <1>3, <2>1, GlobState
  <1>4. CASE v # "none"
    <2>1. GlobHolds(pat, s, whole, k + 1, p, j, c, d, v)
      BY <1>4 DEF GlobHolds
    <2> QED
      BY <1>2, <1>3, <1>4, <2>1
  <1>5. CASE v = "none"
    <2>1. /\ k <= IF c < 0 THEN p ELSE (d + 1) * (n + 1) + p
          /\ c >= 0 => d <= j /\ c < p
          /\ fits(0, 0) <=> fits(p, j) \/ later(c, d) # {}
          /\ later(c, d) # {} => \E i \in j + 1 .. m : fits(p, i)
      BY <1>5 DEF GlobHolds, Later
    <2>0. (c >= 0 => d <= j /\ c < p) /\ d \in Nat /\ j \in Nat
      BY <2>1
    <2>2. ASSUME p < n, NEW b \in 0 .. m
          PROVE  fits(p, b) <=> \E i \in 0 .. m : takes(pat, s, p + 1, b, i) /\ fits(p + 1, i)
      BY <1>1, <2>2, LaysOn
    <2>3. ASSUME NEW b \in 0 .. m PROVE fits(n, b) <=> (whole => b = m)
      BY LaysEnd
    <2> HIDE DEF fits
    <2>4. ASSUME NEW a \in 0 .. n, NEW b \in 0 .. m, NEW e \in -1 .. n, NEW f \in 0 .. m,
                 next = state(a, b, e, f, "none"),
                 k + 1 <= IF e < 0 THEN a ELSE (f + 1) * (n + 1) + a,
                 e >= 0 => f <= b /\ e < a,
                 fits(0, 0) <=> fits(a, b) \/ later(e, f) # {},
                 later(e, f) # {} => \E i \in b + 1 .. m : fits(a, i)
          PROVE  next \in GlobAt(pat, s, whole, k + 1)
      <3>1. GlobHolds(pat, s, whole, k + 1, a, b, e, f, "none")
        BY <2>4 DEF GlobHolds, Later, fits
      <3> QED
        BY <1>3, <2>4, <3>1
    <2>5. CASE p = n /\ (~whole \/ j = m)
      <3>1. fits(0, 0)
        BY <2>1, <2>3, <2>5
      <3>2. GlobHolds(pat, s, whole, k + 1, p, j, c, d, "match")
        BY <3>1 DEF GlobHolds, fits
      <3>3. next = state(p, j, c, d, "match")
        BY <1>2, <1>5, <2>5
      <3> QED
        BY <1>3, <3>2, <3>3
    <2>6. CASE p < n /\ pat[p + 1] = Star
      <3>1. next = state(p + 1, j, p, j, "none")
        BY <1>2, <1>5, <2>6
      <3>2. ASSUME NEW b \in 0 .. m PROVE fits(p, b) <=> \E i \in b .. m : fits(p + 1, i)
        <4>1. \A i \in 0 .. m : takes(pat, s, p + 1, b, i) <=> b <= i
          BY <2>6 DEF takes
        <4>2. \A i : i \in b .. m <=> i \in 0 .. m /\ b <= i
          BY <1>1
        <4> QED
          BY <2>2, <2>6, <4>1, <4>2
      <3>3. later(p, j) = {i \in j + 1 .. m : fits(p + 1, i)}
        OBVIOUS
      <3>4. fits(p, j) <=> fits(p + 1, j) \/ later(p, j) # {}
        <4>1. \A i : i \in j .. m <=> i = j \/ i \in j + 1 .. m
          BY <1>1
        <4> QED
          BY <3>2, <3>3, <4>1
      <3>5. later(c, d) # {} => fits(p, j)
        <4>1. ASSUME NEW i \in j + 1 .. m, fits(p, i) PROVE fits(p, j)
          <5>1. i \in 0 .. m /\ j < i
            OBVIOUS
          <5>2. PICK e \in i .. m : fits(p + 1, e)
            BY <3>2, <4>1, <5>1
          <5>3. e \in j .. m
            BY <5>1
          <5> QED
            BY <3>2, <5>2, <5>3
        <4> QED
          BY <2>1, <4>1
      <3>6. k + 1 <= (j + 1) * (n + 1) + p + 1
        <4> DEFINE wd == (d + 1) * (n + 1)
                   wj == (j + 1) * (n + 1)
        <4>1. wd \in Nat /\ wj \in Nat /\ (d <= j => wd <= wj)
          BY <1>1, <2>0, StarWeighs, Zenon
        <4>2. k <= IF c < 0 THEN p ELSE wd + p
          BY <2>1
        <4> HIDE DEF wd, wj
        <4>3. k + 1 <= wj + p + 1
          BY <2>1, <4>1, <4>2
        <4> QED
          BY <4>3 DEF wj
      <3>7. p + 1 \in 0 .. n /\ p \in -1 .. n /\ j <= j /\ p < p + 1 /\ p >= 0
        BY <1>1, <2>6
      <3>8. fits(0, 0) <=> fits(p + 1, j) \/ later(p, j) # {}
        BY <2>1, <3>4, <3>5
      <3>9. later(p, j) # {} => \E i \in j + 1 .. m : fits(p + 1, i)
        BY <3>3
      <3>10. k + 1 <= IF p < 0 THEN p + 1 ELSE (j + 1) * (n + 1) + (p + 1)
        BY <3>6, <3>7
      <3> HIDE DEF later, state
      <3> QED
        BY <2>4, <3>1, <3>7, <3>8, <3>9, <3>10
    <2>7. CASE p < n /\ pat[p + 1] # Star /\ j < m /\ pat[p + 1] = s[j + 1]
      <3>1. next = state(p + 1, j + 1, c, d, "none")
        BY <1>2, <1>5, <2>7
      <3>2. ASSUME NEW b \in 0 .. m
            PROVE  fits(p, b) <=> b < m /\ s[b + 1] = pat[p + 1] /\ fits(p + 1, b + 1)
        <4>1. \A i \in 0 .. m : takes(pat, s, p + 1, b, i) <=> i = b + 1 /\ s[i] = pat[p + 1]
          BY <2>7 DEF takes
        <4>2. b + 1 \in 0 .. m <=> b < m
          BY <1>1
        <4> QED
          BY <2>2, <2>7, <4>1, <4>2
      <3>3. fits(p, j) <=> fits(p + 1, j + 1)
        BY <2>7, <3>2
      <3>4. fits(0, 0) <=> fits(p + 1, j + 1) \/ later(c, d) # {}
        BY <2>1, <3>3
      <3>5. later(c, d) # {} => \E i \in (j + 1) + 1 .. m : fits(p + 1, i)
        <4>1. ASSUME NEW i \in j + 1 .. m, fits(p, i)
              PROVE  i + 1 \in (j + 1) + 1 .. m /\ fits(p + 1, i + 1)
          <5>1. i \in 0 .. m /\ i >= j + 1
            OBVIOUS
          <5>2. i < m /\ fits(p + 1, i + 1)
            BY <3>2, <4>1, <5>1
          <5> QED
            BY <1>1, <5>1, <5>2
        <4> QED
          BY <2>1, <4>1
      <3>6. k + 1 <= IF c < 0 THEN p + 1 ELSE (d + 1) * (n + 1) + (p + 1)
        <4> DEFINE w == (d + 1) * (n + 1)
        <4>1. w \in Nat
          BY <1>1, <2>0, StarWeighs, Zenon
        <4>2. k <= IF c < 0 THEN p ELSE w + p
          BY <2>1
        <4> HIDE DEF w
        <4>3. k + 1 <= IF c < 0 THEN p + 1 ELSE w + (p + 1)
          BY <4>1, <4>2
        <4> QED
          BY <4>3 DEF w
      <3>7. p + 1 \in 0 .. n /\ j + 1 \in 0 .. m /\ (c >= 0 => d <= j + 1 /\ c < p + 1)
        <4>1. p < n /\ j < m
          BY <2>7
        <4>2. p + 1 \in 0 .. n /\ j + 1 \in 0 .. m
          BY <1>1, <4>1
        <4>3. c >= 0 => d <= j + 1 /\ c < p + 1
          BY ONLY <2>0, c \in -1 .. n, p \in 0 .. n, n \in Nat
        <4> QED
          BY <4>2, <4>3
      <3> HIDE DEF later, state
      <3> QED
        BY <2>4, <3>1, <3>4, <3>5, <3>6, <3>7
    <2>8. CASE /\ ~(p = n /\ (~whole \/ j = m))
               /\ ~(p < n /\ pat[p + 1] = Star)
               /\ ~(p < n /\ j < m /\ pat[p + 1] = s[j + 1])
      <3>1. ~fits(p, j)
        <4>1. CASE p = n
          BY <2>3, <2>8, <4>1
        <4>2. CASE p # n
          <5>1. p < n /\ pat[p + 1] # Star
            BY <1>1, <2>8, <4>2
          <5>2. \A i \in 0 .. m : takes(pat, s, p + 1, j, i) => i = j + 1 /\ s[i] = pat[p + 1]
            BY <5>1 DEF takes
          <5>3. \A i \in 0 .. m : ~takes(pat, s, p + 1, j, i)
            BY <2>8, <5>1, <5>2
          <5> QED
            BY <2>2, <5>1, <5>3
        <4> QED
          BY <4>1, <4>2
      <3>2. CASE c < 0 \/ d >= m
        <4>1. next = state(p, j, c, d, "miss")
          BY <1>2, <1>5, <2>8, <3>2
        <4>2. later(c, d) = {}
          BY <1>1, <3>2
        <4>3. ~fits(0, 0)
          BY <2>1, <3>1, <4>2
        <4>4. GlobHolds(pat, s, whole, k + 1, p, j, c, d, "miss")
          BY <4>3 DEF GlobHolds, fits
        <4> QED
          BY <1>3, <4>1, <4>4
      <3>3. CASE c >= 0 /\ d < m
        <4>1. next = state(c + 1, d + 1, c, d + 1, "none")
          BY <1>2, <1>5, <2>8, <3>3
        <4>2. c + 1 \in 0 .. n /\ d + 1 \in 0 .. m /\ d + 1 <= d + 1 /\ c < c + 1
          BY <1>1, <2>1, <3>3
        <4>3. later(c, d) # {} <=> fits(c + 1, d + 1) \/ later(c, d + 1) # {}
          <5>1. \A i : i \in d + 1 .. m <=> i = d + 1 \/ i \in (d + 1) + 1 .. m
            BY <1>1, <3>3
          <5> QED
            BY <3>3, <5>1
        <4>4. later(c, d + 1) # {} => \E i \in (d + 1) + 1 .. m : fits(c + 1, i)
          OBVIOUS
        <4>5. k + 1 <= IF c < 0 THEN c + 1 ELSE (d + 1 + 1) * (n + 1) + (c + 1)
          <5> DEFINE w == (d + 1) * (n + 1)
          <5>1. w \in Nat /\ (d + 1 + 1) * (n + 1) = w + n + 1
            BY <1>1, <2>0, StarWeighs, Zenon
          <5>2. k <= w + p
            BY <2>1, <3>3
          <5> HIDE DEF w
          <5>3. k + 1 <= (w + n + 1) + (c + 1)
            BY <1>1, <3>3, <5>1, <5>2
          <5> QED
            BY <3>3, <5>1, <5>3
        <4>6. fits(0, 0) <=> fits(c + 1, d + 1) \/ later(c, d + 1) # {}
          BY <2>1, <3>1, <4>3
        <4> HIDE DEF later, state
        <4> QED
          BY <2>4, <4>1, <4>2, <4>4, <4>5, <4>6
      <3> QED
        BY <3>2, <3>3
    <2> QED
      BY <1>1, <2>5, <2>6, <2>7, <2>8
  <1> QED
    BY <1>4, <1>5

\* The loop of matchGlob ends, and finds the pattern exactly when it can be laid along
\* the path.
LEMMA GlobIsRight ==
  ASSUME NEW pat \in Seq(Nat), NEW s \in Seq(Nat), NEW whole \in BOOLEAN
  PROVE  matchGlob(pat, s, whole) = IF Lays(pat, s, whole, 0, 0) THEN "match" ELSE "miss"
  <1> DEFINE n == Len(pat)
             m == Len(s)
             start == [p |-> 0, j |-> 0, starP |-> -1, starS |-> 0, verdict |-> "none"]
             turns == globTurns(pat, s)
             I == [k \in Nat |-> GlobAt(pat, s, whole, k)]
             end == Iterate(globTurn(pat, s, whole), start, turns)
  <1>1. n \in Nat /\ m \in Nat
    OBVIOUS
  <1>2. turns \in Nat
    <2>1. \A a, b \in Nat : (a + 2) * (b + 1) \in Nat
      OBVIOUS
    <2> QED
      BY <1>1, <2>1, Zenon DEF globTurns
  <1>3. start \in I[0]
    <2>1. 0 \in 0 .. n /\ 0 \in 0 .. m /\ -1 \in -1 .. n
      BY <1>1
    <2>2. Later(pat, s, whole, -1, 0) = {}
      BY DEF Later
    <2>3. GlobHolds(pat, s, whole, 0, 0, 0, -1, 0, "none")
      BY <2>2 DEF GlobHolds
    <2>4. start \in GlobAt(pat, s, whole, 0)
      BY <2>1, <2>3, GlobState
    <2> QED
      BY <2>4
  <1>4. ASSUME NEW k \in Nat, NEW g \in I[k] PROVE globTurn(pat, s, whole)[g] \in I[k + 1]
    <2>1. g \in GlobAt(pat, s, whole, k)
      OBVIOUS
    <2>2. g \in Globbing(pat, s) /\ GlobHolds(pat, s, whole, k, g.p, g.j, g.starP, g.starS, g.verdict)
      BY <2>1 DEF GlobAt
    <2>3. /\ g.p \in 0 .. n /\ g.j \in 0 .. m /\ g.starP \in -1 .. n /\ g.starS \in 0 .. m
          /\ g.verdict \in {"none", "match", "miss"}
          /\ g = [p |-> g.p, j |-> g.j, starP |-> g.starP, starS |-> g.starS, verdict |-> g.verdict]
      BY <2>2 DEF Globbing
    <2>4. globTurn(pat, s, whole)[g] \in GlobAt(pat, s, whole, k + 1)
      BY <2>2, <2>3, GlobTurns
    <2> QED
      BY <2>4
  <1> HIDE DEF I, start, turns
  <1>5. end \in I[turns]
    BY <1>2, <1>3, <1>4, LoopInvariant
  <1> HIDE DEF end
  <1>6. end \in Globbing(pat, s) /\ GlobHolds(pat, s, whole, turns, end.p, end.j, end.starP, end.starS, end.verdict)
    BY <1>2, <1>5 DEF I, GlobAt
  <1>7. /\ end.p \in 0 .. n /\ end.starP \in -1 .. n /\ end.starS \in 0 .. m
        /\ end.verdict \in {"none", "match", "miss"}
    BY <1>6 DEF Globbing
  <1>8. end.verdict # "none"
    <2> SUFFICES ASSUME end.verdict = "none" PROVE FALSE
      OBVIOUS
    <2> DEFINE w == (end.starS + 1) * (n + 1)
               top == (m + 1) * (n + 1)
    <2>1. end.starS \in Nat /\ end.starS <= m
      BY <1>1, <1>7
    <2>2. w \in Nat /\ w <= top /\ top \in Nat /\ (m + 1 + 1) * (n + 1) = top + n + 1
      BY <1>1, <2>1, StarWeighs, Zenon
    <2>3. turns <= IF end.starP < 0 THEN end.p ELSE w + end.p
      BY <1>6 DEF GlobHolds
    <2>4. turns = top + n + 1
      <3>1. turns = (m + 1 + 1) * (n + 1)
        BY <1>1 DEF turns, globTurns
      <3> QED
        BY <2>2, <3>1
    <2> HIDE DEF w, top
    <2> QED
      BY <1>1, <1>7, <2>2, <2>3, <2>4
  <1>9. matchGlob(pat, s, whole) = end.verdict
    BY DEF matchGlob, end, start, turns
  <1> QED
    BY <1>6, <1>7, <1>8, <1>9 DEF GlobHolds

\* matchLen finds the patterns that match, and their sizes.
THEOREM PatternsMatch ==
  ASSUME NEW pattern \in Seq(Nat), NEW s \in Seq(Nat)
  PROVE  matchLen(pattern, s) = IF Matches(pattern, s) THEN size(pattern) ELSE -1
  <1> DEFINE whole == ends(pattern)
             pat == IF whole THEN Front(pattern) ELSE pattern
             n == size(pattern)
  <1>1. whole \in BOOLEAN /\ n \in Nat /\ n <= Len(pattern)
    BY DEF ends, size
  <1>2. pat \in Seq(Nat) /\ Len(pat) = n /\ \A k \in 1 .. n : pat[k] = pattern[k]
    <2>1. CASE whole
      <3>1. Len(pattern) \in Nat \ {0} /\ n = Len(pattern) - 1
        BY <2>1 DEF ends, size
      <3>2. pat = SubSeq(pattern, 1, n)
        BY <2>1, <3>1 DEF Front
      <3> HIDE DEF pat, n
      <3> QED
        BY <3>1, <3>2
    <2>2. CASE ~whole
      BY <2>2 DEF size
    <2> QED
      BY <2>1, <2>2
  <1>3. matchLen(pattern, s) = IF matchGlob(pat, s, whole) = "match" THEN Len(pat) ELSE -1
    BY DEF matchLen, ends
  <1> HIDE DEF pat, n, whole
  <1>4. Matches(pattern, s) <=> Lays(pat, s, whole, 0, 0)
    <2>1. \A k \in 1 .. n : \A from, to : takes(pattern, s, k, from, to) <=> takes(pat, s, k, from, to)
      BY <1>2 DEF takes
    <2>2. 0 + 1 .. Len(pat) = 1 .. n /\ 0 .. Len(pat) = 0 .. n
      BY <1>2
    <2>3. Lays(pat, s, whole, 0, 0) <=>
            \E laid \in [0 .. n -> 0 .. Len(s)] :
              /\ laid[0] = 0
              /\ \A k \in 1 .. n : takes(pat, s, k, laid[k - 1], laid[k])
              /\ whole => laid[n] = Len(s)
      BY <1>2, <2>2 DEF Lays
    <2>4. Matches(pattern, s) <=>
            \E laid \in [0 .. n -> 0 .. Len(s)] :
              /\ laid[0] = 0
              /\ \A k \in 1 .. n : takes(pattern, s, k, laid[k - 1], laid[k])
              /\ whole => laid[n] = Len(s)
      BY DEF Matches, whole, n
    <2> QED
      BY <2>1, <2>3, <2>4, Zenon
  <1>5. matchGlob(pat, s, whole) = IF Lays(pat, s, whole, 0, 0) THEN "match" ELSE "miss"
    BY <1>1, <1>2, GlobIsRight
  <1> QED
    BY <1>2, <1>3, <1>4, <1>5 DEF n

-----------------------------------------------------------------------------
(***************************************************************************)
(* robots.txt: the answers.                                                *)
(***************************************************************************)

\* Finitely many numbers have a bound.
LEMMA NumbersBounded ==
  ASSUME NEW n \in Nat, NEW S \in SUBSET (1 .. n), NEW f \in [S -> Nat]
  PROVE  \E N \in Nat : \A i \in S : f[i] <= N
  <1> DEFINE P == {k \in Nat : \E N \in Nat : \A i \in S : i <= k => f[i] <= N}
  <1>1. 0 \in P
    <2>1. \A i \in S : ~(i <= 0)
      OBVIOUS
    <2> QED
      BY <2>1
  <1>2. ASSUME NEW k \in Nat, k \in P PROVE k + 1 \in P
    <2>1. PICK N \in Nat : \A i \in S : i <= k => f[i] <= N
      BY <1>2
    <2> DEFINE M == IF k + 1 \in S /\ f[k + 1] > N THEN f[k + 1] ELSE N
    <2>2. M \in Nat /\ N <= M /\ (k + 1 \in S => f[k + 1] <= M)
      OBVIOUS
    <2>3. \A i \in S : i <= k + 1 => f[i] <= M
      <3>1. \A i \in S : f[i] \in Nat /\ i \in Nat
        OBVIOUS
      <3> HIDE DEF M
      <3>2. ASSUME NEW i \in S, i <= k + 1 PROVE f[i] <= M
        <4>1. CASE i = k + 1
          BY <2>2, <4>1
        <4>2. CASE i # k + 1
          <5>1. f[i] <= N
            BY <2>1, <3>1, <3>2, <4>2
          <5> QED
            BY <2>2, <3>1, <5>1
        <4> QED
          BY <4>1, <4>2
      <3> QED
        BY <3>2
    <2> HIDE DEF M
    <2> QED
      BY <2>2, <2>3
  <1>3. Nat \subseteq P
    <2> HIDE DEF P
    <2>1. P \in SUBSET Nat
      BY DEF P
    <2> QED
      BY <1>1, <1>2, <2>1, NumberInduction
  <1>4. n \in P
    BY <1>3
  <1> QED
    BY <1>4

\* The first of the groups of some lines is the group of the first of the lines.
LEMMA FirstGroup ==
  ASSUME NEW n \in Nat, NEW m \in Nat, NEW of \in [1 .. n -> 0 .. m],
         \A i, k \in 1 .. n : i <= k => of[i] <= of[k],
         NEW S \in SUBSET (1 .. n), S # {}
  PROVE  Min({of[j] : j \in S}) = of[Min(S)] /\ Min(S) \in S
  <1> DEFINE G == {of[j] : j \in S}
  <1>0. \A j \in S : j \in 1 .. n /\ of[j] \in 0 .. m /\ of[j] \in Nat /\ j \in Nat
    OBVIOUS
  <1>1. G \in SUBSET Nat /\ G # {} /\ S \in SUBSET Nat
    BY <1>0
  <1>2. Min(S) \in S /\ \A y \in S : Min(S) <= y
    BY <1>1, MinOfNumbers
  <1>3. Min(G) \in G /\ \A y \in G : Min(G) <= y
    <2> HIDE DEF G
    <2> QED
      BY <1>1, MinOfNumbers
  <1> DEFINE x == Min(S)
             g == Min(G)
  <1>4. of[x] \in G
    BY <1>2
  <1>5. PICK j \in S : g = of[j]
    BY <1>3
  <1> HIDE DEF x, g
  <1>6. of[x] <= of[j] /\ of[x] \in Nat /\ of[j] \in Nat
    BY <1>0, <1>2, <1>5 DEF x
  <1>7. g <= of[x]
    BY <1>3, <1>4 DEF g
  <1> QED
    BY <1>2, <1>5, <1>6, <1>7 DEF x, g

\* The group that answers an agent is the group of the line that names it.
LEMMA GroupOfAgent ==
  ASSUME ParseInv, NEW ua, NEW of \in [1 .. Len(file) -> 0 .. Len(groups)],
         Grouped(of, Len(file), AgentsOf(file), RulesOf(file), Len(groups), startedRules),
         \A g \in 1 .. Len(groups) : GroupIs(of, file, g, groups[g])
  PROVE  \/ agentLine(ua) = Len(file) + 1 /\ groupFor(ua) = 0
         \/ agentLine(ua) \in AgentsOf(file) /\ groupFor(ua) = of[agentLine(ua)]
  <1> DEFINE n == Len(file)
             m == Len(groups)
             V(j) == file[j].value
             Named == {j \in 1 .. n : file[j].field = "user-agent" /\ V(j) # <<>>}
             with(a) == {i \in DOMAIN groups : a \in ToSet(groups[i].agents)}
             all == UNION {ToSet(groups[i].agents) : i \in DOMAIN groups}
             tokens == {a \in all : a # <<Star>> /\ contains(ua, a)}
             best == UNION {with(a) : a \in {b \in tokens : Len(b) = Max({Len(a) : a \in tokens})}}
             named == {j \in Named : V(j) # <<Star>> /\ contains(ua, V(j))}
             longest == {j \in named : \A k \in named : Len(V(k)) <= Len(V(j))}
             star == {j \in Named : V(j) = <<Star>>}
  <1>1. n \in Nat /\ m \in Nat /\ DOMAIN file = 1 .. n /\ DOMAIN groups = 1 .. m
        /\ \A i \in 1 .. n : file[i] \in FileLines
    BY DEF ParseInv
  <1>2. /\ \A i, k \in 1 .. n : i <= k => of[i] <= of[k]
        /\ \A j \in AgentsOf(file) : of[j] >= 1
    BY DEF Grouped
  <1>3. \A j \in Named : j \in AgentsOf(file) /\ j \in 1 .. n /\ V(j) \in Seq(Nat) /\ of[j] \in 1 .. m
    <2>1. ASSUME NEW j \in Named PROVE j \in AgentsOf(file) /\ V(j) \in Seq(Nat)
      BY <1>1, RobotsAssumption DEF AgentsOf
    <2> QED
      BY <1>1, <1>2, <2>1
  <1>4. ASSUME NEW a, NEW g PROVE g \in with(a) <=> \E j \in Named : V(j) = a /\ of[j] = g
    <2>1. CASE g \in 1 .. m
      <3>1. ToSet(groups[g].agents) = {file[i].value : i \in Kept(of, file, g, NamingLines)}
        BY <2>1 DEF GroupIs
      <3>2. \A j : j \in Kept(of, file, g, NamingLines) <=> j \in Named /\ of[j] = g
        BY <1>1 DEF Kept, NamingLines
      <3> QED
        BY <1>1, <2>1, <3>1, <3>2
    <2>2. CASE g \notin 1 .. m
      BY <1>1, <1>3, <2>2
    <2> QED
      BY <2>1, <2>2
  <1>5. groupFor(ua) = IF tokens # {} THEN Min(best) ELSE IF with(<<Star>>) # {} THEN Min(with(<<Star>>)) ELSE 0
    BY DEF groupFor
  <1>6. agentLine(ua) = IF named # {} THEN Min(longest) ELSE Min(star \cup {n + 1})
    <2>1. named = {j \in DOMAIN file : isAgent(j) /\ file[j].value \notin {<<>>, <<Star>>}
                                       /\ contains(ua, file[j].value)}
      BY <1>1 DEF isAgent
    <2>2. star = {j \in DOMAIN file : isAgent(j) /\ file[j].value = <<Star>>}
      <3>1. <<Star>> # <<>>
        OBVIOUS
      <3> QED
        BY <1>1, <3>1 DEF isAgent
    <2> HIDE DEF named, star
    <2> QED
      BY <2>1, <2>2 DEF agentLine
  <1>7. \A a : a \in all <=> \E g \in 1 .. m : g \in with(a)
    BY <1>1
  <1> HIDE DEF with, all
  <1>8. \A a : a \in tokens <=> \E j \in named : V(j) = a
    <2>1. \A a : a \in all <=> \E j \in Named : V(j) = a
      BY <1>3, <1>4, <1>7
    <2> QED
      BY <2>1
  <1>9. named \in SUBSET (1 .. n) /\ longest \in SUBSET (1 .. n) /\ star \in SUBSET (1 .. n)
    OBVIOUS
  <1> HIDE DEF tokens, Named, best
  <1>10. CASE named = {}
    <2>1. tokens = {}
      BY <1>8, <1>10
    <2>2. with(<<Star>>) = {of[j] : j \in star}
      BY <1>4 DEF star
    <2> HIDE DEF named, star
    <2>3. CASE star = {}
      <3>1. Min({n + 1}) = n + 1
        BY <1>1 DEF Min
      <3>2. star \cup {n + 1} = {n + 1}
        BY <2>3
      <3>3. with(<<Star>>) = {}
        BY <2>2, <2>3
      <3> QED
        BY <1>5, <1>6, <1>10, <2>1, <3>1, <3>2, <3>3
    <2>4. CASE star # {}
      <3>1. Min(with(<<Star>>)) = of[Min(star)] /\ Min(star) \in star
        BY <1>1, <1>2, <1>9, <2>2, <2>4, FirstGroup
      <3>2. Min(star \cup {n + 1}) = Min(star)
        <4>1. star \in SUBSET Nat
          BY <1>1, <1>9
        <4>2. \A y \in star : Min(star) <= y
          BY <2>4, <4>1, MinOfNumbers
        <4> DEFINE both == star \cup {n + 1}
        <4>3. both \in SUBSET Nat /\ both # {}
          <5>1. n + 1 \in Nat
            BY <1>1
          <5> QED
            BY <4>1, <5>1
        <4>4. \A y \in star : y \in 1 .. n
          BY <1>9
        <4> HIDE DEF both
        <4>5. Min(both) \in both /\ \A y \in both : Min(both) <= y
          BY <4>3, MinOfNumbers
        <4> DEFINE x == Min(both)
                   z == Min(star)
        <4>6. x \in both /\ (\A y \in both : x <= y) /\ z \in star /\ (\A y \in star : z <= y)
          BY <3>1, <4>2, <4>5
        <4> HIDE DEF x, z
        <4>7. z \in 1 .. n /\ z \in both
          BY <4>4, <4>6 DEF both
        <4>8. x <= z
          BY <4>6, <4>7
        <4>9. x \in star \/ x = n + 1
          BY <4>6 DEF both
        <4>10. x \in star /\ x \in 1 .. n
          BY <1>1, <4>4, <4>7, <4>8, <4>9
        <4>11. z <= x
          BY <4>6, <4>10
        <4>12. x = z
          BY <1>1, <4>7, <4>8, <4>10, <4>11
        <4> QED
          BY <4>12 DEF x, z, both
      <3>3. with(<<Star>>) # {}
        BY <2>2, <2>4
      <3>4. Min(star) \in AgentsOf(file)
        BY <1>3, <3>1 DEF star
      <3> QED
        BY <1>5, <1>6, <1>10, <2>1, <3>1, <3>2, <3>3, <3>4
    <2> QED
      BY <2>3, <2>4
  <1>11. CASE named # {}
    <2> DEFINE f == [j \in named |-> Len(V(j))]
               sizes == {Len(a) : a \in tokens}
    <2>1. \A j \in named : V(j) \in Seq(Nat) /\ Len(V(j)) \in Nat /\ j \in AgentsOf(file) /\ V(j) \in tokens
      <3>1. \A j \in named : j \in Named
        OBVIOUS
      <3> QED
        BY <1>3, <1>8, <3>1
    <2>2. f \in [named -> Nat]
      BY <2>1
    <2>3. PICK N \in Nat : \A j \in named : f[j] <= N
      <3> HIDE DEF f, named
      <3> QED
        BY <1>1, <1>9, <2>2, NumbersBounded
    <2>4. tokens # {}
      BY <1>8, <1>11
    <2>5. \A x : x \in sizes <=> \E j \in named : x = Len(V(j))
      BY <1>8
    <2>6. sizes \in SUBSET Nat /\ sizes # {} /\ \A x \in sizes : x <= N
      <3>1. \A j \in named : Len(V(j)) <= N
        BY <2>3
      <3> HIDE DEF named, sizes
      <3> QED
        BY <1>11, <2>1, <2>5, <3>1
    <2>7. Max(sizes) \in sizes /\ \A y \in sizes : Max(sizes) >= y
      <3> HIDE DEF sizes
      <3> QED
        BY <2>6, MaxOfNumbers
    <2> DEFINE top == Max(sizes)
    <2>8. best = UNION {with(a) : a \in {b \in tokens : Len(b) = top}}
      BY DEF best
    <2>9. top \in sizes /\ \A y \in sizes : top >= y
      BY <2>7
    <2> HIDE DEF top, sizes, f
    <2>10. \A j \in named : j \in longest <=> Len(V(j)) = top
      <3>1. \A j \in named : Len(V(j)) \in sizes
        BY <2>5
      <3>2. PICK j \in named : top = Len(V(j))
        BY <2>5, <2>9
      <3>3. \A k \in named : Len(V(k)) <= top /\ Len(V(k)) \in Nat
        BY <2>1, <2>9, <3>1
      <3> HIDE DEF named
      <3>4. top \in Nat
        BY <2>1, <3>2
      <3> QED
        BY <3>2, <3>3, <3>4
    <2>11. longest # {}
      <3>1. PICK j \in named : top = Len(V(j))
        BY <2>5, <2>9
      <3> HIDE DEF named, longest
      <3> QED
        BY <2>10, <3>1
    <2>12. best = {of[j] : j \in longest}
      <3>1. ASSUME NEW g, g \in best PROVE \E j \in longest : g = of[j]
        <4>1. PICK a \in tokens : Len(a) = top /\ g \in with(a)
          BY <2>8, <3>1
        <4>2. PICK j \in Named : V(j) = a /\ of[j] = g
          BY <1>4, <4>1
        <4>3. j \in named
          BY <4>1, <4>2 DEF tokens
        <4> HIDE DEF named, longest
        <4> QED
          BY <2>10, <4>1, <4>2, <4>3
      <3>2. ASSUME NEW j \in longest PROVE of[j] \in best
        <4>1. j \in named /\ j \in Named
          OBVIOUS
        <4>2. Len(V(j)) = top /\ V(j) \in tokens
          BY <2>1, <2>10, <4>1
        <4>3. of[j] \in with(V(j))
          BY <1>4, <4>1
        <4> QED
          BY <2>8, <4>2, <4>3
      <3> HIDE DEF longest
      <3> QED
        BY <3>1, <3>2
    <2>13. longest \subseteq named
      OBVIOUS
    <2> HIDE DEF named, longest
    <2>14. Min(best) = of[Min(longest)] /\ Min(longest) \in longest
      BY <1>1, <1>2, <1>9, <2>11, <2>12, FirstGroup
    <2>15. groupFor(ua) = Min(best) /\ agentLine(ua) = Min(longest)
      BY <1>5, <1>6, <1>11, <2>4
    <2> QED
      BY <2>1, <2>13, <2>14, <2>15
  <1> QED
    BY <1>10, <1>11

\* The lines an agent line governs are the rules of its group.
LEMMA GovernedAre ==
  ASSUME ParseInv, NEW of \in [1 .. Len(file) -> 0 .. Len(groups)],
         Grouped(of, Len(file), AgentsOf(file), RulesOf(file), Len(groups), startedRules),
         NEW j \in AgentsOf(file)
  PROVE  governed(j) = {i \in RulesOf(file) : of[i] = of[j]}
  <1> DEFINE n == Len(file)
             A == AgentsOf(file)
             R == RulesOf(file)
  <1>1. n \in Nat /\ j \in 1 .. n /\ j \notin R
    BY DEF ParseInv, AgentsOf, RulesOf
  <1>2. \A i \in 1 .. n : (isRule(i) <=> i \in R) /\ (isAgent(i) <=> i \in A)
    BY DEF isRule, isAgent, AgentsOf, RulesOf
  <1>3. R \subseteq 1 .. n /\ A \subseteq 1 .. n /\ A \cap R = {}
    BY DEF AgentsOf, RulesOf
  <1>4. /\ \A i \in j + 1 .. n : of[i] = of[j] <=> ~\E r \in R, a \in A : j < r /\ r < a /\ a <= i
        /\ \A r \in R : r < j => of[r] # of[j]
    BY DEF Grouped
  <1> HIDE DEF n, A, R
  <1>5. ASSUME NEW i \in R PROVE i \in governed(j) <=> of[i] = of[j]
    <2>1. i \in 1 .. n /\ i # j /\ i \notin A
      BY <1>1, <1>3
    <2>2. CASE i < j
      <3>1. i \notin governed(j)
        BY <1>1, <2>1, <2>2 DEF governed
      <3> QED
        BY <1>4, <2>2, <3>1
    <2>3. CASE i > j
      <3>1. i \in j + 1 .. n
        BY <1>1, <2>1, <2>3
      <3>2. i \in governed(j) <=> ~\E r, a \in j + 1 .. i - 1 : r < a /\ isRule(r) /\ isAgent(a)
        BY <1>2, <2>1, <3>1 DEF governed, n
      <3>3. ASSUME NEW r \in R, NEW a \in A, j < r, r < a, a <= i
            PROVE  \E q, b \in j + 1 .. i - 1 : q < b /\ isRule(q) /\ isAgent(b)
        <4>1. r \in 1 .. n /\ a \in 1 .. n /\ a # i
          BY <1>3, <2>1
        <4>2. r \in j + 1 .. i - 1 /\ a \in j + 1 .. i - 1
          BY <1>1, <2>1, <3>3, <4>1
        <4> QED
          BY <1>2, <3>3, <4>1, <4>2
      <3>4. ASSUME NEW r \in j + 1 .. i - 1, NEW a \in j + 1 .. i - 1, r < a, isRule(r), isAgent(a)
            PROVE  \E q \in R, b \in A : j < q /\ q < b /\ b <= i
        <4>1. r \in 1 .. n /\ a \in 1 .. n /\ j < r /\ a <= i
          BY <1>1, <2>1
        <4> QED
          BY <1>2, <3>4, <4>1
      <3> QED
        BY <1>4, <3>1, <3>2, <3>3, <3>4
    <2> QED
      BY <1>1, <2>1, <2>2, <2>3
  <1>6. governed(j) \subseteq R
    <2>1. ASSUME NEW i \in governed(j) PROVE i \in R
      <3>1. i \in j + 1 .. n /\ isRule(i)
        BY DEF governed, n
      <3> QED
        BY <1>1, <1>2, <3>1
    <2> QED
      BY <2>1
  <1> QED
    BY <1>5, <1>6 DEF R

\* The tables of the run are the matches of the patterns.
LEMMA TablesAgree ==
  ASSUME NEW p \in Patterns, NEW path \in Paths
  PROVE  /\ MatchTable[p][path] = IF MatchesTable[p][path] THEN size(p) ELSE -1
         /\ size(p) \in Nat
  <1>1. p \in Seq(Nat)
    BY RobotsAssumption DEF Patterns
  <1>2. path \in Seq(Nat)
    BY RobotsAssumption
  <1>3. normalizePath(path) \in Seq(Nat)
    <2>1. <<Slash>> \o path \in Seq(Nat)
      <3>1. <<Slash>> \in Seq(Nat)
        BY DEF Slash
      <3> QED
        BY <1>2, <3>1
    <2> QED
      BY <1>2, <2>1 DEF normalizePath
  <1>4. MatchTable[p][path] = matchLen(p, normalizePath(path))
    BY DEF MatchTable
  <1>5. MatchesTable[p][path] = Matches(p, normalizePath(path))
    BY DEF MatchesTable
  <1>6. size(p) \in Nat
    BY <1>1 DEF size, ends
  <1>7. matchLen(p, normalizePath(path)) = IF Matches(p, normalizePath(path)) THEN size(p) ELSE -1
    BY <1>1, <1>3, PatternsMatch
  <1> QED
    BY <1>4, <1>5, <1>6, <1>7

\* The loop of Allowed over k rules of weights w, -1 for a rule that does not match:
\* the longest so far, and whether one of that length allows.
WeighedAt(rules, w, k) ==
  {b \in [i : Nat, bestLen : Int, allow : BOOLEAN] :
    /\ b.i = k
    /\ \/ b.bestLen = -1 /\ b.allow = TRUE /\ \A i \in 1 .. k : w[i] < 0
       \/ /\ b.bestLen >= 0 /\ \E i \in 1 .. k : w[i] = b.bestLen
          /\ \A i \in 1 .. k : w[i] <= b.bestLen
          /\ b.allow <=> \E i \in 1 .. k : w[i] = b.bestLen /\ rules[i].allow}

\* The longest pattern that matches decides, and of two of one length the one that
\* allows.
LEMMA RulesWeighed ==
  ASSUME NEW rules \in Seq(Rules), NEW path, NEW w \in [1 .. Len(rules) -> Int],
         \A i \in 1 .. Len(rules) : w[i] = MatchTable[rules[i].pattern][path] /\ w[i] >= -1
  PROVE  LET end == Iterate(weighRule(rules, path), [i |-> 0, bestLen |-> -1, allow |-> TRUE], Len(rules))
         IN  ~end.allow <=> \E i \in 1 .. Len(rules) :
               /\ w[i] >= 0 /\ ~rules[i].allow
               /\ \A k \in 1 .. Len(rules) : w[k] >= 0 /\ rules[k].allow => w[k] < w[i]
  <1> DEFINE n == Len(rules)
             start == [i |-> 0, bestLen |-> -1, allow |-> TRUE]
             I == [k \in Nat |-> WeighedAt(rules, w, k)]
             end == Iterate(weighRule(rules, path), start, n)
  <1>1. n \in Nat /\ \A i \in 1 .. n : rules[i] \in Rules /\ rules[i].allow \in BOOLEAN
    <2>1. \A i \in 1 .. n : rules[i] \in Rules
      OBVIOUS
    <2> QED
      BY <2>1 DEF Rules
  <1>2. start \in I[0]
    <2>1. start \in WeighedAt(rules, w, 0)
      BY DEF WeighedAt
    <2> QED
      BY <2>1
  <1>3. ASSUME NEW k \in Nat, k < n, NEW b \in I[k] PROVE weighRule(rules, path)[b] \in I[k + 1]
    <2> DEFINE e == k + 1
               rule == rules[e]
               next == weighRule(rules, path)[b]
    <2>1. /\ b \in [i : Nat, bestLen : Int, allow : BOOLEAN] /\ b.i = k
          /\ \/ b.bestLen = -1 /\ b.allow = TRUE /\ \A i \in 1 .. k : w[i] < 0
             \/ /\ b.bestLen >= 0 /\ \E i \in 1 .. k : w[i] = b.bestLen
                /\ \A i \in 1 .. k : w[i] <= b.bestLen
                /\ b.allow <=> \E i \in 1 .. k : w[i] = b.bestLen /\ rules[i].allow
      BY DEF WeighedAt
    <2>2. e \in 1 .. n /\ e \in Nat /\ rule.allow \in BOOLEAN /\ w[e] \in Int
      BY <1>1, <1>3
    <2>3. b.bestLen \in Int /\ b.allow \in BOOLEAN
      BY <2>1
    <2>4. w[e] = MatchTable[rule.pattern][path] /\ w[e] >= -1
      BY <2>2
    <2>5. next = IF w[e] >= 0 /\ beats(w[e], rule, b.bestLen)
                 THEN [i |-> e, bestLen |-> w[e], allow |-> rule.allow] ELSE [b EXCEPT !.i = e]
      BY <2>1, <2>4 DEF weighRule
    <2>6. \A i : i \in 1 .. e <=> i \in 1 .. k \/ i = e
      BY <1>3
    <2>7. \A i \in 1 .. k : w[i] \in Int
      BY <1>1, <1>3
    <2> HIDE DEF next
    <2>8. CASE w[e] >= 0 /\ beats(w[e], rule, b.bestLen)
      <3>1. next = [i |-> e, bestLen |-> w[e], allow |-> rule.allow]
        BY <2>5, <2>8
      <3>2. next \in [i : Nat, bestLen : Int, allow : BOOLEAN]
            /\ next.i = e /\ next.bestLen = w[e] /\ next.allow = rule.allow
        BY <2>2, <3>1
      <3>3. w[e] > b.bestLen \/ (w[e] = b.bestLen /\ rule.allow)
        BY <2>8 DEF beats
      <3> HIDE DEF e, rule
      <3>4. \A i \in 1 .. k : w[i] <= w[e]
        BY <2>1, <2>2, <2>3, <2>7, <2>8, <3>3
      <3>5. rule.allow <=> \E i \in 1 .. e : w[i] = w[e] /\ rules[i].allow
        <4>1. rule = rules[e]
          BY DEF rule
        <4>2. ASSUME NEW i \in 1 .. k, w[i] = w[e], rules[i].allow PROVE rule.allow
          BY <2>1, <2>2, <2>3, <2>7, <2>8, <3>3, <4>2
        <4> QED
          BY <2>6, <4>1, <4>2
      <3>6. next \in WeighedAt(rules, w, e)
        <4>1. \E i \in 1 .. e : w[i] = w[e]
          BY <2>6
        <4>2. \A i \in 1 .. e : w[i] <= w[e]
          BY <2>2, <2>6, <3>4
        <4> QED
          BY <2>8, <3>2, <3>5, <4>1, <4>2 DEF WeighedAt
      <3> QED
        BY <3>6 DEF e, next
    <2>9. CASE ~(w[e] >= 0 /\ beats(w[e], rule, b.bestLen))
      <3>1. next = [b EXCEPT !.i = e]
        BY <2>5, <2>9
      <3>2. next \in [i : Nat, bestLen : Int, allow : BOOLEAN]
            /\ next.i = e /\ next.bestLen = b.bestLen /\ next.allow = b.allow
        BY <2>1, <2>2, <3>1
      <3>3. w[e] < 0 \/ ~(w[e] > b.bestLen \/ (w[e] = b.bestLen /\ rule.allow))
        BY <2>2, <2>9 DEF beats
      <3> HIDE DEF e, rule
      <3>4. rule = rules[e]
        BY DEF rule
      <3>5. CASE b.bestLen = -1 /\ b.allow = TRUE /\ \A i \in 1 .. k : w[i] < 0
        <4>1. w[e] < 0
          BY <2>2, <3>3, <3>5
        <4>2. \A i \in 1 .. e : w[i] < 0
          BY <2>6, <3>5, <4>1
        <4> QED
          BY <3>2, <3>5, <4>2 DEF WeighedAt, e, next
      <3>6. CASE /\ b.bestLen >= 0 /\ \E i \in 1 .. k : w[i] = b.bestLen
                 /\ \A i \in 1 .. k : w[i] <= b.bestLen
                 /\ b.allow <=> \E i \in 1 .. k : w[i] = b.bestLen /\ rules[i].allow
        <4>1. w[e] <= b.bestLen /\ ~(w[e] = b.bestLen /\ rule.allow)
          BY <2>2, <2>3, <3>3, <3>6
        <4>2. \A i \in 1 .. e : w[i] <= b.bestLen
          BY <2>6, <3>6, <4>1
        <4>3. \E i \in 1 .. e : w[i] = b.bestLen
          BY <2>6, <3>6
        <4>4. b.allow <=> \E i \in 1 .. e : w[i] = b.bestLen /\ rules[i].allow
          BY <2>6, <3>4, <3>6, <4>1
        <4>5. next \in WeighedAt(rules, w, e)
          BY <3>2, <3>6, <4>2, <4>3, <4>4 DEF WeighedAt
        <4> QED
          BY <4>5 DEF e, next
      <3> QED
        BY <2>1, <3>5, <3>6
    <2> QED
      BY <2>8, <2>9 DEF next
  <1> HIDE DEF I, start
  <1>4. end \in I[n]
    BY <1>1, <1>2, <1>3, LoopInvariant
  <1> HIDE DEF end
  <1>5. /\ end.bestLen \in Int /\ end.allow \in BOOLEAN
        /\ \/ end.bestLen = -1 /\ end.allow = TRUE /\ \A i \in 1 .. n : w[i] < 0
           \/ /\ end.bestLen >= 0 /\ \E i \in 1 .. n : w[i] = end.bestLen
              /\ \A i \in 1 .. n : w[i] <= end.bestLen
              /\ end.allow <=> \E i \in 1 .. n : w[i] = end.bestLen /\ rules[i].allow
    BY <1>1, <1>4 DEF I, WeighedAt
  <1>6. \A i \in 1 .. n : w[i] \in Int
    OBVIOUS
  <1>7. ~end.allow <=> \E i \in 1 .. n :
          /\ w[i] >= 0 /\ ~rules[i].allow
          /\ \A k \in 1 .. n : w[k] >= 0 /\ rules[k].allow => w[k] < w[i]
    <2> HIDE DEF n
    <2>1. CASE end.bestLen = -1 /\ end.allow = TRUE /\ \A i \in 1 .. n : w[i] < 0
      BY <1>6, <2>1
    <2>2. CASE /\ end.bestLen >= 0 /\ \E i \in 1 .. n : w[i] = end.bestLen
               /\ \A i \in 1 .. n : w[i] <= end.bestLen
               /\ end.allow <=> \E i \in 1 .. n : w[i] = end.bestLen /\ rules[i].allow
      <3>1. ASSUME ~end.allow
            PROVE  \E i \in 1 .. n : /\ w[i] >= 0 /\ ~rules[i].allow
                                     /\ \A k \in 1 .. n : w[k] >= 0 /\ rules[k].allow => w[k] < w[i]
        <4>1. PICK i \in 1 .. n : w[i] = end.bestLen
          BY <2>2
        <4>2. w[i] >= 0 /\ ~rules[i].allow
          BY <2>2, <3>1, <4>1
        <4>3. \A k \in 1 .. n : rules[k].allow => w[k] # w[i] /\ w[k] <= w[i]
          BY <2>2, <3>1, <4>1
        <4>4. \A k \in 1 .. n : rules[k].allow => w[k] < w[i]
          BY <1>6, <4>3
        <4> QED
          BY <4>2, <4>4
      <3>2. ASSUME NEW i \in 1 .. n, w[i] >= 0, ~rules[i].allow,
                   \A k \in 1 .. n : w[k] >= 0 /\ rules[k].allow => w[k] < w[i],
                   end.allow
            PROVE  FALSE
        <4>1. PICK k \in 1 .. n : w[k] = end.bestLen /\ rules[k].allow
          BY <2>2, <3>2
        <4>2. w[k] < w[i] /\ w[i] <= end.bestLen
          BY <2>2, <3>2, <4>1
        <4> QED
          BY <1>5, <1>6, <4>1, <4>2
      <3> QED
        BY <3>1, <3>2
    <2> QED
      BY <1>5, <2>1, <2>2
  <1> QED
    BY <1>7 DEF end, start

\* The answers are those of the agent's own lines.
LEMMA VerdictFollows == ParseInv => RobotsVerdict
  <1> SUFFICES ASSUME ParseInv, NEW ua \in UserAgents
               PROVE  LET mine == governed(agentLine(ua))
                          delays == {i \in mine : file[i].field = "crawl-delay" /\ file[i].value >= 0}
                          hits(field, path) ==
                            {i \in mine : file[i].field = field /\ MatchesTable[file[i].value][path]}
                      IN  /\ CrawlDelay(ua) = IF delays = {} THEN -1 ELSE file[Max(delays)].value
                          /\ \A path \in Paths : ~Allowed(ua, path) <=>
                               \E i \in hits("disallow", path) : file[i].value # <<>> /\
                                 \A a \in hits("allow", path) : size(file[a].value) < size(file[i].value)
    BY DEF RobotsVerdict
  <1> DEFINE n == Len(file)
             m == Len(groups)
             j == agentLine(ua)
             mine == governed(j)
             delays == {i \in mine : file[i].field = "crawl-delay" /\ file[i].value >= 0}
             hits(field, path) ==
               {i \in mine : file[i].field = field /\ MatchesTable[file[i].value][path]}
             refused(path) ==
               \E i \in hits("disallow", path) : file[i].value # <<>> /\
                 \A a \in hits("allow", path) : size(file[a].value) < size(file[i].value)
  <1> SUFFICES /\ CrawlDelay(ua) = IF delays = {} THEN -1 ELSE file[Max(delays)].value
               /\ \A path \in Paths : ~Allowed(ua, path) <=> refused(path)
    OBVIOUS
  <1>1. /\ n \in Nat /\ m \in Nat /\ groups \in Seq(Groups) /\ \A i \in 1 .. n : file[i] \in FileLines
    BY DEF ParseInv
  <1>2. PICK of \in [1 .. n -> 0 .. m] :
          /\ Grouped(of, n, AgentsOf(file), RulesOf(file), m, startedRules)
          /\ \A g \in 1 .. m : GroupIs(of, file, g, groups[g])
    BY DEF ParseInv
  <1>3. \/ j = n + 1 /\ groupFor(ua) = 0
        \/ j \in AgentsOf(file) /\ groupFor(ua) = of[j]
    BY <1>2, GroupOfAgent
  <1>4. CASE j = n + 1 /\ groupFor(ua) = 0
    <2>1. mine = {}
      <3>1. (n + 1) + 1 .. n = {}
        BY <1>1
      <3>2. governed(n + 1) = {}
        BY <3>1 DEF governed
      <3> QED
        BY <1>4, <3>2
    <2> HIDE DEF j
    <2>2. delays = {} /\ \A path : ~refused(path)
      BY <2>1
    <2>3. CrawlDelay(ua) = -1 /\ \A path : Allowed(ua, path)
      BY <1>4 DEF CrawlDelay, Allowed
    <2> QED
      BY <2>2, <2>3
  <1>5. CASE j \in AgentsOf(file) /\ groupFor(ua) = of[j]
    <2> DEFINE g == of[j]
               gr == groups[g]
               rules == gr.rules
    <2>1. j \in 1 .. n
      BY <1>5 DEF AgentsOf
    <2>2. g \in 1 .. m /\ groupFor(ua) = g /\ groupFor(ua) # 0
      <3>1. g >= 1
        BY <1>2, <1>5 DEF Grouped
      <3> QED
        BY <1>1, <1>2, <1>5, <2>1, <3>1
    <2>3. mine = {i \in RulesOf(file) : of[i] = g}
      BY <1>2, <1>5, GovernedAre
    <2>4. gr \in Groups /\ GroupIs(of, file, g, gr)
      BY <1>1, <1>2, <2>2
    <2>5. rules \in Seq(Rules)
      BY <2>4 DEF Groups
    <2>6. CrawlDelay(ua) = IF gr.hasDelay THEN gr.crawlDelay ELSE -1
      BY <2>2 DEF CrawlDelay
    <2> HIDE DEF g, j, gr
    <2>7. \A i : i \in mine <=> i \in 1 .. n /\ of[i] = g /\ file[i].field \in {"allow", "disallow", "crawl-delay"}
      BY <2>3 DEF RulesOf
    <2> HIDE DEF mine
    <2>8. delays = Kept(of, file, g, DelayLines)
      BY <1>1, <2>7 DEF Kept, DelayLines
    <2>9. CrawlDelay(ua) = IF delays = {} THEN -1 ELSE file[Max(delays)].value
      <3> HIDE DEF delays
      <3>1. gr.hasDelay <=> delays # {}
        BY <2>4, <2>8 DEF GroupIs
      <3>2. CASE delays = {}
        BY <2>6, <3>1, <3>2
      <3>3. CASE delays # {}
        <4>1. PICK i \in delays : file[i].value = gr.crawlDelay /\ \A k \in delays : k <= i
          BY <2>4, <2>8, <3>1, <3>3 DEF GroupIs
        <4>2. \A k \in delays : k \in Nat
          BY <2>8 DEF Kept
        <4>3. Max(delays) \in delays /\ \A k \in delays : Max(delays) >= k
          <5>1. delays \in SUBSET Nat /\ i \in Nat
            BY <4>2
          <5> QED
            BY <3>3, <4>1, <5>1, MaxOfNumbers
        <4> DEFINE x == Max(delays)
        <4>4. x \in delays /\ x >= i
          BY <4>3
        <4> HIDE DEF x
        <4>5. x <= i /\ x \in Nat /\ i \in Nat
          BY <4>1, <4>2, <4>4
        <4>6. x = i
          BY <4>4, <4>5
        <4> QED
          BY <2>6, <3>1, <3>3, <4>1, <4>6 DEF x
      <3> QED
        BY <3>2, <3>3
    <2>10. ASSUME NEW path \in Paths PROVE ~Allowed(ua, path) <=> refused(path)
      <3> DEFINE N == Len(rules)
                 w == [i \in 1 .. N |-> MatchTable[rules[i].pattern][path]]
                 hit(p) == MatchesTable[p][path]
                 end == Iterate(weighRule(rules, path), [i |-> 0, bestLen |-> -1, allow |-> TRUE], N)
                 R == ToSet(rules)
      <3>1. N \in Nat /\ \A i \in 1 .. N : rules[i] \in Rules /\ rules[i].pattern \in Patterns
        <4>1. N \in Nat /\ \A i \in 1 .. N : rules[i] \in Rules
          BY <2>5
        <4> QED
          BY <4>1 DEF Rules
      <3>2. \A i \in 1 .. N : /\ w[i] = IF hit(rules[i].pattern) THEN size(rules[i].pattern) ELSE -1
                              /\ size(rules[i].pattern) \in Nat
        BY <3>1, TablesAgree
      <3>3. w \in [1 .. N -> Int] /\ \A i \in 1 .. N : w[i] = MatchTable[rules[i].pattern][path] /\ w[i] >= -1
        <4>1. ASSUME NEW i \in 1 .. N PROVE w[i] \in Int /\ w[i] >= -1
          <5> HIDE DEF w
          <5> QED
            BY <3>2
        <4>2. w \in [1 .. N -> Int]
          BY <4>1
        <4> QED
          BY <4>1, <4>2
      <3>4. Allowed(ua, path) <=> end.allow
        BY <2>2 DEF Allowed, gr
      <3>5. R = {rules[i] : i \in 1 .. N}
        <4>1. DOMAIN rules = 1 .. N
          BY <2>5
        <4> QED
          BY <4>1 DEF ToSet
      <3> HIDE DEF w, rules
      <3>6. ~end.allow <=> \E i \in 1 .. N :
              /\ w[i] >= 0 /\ ~rules[i].allow
              /\ \A k \in 1 .. N : w[k] >= 0 /\ rules[k].allow => w[k] < w[i]
        BY <2>5, <3>3, RulesWeighed
      <3> HIDE DEF end
      <3>7. \A i \in 1 .. N : /\ w[i] >= 0 <=> hit(rules[i].pattern)
                              /\ hit(rules[i].pattern) => w[i] = size(rules[i].pattern)
        <4> HIDE DEF hit
        <4> QED
          BY <3>2
      <3> HIDE DEF hit, N, R
      <3>8. ~end.allow <=> \E r \in R :
              /\ hit(r.pattern) /\ ~r.allow
              /\ \A a \in R : hit(a.pattern) /\ a.allow => size(a.pattern) < size(r.pattern)
        <4>1. ASSUME ~end.allow
              PROVE  \E r \in R : /\ hit(r.pattern) /\ ~r.allow
                                  /\ \A a \in R : hit(a.pattern) /\ a.allow => size(a.pattern) < size(r.pattern)
          <5>1. PICK i \in 1 .. N : /\ w[i] >= 0 /\ ~rules[i].allow
                                    /\ \A k \in 1 .. N : w[k] >= 0 /\ rules[k].allow => w[k] < w[i]
            BY <3>6, <4>1
          <5>2. \A k \in 1 .. N : hit(rules[k].pattern) /\ rules[k].allow =>
                  size(rules[k].pattern) < size(rules[i].pattern)
            BY <3>7, <5>1
          <5> QED
            BY <3>5, <3>7, <5>1, <5>2
        <4>2. ASSUME NEW r \in R, hit(r.pattern), ~r.allow,
                     \A a \in R : hit(a.pattern) /\ a.allow => size(a.pattern) < size(r.pattern)
              PROVE  ~end.allow
          <5>1. PICK i \in 1 .. N : r = rules[i]
            BY <3>5
          <5>2. \A k \in 1 .. N : w[k] >= 0 /\ rules[k].allow => w[k] < w[i]
            BY <3>5, <3>7, <4>2, <5>1
          <5> QED
            BY <3>6, <3>7, <4>2, <5>1, <5>2
        <4> QED
          BY <4>1, <4>2
      <3>9. \A r : r \in R <=> \E i \in mine : /\ r = ruleOf(file[i])
                                               /\ \/ file[i].field = "allow"
                                                  \/ file[i].field = "disallow" /\ file[i].value # <<>>
        <4>1. R = {ruleOf(file[i]) : i \in Kept(of, file, g, RulingLines)}
          BY <2>4 DEF GroupIs, R, rules
        <4>2. \A i : i \in Kept(of, file, g, RulingLines) <=>
                i \in mine /\ (file[i].field = "allow" \/ (file[i].field = "disallow" /\ file[i].value # <<>>))
          BY <1>1, <2>7 DEF Kept, RulingLines
        <4> QED
          BY <4>1, <4>2
      <3>10. \A i : /\ ruleOf(file[i]).pattern = file[i].value
                    /\ ruleOf(file[i]).allow <=> file[i].field = "allow"
        BY DEF ruleOf
      <3>11. \A field : \A i : i \in hits(field, path) <=> i \in mine /\ file[i].field = field /\ hit(file[i].value)
        BY DEF hit
      <3> HIDE DEF hits
      <3>12. \A a : a \in hits("allow", path) => ruleOf(file[a]) \in R
        BY <3>9, <3>11
      <3>13. \A r \in R : hit(r.pattern) /\ r.allow => \E a \in hits("allow", path) : r = ruleOf(file[a])
        BY <3>9, <3>10, <3>11
      <3>14. \A r \in R : hit(r.pattern) /\ ~r.allow =>
               \E i \in hits("disallow", path) : r = ruleOf(file[i]) /\ file[i].value # <<>>
        BY <3>9, <3>10, <3>11
      <3>15. \A i \in hits("disallow", path) : file[i].value # <<>> =>
               ruleOf(file[i]) \in R /\ hit(ruleOf(file[i]).pattern) /\ ~ruleOf(file[i]).allow
        <4>1. "disallow" # "allow"
          OBVIOUS
        <4> QED
          BY <3>9, <3>10, <3>11, <4>1
      <3>16. \A a \in hits("allow", path) : hit(ruleOf(file[a]).pattern) /\ ruleOf(file[a]).allow
        BY <3>10, <3>11
      <3>17. ASSUME ~end.allow PROVE refused(path)
        <4>1. PICK r \in R : /\ hit(r.pattern) /\ ~r.allow
                             /\ \A a \in R : hit(a.pattern) /\ a.allow => size(a.pattern) < size(r.pattern)
          BY <3>8, <3>17
        <4>2. PICK i \in hits("disallow", path) : r = ruleOf(file[i]) /\ file[i].value # <<>>
          BY <3>14, <4>1
        <4>3. \A a \in hits("allow", path) : size(file[a].value) < size(file[i].value)
          BY <3>10, <3>12, <3>16, <4>1, <4>2
        <4> QED
          BY <4>2, <4>3
      <3>18. ASSUME refused(path) PROVE ~end.allow
        <4>1. PICK i \in hits("disallow", path) : file[i].value # <<>> /\
                \A a \in hits("allow", path) : size(file[a].value) < size(file[i].value)
          BY <3>18
        <4> DEFINE r == ruleOf(file[i])
        <4>2. r \in R /\ hit(r.pattern) /\ ~r.allow /\ r.pattern = file[i].value
          BY <3>10, <3>15, <4>1
        <4> HIDE DEF r
        <4>3. \A a \in R : hit(a.pattern) /\ a.allow => size(a.pattern) < size(r.pattern)
          BY <3>10, <3>13, <4>1, <4>2
        <4> QED
          BY <3>8, <4>2, <4>3
      <3> QED
        BY <3>4, <3>17, <3>18
    <2> QED
      BY <2>9, <2>10
  <1> QED
    BY <1>3, <1>4, <1>5

\* The page is refused exactly when a Disallow of the agent's own group matches it and
\* every matching Allow is shorter, and the delay is the last that group gives,
\* whatever the file and the path (Parse, Allowed and CrawlDelay, robots.go:61-172).
THEOREM RobotsAreObeyed == RobotsSpec => []RobotsVerdict
  BY ParseInvHolds, VerdictFollows, PTL
=============================================================================
