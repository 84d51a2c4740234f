----------------------------- MODULE IndexProofs -----------------------------
(***************************************************************************)
(* Proofs about the index of a node: the posting codec loses nothing,      *)
(* Block-Max WAND over its lists returns the first k hits of the           *)
(* exhaustive scan, and a merge of segments gains something.               *)
(***************************************************************************)
EXTENDS Wand, Segment, IterationProofs, SequenceTheorems

-----------------------------------------------------------------------------
(***************************************************************************)
(* Places in an order.  The rank of an element is an injection into the    *)
(* numbers below the cardinality, and so is onto them.                     *)
(***************************************************************************)

\* An order is a set of pairs; it is strict and total on S.
StrictOrder(S, R) ==
  /\ \A x \in S : <<x, x>> \notin R
  /\ \A x, y \in S : x # y => <<x, y>> \in R \/ <<y, x>> \in R
  /\ \A x, y, z \in S : <<x, y>> \in R /\ <<y, z>> \in R => <<x, z>> \in R

\* The elements of S that come before x.
Ahead(S, R, x) == {y \in S : <<y, x>> \in R}

\* A rank is a number below the cardinality, and grows along the order.
LEMMA RankGrows ==
  ASSUME NEW S, IsFiniteSet(S), NEW R, StrictOrder(S, R)
  PROVE  /\ \A x \in S : IsFiniteSet(Ahead(S, R, x)) /\ Cardinality(Ahead(S, R, x)) \in 0 .. Cardinality(S) - 1
         /\ \A x, y \in S : <<x, y>> \in R => Cardinality(Ahead(S, R, x)) < Cardinality(Ahead(S, R, y))
  <1>1. Cardinality(S) \in Nat
    BY FS_CardinalityType
  <1>2. ASSUME NEW x \in S
        PROVE  IsFiniteSet(Ahead(S, R, x)) /\ Cardinality(Ahead(S, R, x)) \in 0 .. Cardinality(S) - 1
    <2>1. Ahead(S, R, x) \in SUBSET S /\ Ahead(S, R, x) # S
      BY DEF Ahead, StrictOrder
    <2>2. /\ IsFiniteSet(Ahead(S, R, x)) /\ Cardinality(Ahead(S, R, x)) <= Cardinality(S)
          /\ Cardinality(S) # Cardinality(Ahead(S, R, x))
      BY <2>1, FS_Subset
    <2>3. Cardinality(Ahead(S, R, x)) \in Nat
      BY <2>2, FS_CardinalityType
    <2> QED
      BY <1>1, <2>2, <2>3
  <1>3. ASSUME NEW x \in S, NEW y \in S, <<x, y>> \in R
        PROVE  Cardinality(Ahead(S, R, x)) < Cardinality(Ahead(S, R, y))
    <2>1. Ahead(S, R, x) \in SUBSET Ahead(S, R, y) /\ x \in Ahead(S, R, y) /\ x \notin Ahead(S, R, x)
      BY <1>3 DEF Ahead, StrictOrder
    <2>2. Ahead(S, R, x) # Ahead(S, R, y)
      BY <2>1
    <2>3. /\ Cardinality(Ahead(S, R, x)) <= Cardinality(Ahead(S, R, y))
          /\ Cardinality(Ahead(S, R, y)) # Cardinality(Ahead(S, R, x))
      BY <1>2, <2>1, <2>2, FS_Subset
    <2>4. Cardinality(Ahead(S, R, x)) \in Nat /\ Cardinality(Ahead(S, R, y)) \in Nat
      BY <1>1, <1>2
    <2> QED
      BY <2>3, <2>4
  <1> QED
    BY <1>2, <1>3

\* Two elements never share a rank.
LEMMA RankIsOwn ==
  ASSUME NEW S, IsFiniteSet(S), NEW R, StrictOrder(S, R), NEW x \in S, NEW y \in S,
         Cardinality(Ahead(S, R, x)) = Cardinality(Ahead(S, R, y))
  PROVE  x = y
  <1>1. Cardinality(Ahead(S, R, x)) \in Int /\ Cardinality(Ahead(S, R, y)) \in Int
    BY RankGrows, FS_CardinalityType
  <1>2. <<x, y>> \notin R /\ <<y, x>> \notin R
    BY <1>1, RankGrows
  <1> QED
    BY <1>2 DEF StrictOrder

\* Every rank is taken.
LEMMA RankIsTaken ==
  ASSUME NEW S, IsFiniteSet(S), NEW R, StrictOrder(S, R), NEW i \in 0 .. Cardinality(S) - 1
  PROVE  \E x \in S : Cardinality(Ahead(S, R, x)) = i
  <1> DEFINE c == Cardinality(S)
             T == 0 .. c - 1
             f == [x \in S |-> Cardinality(Ahead(S, R, x))]
  <1>1. c \in Nat
    BY FS_CardinalityType
  <1>2. f \in Injection(S, T)
    <2>1. f \in [S -> T]
      BY RankGrows
    <2>2. \A x, y \in S : f[x] = f[y] => x = y
      BY RankIsOwn
    <2> QED
      BY <2>1, <2>2 DEF Injection, IsInjective
  <1>3. IsFiniteSet(T) /\ Cardinality(T) = c
    BY <1>1, FS_Interval
  <1>4. f \in Surjection(S, T)
    <2> HIDE DEF f, T
    <2> QED
      BY <1>2, <1>3, FS_Injection
  <1>5. \A t \in T : \E x \in S : f[x] = t
    BY <1>4 DEF Surjection
  <1> QED
    BY <1>5

\* The elements of S by rank.
InOrder(S, R) == [i \in 1 .. Cardinality(S) |-> CHOOSE x \in S : Cardinality(Ahead(S, R, x)) = i - 1]

\* They are all there, once each, and in order.
LEMMA OrderIsWhole ==
  ASSUME NEW S, IsFiniteSet(S), NEW R, StrictOrder(S, R)
  PROVE  /\ InOrder(S, R) \in Seq(S) /\ Len(InOrder(S, R)) = Cardinality(S) /\ Cardinality(S) \in Nat
         /\ \A i \in 1 .. Cardinality(S) : InOrder(S, R)[i] \in S
         /\ \A i \in 1 .. Cardinality(S) : Cardinality(Ahead(S, R, InOrder(S, R)[i])) = i - 1
         /\ \A i, j \in 1 .. Cardinality(S) : InOrder(S, R)[i] = InOrder(S, R)[j] => i = j
         /\ \A i, j \in 1 .. Cardinality(S) : i < j => <<InOrder(S, R)[i], InOrder(S, R)[j]>> \in R
         /\ \A x \in S : \E i \in 1 .. Cardinality(S) : InOrder(S, R)[i] = x
  <1> DEFINE c == Cardinality(S)
             o == InOrder(S, R)
  <1>1. c \in Nat
    BY FS_CardinalityType
  <1>2. \A i \in 1 .. c : o[i] = CHOOSE x \in S : Cardinality(Ahead(S, R, x)) = i - 1
    BY DEF InOrder
  <1>3. ASSUME NEW i \in 1 .. c PROVE o[i] \in S /\ Cardinality(Ahead(S, R, o[i])) = i - 1
    <2>1. i - 1 \in 0 .. c - 1
      BY <1>1
    <2>2. \E x \in S : Cardinality(Ahead(S, R, x)) = i - 1
      BY <2>1, RankIsTaken
    <2> HIDE DEF o
    <2> QED
      BY <1>2, <2>2
  <1>4. o \in Seq(S) /\ Len(o) = c
    <2>1. o = [i \in 1 .. c |-> o[i]]
      BY DEF InOrder
    <2> HIDE DEF o, c
    <2> QED
      BY <1>1, <1>3, <2>1
  <1> HIDE DEF o
  <1>5. ASSUME NEW i \in 1 .. c, NEW j \in 1 .. c, o[i] = o[j] PROVE i = j
    BY <1>3, <1>5
  <1>6. ASSUME NEW i \in 1 .. c, NEW j \in 1 .. c, i < j PROVE <<o[i], o[j]>> \in R
    <2>1. o[i] # o[j]
      BY <1>5, <1>6
    <2>2. CASE <<o[j], o[i]>> \in R
      <3>1. Cardinality(Ahead(S, R, o[j])) < Cardinality(Ahead(S, R, o[i]))
        BY <1>3, <2>2, RankGrows
      <3> QED
        BY <1>3, <1>6, <3>1
    <2> QED
      BY <1>3, <2>1, <2>2 DEF StrictOrder
  <1>7. ASSUME NEW x \in S PROVE \E i \in 1 .. c : o[i] = x
    <2>1. PICK i \in 1 .. c : Cardinality(Ahead(S, R, x)) = i - 1
      <3>1. PICK r : r = Cardinality(Ahead(S, R, x))
        OBVIOUS
      <3>2. r \in 0 .. c - 1
        BY <3>1, RankGrows
      <3>3. r + 1 \in 1 .. c /\ r = (r + 1) - 1
        BY <1>1, <3>2
      <3> QED
        BY <3>1, <3>3
    <2>2. o[i] = x
      BY <1>3, <2>1, RankIsOwn
    <2> QED
      BY <2>2
  <1> QED
    BY <1>1, <1>3, <1>4, <1>5, <1>6, <1>7 DEF o

-----------------------------------------------------------------------------
(***************************************************************************)
(* Sums, and the extremes of finite sets.                                  *)
(***************************************************************************)

\* The sum of a function's values is its weight.
LEMMA SumIsItsWeight ==
  ASSUME NEW S, IsFiniteSet(S), NEW f, DOMAIN f = S, \A x \in S : f[x] \in Nat
  PROVE  SumFunction(f) = Weight(f, S) /\ SumFunction(f) \in Nat
  <1>1. SumFunction(f) = Total(f, DOMAIN f)
    BY Zenon DEF SumFunction, SumFunctionOnSet, FoldFunctionOnSet, Total, MapThenSumSet
  <1>2. Total(f, S) = Weight(f, S)
    BY TotalIsWeight
  <1>3. Weight(f, S) \in Nat
    BY WeightAdds
  <1> QED
    BY <1>1, <1>2, <1>3

\* Larger values over more elements have no smaller weight.
LEMMA WeightMonotone ==
  ASSUME NEW T, IsFiniteSet(T), NEW S \in SUBSET T, NEW f, NEW g,
         \A x \in T : g[x] \in Nat, \A x \in S : f[x] \in Nat /\ f[x] <= g[x]
  PROVE  Weight(f, S) <= Weight(g, T) /\ Weight(f, S) \in Nat /\ Weight(g, T) \in Nat
  <1>1. Units(f, S) \in SUBSET Units(g, T)
    <2> SUFFICES ASSUME NEW p \in Units(f, S) PROVE p \in Units(g, T)
      OBVIOUS
    <2>1. p \in S \X Nat /\ 1 <= p[2] /\ p[2] <= f[p[1]]
      BY DEF Units
    <2>2. PICK y \in S, i \in Nat : p = <<y, i>>
      BY <2>1
    <2>3. y \in T /\ 1 <= i /\ i <= g[y]
      BY <2>1, <2>2
    <2> QED
      BY <2>2, <2>3 DEF Units
  <1>2. IsFiniteSet(Units(g, T)) /\ Weight(g, T) \in Nat
    BY WeightAdds
  <1>3. Cardinality(Units(f, S)) <= Cardinality(Units(g, T)) /\ IsFiniteSet(Units(f, S))
    BY <1>1, <1>2, FS_Subset
  <1>4. Weight(f, S) \in Nat
    BY <1>3, FS_CardinalityType DEF Weight
  <1> QED
    BY <1>2, <1>3, <1>4 DEF Weight

\* No elements weigh nothing, and one weighs its value.
LEMMA WeightOfOne ==
  ASSUME NEW f, NEW x, f[x] \in Nat
  PROVE  Weight(f, {}) = 0 /\ Weight(f, {x}) = f[x]
  <1>1. IsFiniteSet({x})
    BY FS_Singleton, Zenon
  <1>2. PICK S : S = {x}
    OBVIOUS
  <1>3. /\ Weight(f, {}) = 0
        /\ \A T \in SUBSET S : \A y \in S : y \notin T => Weight(f, T \cup {y}) = f[y] + Weight(f, T)
    <2>1. \A y \in S : f[y] \in Nat
      BY <1>2
    <2> QED
      BY <1>1, <1>2, <2>1, WeightAdds
  <1>4. Weight(f, {} \cup {x}) = f[x] + Weight(f, {})
    BY <1>2, <1>3
  <1>5. {} \cup {x} = {x}
    OBVIOUS
  <1> QED
    BY <1>3, <1>4, <1>5

\* A finite set of numbers that is not empty has a largest and a least element.
LEMMA Extremes ==
  ASSUME NEW S \in SUBSET Int, IsFiniteSet(S), S # {}
  PROVE  /\ Max(S) \in S /\ \A y \in S : y <= Max(S)
         /\ Min(S) \in S /\ \A y \in S : Min(S) <= y
  <1> DEFINE R == {p \in S \X S : p[1] < p[2]}
             c == Cardinality(S)
  <1>1. StrictOrder(S, R)
    BY DEF StrictOrder
  <1>2. c \in Nat /\ c # 0
    BY FS_CardinalityType, FS_EmptySet
  <1> HIDE DEF R
  <1>3. PICK lo \in S : Cardinality(Ahead(S, R, lo)) = 0
    <2>1. 0 \in 0 .. c - 1
      BY <1>2
    <2> QED
      BY <1>1, <2>1, RankIsTaken
  <1>4. PICK hi \in S : Cardinality(Ahead(S, R, hi)) = c - 1
    <2>1. c - 1 \in 0 .. c - 1
      BY <1>2
    <2> QED
      BY <1>1, <2>1, RankIsTaken
  <1>5. \A y \in S : Cardinality(Ahead(S, R, y)) \in 0 .. c - 1
    BY <1>1, RankGrows
  <1>6. ASSUME NEW y \in S PROVE lo <= y /\ y <= hi
    <2>1. <<y, lo>> \notin R /\ <<hi, y>> \notin R
      BY <1>1, <1>2, <1>3, <1>4, <1>5, RankGrows
    <2> QED
      BY <2>1 DEF R
  <1>7. \E x \in S : \A y \in S : x >= y
    BY <1>6
  <1>8. \E x \in S : \A y \in S : x =< y
    BY <1>6
  <1>9. Max(S) \in S /\ \A y \in S : Max(S) >= y
    BY <1>7 DEF Max
  <1>10. Min(S) \in S /\ \A y \in S : Min(S) =< y
    BY <1>8 DEF Min
  <1> QED
    BY <1>9, <1>10

\* A set of places in ascending order: all of them, once each.
LEMMA AscendingIsWhole ==
  ASSUME NEW N \in Nat, NEW S \in SUBSET (1 .. N)
  PROVE  /\ IsFiniteSet(S) /\ Cardinality(S) \in Nat
         /\ ascending(S) \in Seq(S) /\ Len(ascending(S)) = Cardinality(S)
         /\ \A i, j \in 1 .. Cardinality(S) : ascending(S)[i] = ascending(S)[j] => i = j
         /\ \A x \in S : \E i \in 1 .. Cardinality(S) : ascending(S)[i] = x
  <1>1. IsFiniteSet(S)
    <2>1. IsFiniteSet(1 .. N)
      BY FS_Interval
    <2>2. PICK T : T = 1 .. N
      OBVIOUS
    <2> QED
      BY <2>1, <2>2, FS_Subset
  <1> DEFINE R == {p \in S \X S : p[1] < p[2]}
  <1>2. StrictOrder(S, R)
    BY DEF StrictOrder
  <1>3. \A i \in S : {r \in S : r < i} = Ahead(S, R, i)
    BY DEF Ahead
  <1> HIDE DEF R
  <1>4. ascending(S) = InOrder(S, R)
    <2> DEFINE a(j) == CHOOSE i \in S : Cardinality({r \in S : r < i}) = j - 1
               b(j) == CHOOSE i \in S : Cardinality(Ahead(S, R, i)) = j - 1
    <2>1. ASSUME NEW j PROVE a(j) = b(j)
      <3> DEFINE A(i) == i \in S /\ Cardinality({r \in S : r < i}) = j - 1
                 B(i) == i \in S /\ Cardinality(Ahead(S, R, i)) = j - 1
      <3>1. \A i : A(i) <=> B(i)
        BY <1>3
      <3>2. (CHOOSE i : A(i)) = (CHOOSE i : B(i))
        <4> HIDE DEF A, B
        <4> QED
          BY <3>1, Zenon
      <3> QED
        BY <3>2
    <2>2. ascending(S) = [j \in 1 .. Cardinality(S) |-> a(j)]
      BY DEF ascending
    <2>3. InOrder(S, R) = [j \in 1 .. Cardinality(S) |-> b(j)]
      BY DEF InOrder
    <2> HIDE DEF a, b
    <2> QED
      BY <2>1, <2>2, <2>3
  <1> QED
    BY <1>1, <1>2, <1>4, OrderIsWhole

\* The largest of a sequence of numbers that is not empty is one of them.
LEMMA MaxOfIsReached ==
  ASSUME NEW n \in Nat \ {0}, NEW vs \in [1 .. n -> Nat]
  PROVE  /\ maxOf(vs) \in Nat /\ \A i \in 1 .. n : vs[i] <= maxOf(vs)
         /\ \E i \in 1 .. n : vs[i] = maxOf(vs)
  <1> DEFINE S == ToSet(vs) \cup {0}
  <1>1. ToSet(vs) = {vs[i] : i \in 1 .. n}
    BY DEF ToSet
  <1>2. IsFiniteSet(ToSet(vs))
    <2>1. IsFiniteSet(1 .. n)
      BY FS_Interval
    <2>2. PICK T : T = 1 .. n
      OBVIOUS
    <2>3. vs \in Surjection(T, ToSet(vs))
      BY <1>1, <2>2 DEF Surjection
    <2> QED
      BY <2>1, <2>2, <2>3, FS_Surjection
  <1>3. IsFiniteSet(S) /\ S \in SUBSET Int /\ S # {}
    <2>1. IsFiniteSet(S)
      BY <1>2, FS_AddElement
    <2> QED
      BY <1>1, <2>1
  <1>4. maxOf(vs) = Max(S)
    BY DEF maxOf
  <1>5. S = {vs[i] : i \in 1 .. n} \cup {0}
    BY <1>1
  <1> HIDE DEF S
  <1>6. Max(S) \in S /\ \A y \in S : y <= Max(S)
    BY <1>3, Extremes
  <1>7. \A i \in 1 .. n : vs[i] \in S /\ vs[i] \in Nat
    BY <1>5
  <1>8. Max(S) \in Nat
    BY <1>5, <1>6
  <1>9. \E i \in 1 .. n : vs[i] = Max(S)
    <2>1. CASE Max(S) = 0
      <3>1. 1 \in 1 .. n /\ vs[1] <= 0
        BY <1>6, <1>7, <2>1
      <3> QED
        BY <1>7, <2>1, <3>1
    <2>2. CASE Max(S) # 0
      BY <1>5, <1>6, <2>2
    <2> QED
      BY <2>1, <2>2
  <1> QED
    BY <1>4, <1>6, <1>7, <1>8, <1>9

-----------------------------------------------------------------------------
(***************************************************************************)
(* Powers of two and digits: a number is what its digits make of it.       *)
(***************************************************************************)

\* Multiplying and dividing.
LEMMA Dividing ==
  ASSUME NEW x \in Nat, NEW K \in Nat \ {0}
  PROVE  x \div K \in Nat /\ x % K \in 0 .. K - 1 /\ x = K * (x \div K) + (x % K)
  OBVIOUS

\* A number in terms of a quotient and a rest.
LEMMA Divided ==
  ASSUME NEW x \in Nat, NEW K \in Nat \ {0}
  PROVE  \E a \in Nat, s \in 0 .. K - 1 : x \div K = a /\ x % K = s /\ x = K * a + s
  BY Dividing

\* A quotient and a rest are those of the number they make.
LEMMA DividedBy ==
  ASSUME NEW K \in Nat \ {0}, NEW q \in Nat, NEW r \in 0 .. K - 1, NEW x, x = K * q + r
  PROVE  x \in Nat /\ x \div K = q /\ x % K = r
  OBVIOUS

\* Dividing by a product is dividing twice.
LEMMA DividedTwice ==
  ASSUME NEW x \in Nat, NEW K \in Nat \ {0}, NEW B \in Nat \ {0}
  PROVE  /\ K * B \in Nat \ {0}
         /\ x \div (K * B) = (x \div K) \div B
         /\ x % (K * B) = (x % K) + ((x \div K) % B) * K
  <1>1. PICK q \in Nat, r \in 0 .. K - 1 : x \div K = q /\ x % K = r /\ x = K * q + r
    BY Dividing
  <1>2. PICK p \in Nat, s \in 0 .. B - 1 : q \div B = p /\ q % B = s /\ q = B * p + s
    BY Dividing
  <1>3. K * B \in Nat \ {0}
    OBVIOUS
  <1>4. x = (K * B) * p + (K * s + r)
    <2>1. K * q = K * (B * p) + K * s
      BY <1>2
    <2>2. K * (B * p) = (K * B) * p
      OBVIOUS
    <2>3. K * s \in Nat /\ (K * B) * p \in Nat
      OBVIOUS
    <2> QED
      BY <1>1, <2>1, <2>2, <2>3
  <1>5. K * s + r \in 0 .. K * B - 1
    <2>1. K * s <= K * (B - 1) /\ K * s \in Nat
      OBVIOUS
    <2>2. K * (B - 1) = K * B - K /\ K * B \in Nat
      OBVIOUS
    <2> QED
      BY <2>1, <2>2
  <1>6. PICK t : t = K * s + r
    OBVIOUS
  <1>7. x \div (K * B) = p /\ x % (K * B) = t
    <2>1. PICK M \in Nat \ {0} : M = K * B
      BY <1>3
    <2>2. x = M * p + t /\ t \in 0 .. M - 1
      BY <1>4, <1>5, <1>6, <2>1
    <2>3. x \div M = p /\ x % M = t
      BY <2>2, DividedBy
    <2> QED
      BY <2>1, <2>3
  <1> QED
    BY <1>1, <1>2, <1>3, <1>6, <1>7

\* The powers of two.
LEMMA BitIs ==
  /\ Bit[0] = 1 /\ \A n \in 0 .. MaxWidth : Bit[n] \in Nat \ {0}
  /\ \A n \in 0 .. MaxWidth - 1 : Bit[n + 1] = 2 * Bit[n]
  <1> DEFINE dbl == [x \in Nat |-> 2 * x]
             P == {n \in Nat : Iterate(dbl, 1, n) \in Nat \ {0}}
  <1>1. Iterate(dbl, 1, 0) = 1 /\ \A n \in Nat : Iterate(dbl, 1, n + 1) = dbl[Iterate(dbl, 1, n)]
    <2>1. 0 \in Nat
      OBVIOUS
    <2> HIDE DEF dbl
    <2> QED
      BY <2>1, IterateStep
  <1>2. Nat \subseteq P
    <2>1. 0 \in P
      BY <1>1
    <2>2. ASSUME NEW n \in Nat, n \in P PROVE n + 1 \in P
      <3>1. PICK x \in Nat \ {0} : x = Iterate(dbl, 1, n)
        BY <2>2
      <3>2. Iterate(dbl, 1, n + 1) = 2 * x
        BY <1>1, <3>1
      <3> QED
        BY <3>2
    <2>3. P \in SUBSET Nat
      OBVIOUS
    <2> HIDE DEF P
    <2> QED
      BY <2>1, <2>2, <2>3, NumberInduction
  <1>3. MaxWidth \in Nat
    BY CodecAssumption
  <1>4. \A n \in 0 .. MaxWidth : Bit[n] = Iterate(dbl, 1, n) /\ Bit[n] \in Nat \ {0}
    BY <1>2 DEF Bit
  <1>5. ASSUME NEW n \in 0 .. MaxWidth - 1 PROVE Bit[n + 1] = 2 * Bit[n]
    <2>1. n \in Nat /\ n \in 0 .. MaxWidth /\ n + 1 \in 0 .. MaxWidth
      BY <1>3
    <2>2. Bit[n + 1] = dbl[Iterate(dbl, 1, n)] /\ Bit[n] = Iterate(dbl, 1, n) /\ Bit[n] \in Nat
      BY <1>1, <1>4, <2>1
    <2> QED
      BY <2>2
  <1>6. Bit[0] = 1
    BY <1>1, <1>3, <1>4
  <1> QED
    BY <1>4, <1>5, <1>6

\* Shifting twice is shifting once by the sum.
LEMMA BitAdds ==
  ASSUME NEW m \in Nat, NEW n \in Nat, m + n <= MaxWidth
  PROVE  Bit[m + n] = Bit[m] * Bit[n]
  <1>1. MaxWidth \in Nat
    BY CodecAssumption
  <1> DEFINE P == {i \in Nat : m + i <= MaxWidth => Bit[m + i] = Bit[m] * Bit[i]}
  <1>2. 0 \in P
    <2> SUFFICES ASSUME m + 0 <= MaxWidth PROVE Bit[m + 0] = Bit[m] * Bit[0]
      OBVIOUS
    <2>1. m \in 0 .. MaxWidth /\ m + 0 = m
      BY <1>1
    <2>2. Bit[m] \in Nat /\ Bit[0] = 1
      BY <2>1, BitIs
    <2> QED
      BY <2>1, <2>2
  <1>3. ASSUME NEW i \in Nat, i \in P PROVE i + 1 \in P
    <2> SUFFICES ASSUME m + (i + 1) <= MaxWidth PROVE Bit[m + (i + 1)] = Bit[m] * Bit[i + 1]
      OBVIOUS
    <2>1. m + i \in 0 .. MaxWidth - 1 /\ i \in 0 .. MaxWidth - 1 /\ m \in 0 .. MaxWidth /\ m + (i + 1) = (m + i) + 1
      BY <1>1
    <2>2. Bit[(m + i) + 1] = 2 * Bit[m + i] /\ Bit[i + 1] = 2 * Bit[i]
      BY <2>1, BitIs
    <2>3. Bit[m + i] = Bit[m] * Bit[i]
      BY <1>1, <1>3, <2>1
    <2>4. PICK x \in Nat, y \in Nat : x = Bit[m] /\ y = Bit[i]
      BY <2>1, <1>1, BitIs
    <2>5. 2 * (x * y) = x * (2 * y)
      OBVIOUS
    <2> QED
      BY <2>1, <2>2, <2>3, <2>4, <2>5
  <1> HIDE DEF P
  <1>4. P \in SUBSET Nat
    BY DEF P
  <1>5. n \in P
    BY <1>2, <1>3, <1>4, NumberInduction
  <1> QED
    BY <1>5 DEF P

\* The shifts the codec makes by constants.
LEMMA BitValues == Bit[1] = 2 /\ Bit[2] = 4 /\ Bit[7] = 128 /\ Bit[8] = 256
  <1>1. MaxWidth \in 28 .. 32 /\ Bit[0] = 1
    BY CodecAssumption, BitIs
  <1>2. \A n \in 0 .. 7 : Bit[n + 1] = 2 * Bit[n]
    BY <1>1, BitIs
  <1>3. Bit[0 + 1] = 2 * Bit[0] /\ Bit[1 + 1] = 2 * Bit[1] /\ Bit[2 + 1] = 2 * Bit[2] /\ Bit[3 + 1] = 2 * Bit[3]
    BY <1>2
  <1>4. Bit[4 + 1] = 2 * Bit[4] /\ Bit[5 + 1] = 2 * Bit[5] /\ Bit[6 + 1] = 2 * Bit[6] /\ Bit[7 + 1] = 2 * Bit[7]
    BY <1>2
  <1>5. Bit[1] = 2 /\ Bit[2] = 4 /\ Bit[3] = 8 /\ Bit[4] = 16
    BY <1>1, <1>3
  <1> QED
    BY <1>4, <1>5

\* Products of numbers.
LEMMA Times ==
  ASSUME NEW b \in Nat, NEW m \in Nat
  PROVE  /\ b * m \in Nat /\ b * (m + 1) = b * m + b /\ b * 0 = 0 /\ b * 1 = b
         /\ \A i \in Nat : i <= m => b * i <= b * m /\ b * i \in Nat
         /\ \A i \in Nat : b * i + b * m = b * (i + m)
  OBVIOUS

\* No digits make nothing, and one more digit adds its value at its place.
LEMMA NumberOfMore ==
  ASSUME NEW bits \in Nat, NEW n \in Nat, bits * n <= MaxWidth,
         NEW ds, DOMAIN ds = 1 .. n + 1, \A i \in 1 .. n + 1 : ds[i] \in Nat,
         NEW es, DOMAIN es = 1 .. n, \A i \in 1 .. n : es[i] = ds[i]
  PROVE  /\ numberOf(ds, bits) \in Nat /\ numberOf(es, bits) \in Nat
         /\ numberOf(ds, bits) = numberOf(es, bits) + ds[n + 1] * Bit[bits * n]
  <1> DEFINE f == [i \in DOMAIN ds |-> ds[i] * Bit[bits * (i - 1)]]
             g == [i \in DOMAIN es |-> es[i] * Bit[bits * (i - 1)]]
  <1>1. \A i \in 1 .. n + 1 : f[i] = ds[i] * Bit[bits * (i - 1)] /\ f[i] \in Nat
    <2> SUFFICES ASSUME NEW i \in 1 .. n + 1 PROVE f[i] = ds[i] * Bit[bits * (i - 1)] /\ f[i] \in Nat
      OBVIOUS
    <2>1. PICK j \in Nat : j = i - 1 /\ j <= n
      OBVIOUS
    <2>2. MaxWidth \in Nat
      BY CodecAssumption
    <2>3. bits * j \in 0 .. MaxWidth
      <3>1. bits * j \in Nat /\ bits * j <= bits * n /\ bits * n \in Nat
        BY <2>1, Times
      <3> QED
        BY <2>2, <3>1
    <2>4. Bit[bits * j] \in Nat
      BY <2>3, BitIs
    <2>5. PICK x \in Nat, y \in Nat : x = ds[i] /\ y = Bit[bits * (i - 1)]
      BY <2>1, <2>4
    <2>6. f[i] = x * y /\ x * y \in Nat
      BY <2>5
    <2> QED
      BY <2>5, <2>6
  <1>2. \A i \in 1 .. n : g[i] = f[i]
    OBVIOUS
  <1>3. DOMAIN f = 1 .. n + 1 /\ DOMAIN g = 1 .. n
    OBVIOUS
  <1>4. numberOf(ds, bits) = SumFunction(f) /\ numberOf(es, bits) = SumFunction(g)
    BY DEF numberOf
  <1>5. f[n + 1] = ds[n + 1] * Bit[bits * n]
    <2>1. n + 1 \in 1 .. n + 1 /\ (n + 1) - 1 = n
      OBVIOUS
    <2> HIDE DEF f
    <2> QED
      BY <1>1, <2>1
  <1> HIDE DEF f, g
  <1>6. PICK S : S = 1 .. n + 1
    OBVIOUS
  <1>7. PICK T : T = 1 .. n
    OBVIOUS
  <1>8. /\ IsFiniteSet(S) /\ IsFiniteSet(T) /\ T \in SUBSET S /\ n + 1 \in S /\ n + 1 \notin T
        /\ S = T \cup {n + 1}
    <2>1. IsFiniteSet(1 .. n + 1) /\ IsFiniteSet(1 .. n)
      BY FS_Interval
    <2> QED
      BY <1>6, <1>7, <2>1
  <1>9. SumFunction(f) = Weight(f, S) /\ SumFunction(f) \in Nat
    BY <1>1, <1>3, <1>6, <1>8, SumIsItsWeight
  <1>10. SumFunction(g) = Weight(g, T) /\ SumFunction(g) \in Nat
    <2>1. \A i \in T : g[i] \in Nat
      <3>1. \A i \in 1 .. n : i \in 1 .. n + 1
        OBVIOUS
      <3> QED
        BY <1>1, <1>2, <1>7, <3>1
    <2> QED
      BY <1>3, <1>7, <1>8, <2>1, SumIsItsWeight
  <1>11. Weight(g, T) = Weight(f, T)
    BY <1>2, <1>7, SameWeight
  <1>12. Weight(f, S) = f[n + 1] + Weight(f, T)
    <2>1. \A x \in S : f[x] \in Nat
      BY <1>1, <1>6
    <2>2. Weight(f, T \cup {n + 1}) = f[n + 1] + Weight(f, T)
      BY <1>8, <2>1, WeightAdds, SMTT(30)
    <2> QED
      BY <1>8, <2>2
  <1>13. f[n + 1] \in Nat
    BY <1>1
  <1> QED
    BY <1>4, <1>5, <1>9, <1>10, <1>11, <1>12, <1>13

\* No digits make nothing.
LEMMA NumberOfNone ==
  ASSUME NEW bits, NEW ds, DOMAIN ds = {}
  PROVE  numberOf(ds, bits) = 0
  <1> DEFINE f == [i \in DOMAIN ds |-> ds[i] * Bit[bits * (i - 1)]]
  <1>1. DOMAIN f = {} /\ numberOf(ds, bits) = SumFunction(f)
    BY DEF numberOf
  <1>2. IsFiniteSet({})
    BY FS_EmptySet
  <1> HIDE DEF f
  <1>3. SumFunction(f) = Weight(f, {})
    <2>1. PICK S : S = {}
      OBVIOUS
    <2>2. SumFunction(f) = Weight(f, S)
      BY <1>1, <1>2, <2>1, SumIsItsWeight
    <2> QED
      BY <2>1, <2>2
  <1>4. Weight(f, {}) = 0
    BY <1>2, WeightAdds
  <1> QED
    BY <1>1, <1>3, <1>4

\* One digit is the number.
LEMMA NumberOfOne ==
  ASSUME NEW bits \in Nat, NEW ds, DOMAIN ds = 1 .. 1, ds[1] \in Nat
  PROVE  numberOf(ds, bits) = ds[1]
  <1> DEFINE es == [i \in 1 .. 0 |-> ds[i]]
  <1>1. numberOf(ds, bits) = numberOf(es, bits) + ds[0 + 1] * Bit[bits * 0]
    <2>1. /\ 0 \in Nat /\ bits * 0 <= MaxWidth /\ DOMAIN ds = 1 .. 0 + 1
          /\ DOMAIN es = 1 .. 0 /\ \A i \in 1 .. 0 : es[i] = ds[i]
          /\ \A i \in 1 .. 0 + 1 : ds[i] \in Nat
      BY CodecAssumption
    <2> HIDE DEF es
    <2> QED
      BY <2>1, NumberOfMore
  <1>2. numberOf(es, bits) = 0
    <2>1. DOMAIN es = {}
      OBVIOUS
    <2> HIDE DEF es
    <2> QED
      BY <2>1, NumberOfNone
  <1>3. Bit[bits * 0] = 1
    <2>1. bits * 0 = 0
      OBVIOUS
    <2> QED
      BY <2>1, BitIs
  <1> HIDE DEF es
  <1> QED
    BY <1>1, <1>2, <1>3

\* A digit alone.
LEMMA DigitAlone ==
  ASSUME NEW B \in Nat \ {0}, NEW d \in 0 .. B - 1
  PROVE  d \in Nat /\ d \div 1 = d /\ d % B = d
  <1>1. d \in Nat /\ d = B * 0 + d /\ d = 1 * d + 0
    OBVIOUS
  <1>2. 0 \in 0 .. 1 - 1 /\ 0 \in Nat /\ 1 \in Nat \ {0}
    OBVIOUS
  <1>3. d % B = d
    BY <1>1, <1>2, DividedBy
  <1>4. d \div 1 = d
    BY <1>1, <1>2, DividedBy
  <1> QED
    BY <1>1, <1>3, <1>4

\* The first n of the digits ds, and that their number is below the next place and has them.
FirstDigits(ds, n) == [i \in 1 .. n |-> ds[i]]

HasDigits(ds, bits, n) ==
  /\ numberOf(FirstDigits(ds, n), bits) \in Nat
  /\ numberOf(FirstDigits(ds, n), bits) < Bit[bits * (n - 1)] * Bit[bits]
  /\ \A i \in 1 .. n : digit(numberOf(FirstDigits(ds, n), bits), bits, i - 1) = ds[i]

\* The front of a sequence of digits is one.
LEMMA FrontIs ==
  ASSUME NEW ds, NEW m \in Nat, \A i \in 1 .. m + 1 : ds[i] \in Nat
  PROVE  /\ DOMAIN FirstDigits(ds, m + 1) = 1 .. m + 1 /\ \A i \in 1 .. m + 1 : FirstDigits(ds, m + 1)[i] \in Nat
         /\ DOMAIN FirstDigits(ds, m) = 1 .. m /\ \A i \in 1 .. m : FirstDigits(ds, m)[i] = FirstDigits(ds, m + 1)[i]
         /\ FirstDigits(ds, m + 1)[m + 1] = ds[m + 1]
  BY DEF FirstDigits

\* One more digit of a number.
LEMMA MoreDigits ==
  ASSUME NEW bits \in Nat \ {0}, bits <= MaxWidth, NEW m \in Nat \ {0}, bits * m <= MaxWidth,
         NEW ds, \A i \in 1 .. m + 1 : ds[i] \in 0 .. Bit[bits] - 1,
         HasDigits(ds, bits, m)
  PROVE  HasDigits(ds, bits, m + 1)
  <1>1. PICK x : x = numberOf(FirstDigits(ds, m), bits)
    OBVIOUS
  <1>2. PICK y : y = numberOf(FirstDigits(ds, m + 1), bits)
    OBVIOUS
  <1>3. MaxWidth \in Nat
    BY CodecAssumption
  <1>4. PICK B \in Nat \ {0} : B = Bit[bits]
    <2>1. bits \in 0 .. MaxWidth
      BY <1>3
    <2> QED
      BY <2>1, BitIs
  <1>5. PICK n \in Nat : n = m - 1 /\ m = n + 1
    OBVIOUS
  <1>6. bits * n \in Nat /\ bits * m = bits * n + bits
    BY <1>5, Times
  <1>7. PICK K \in Nat \ {0} : K = Bit[bits * m]
    <2>1. bits * m \in 0 .. MaxWidth
      BY <1>3, <1>6
    <2> QED
      BY <2>1, BitIs
  <1>8. Bit[bits * n] * B = K
    BY <1>3, <1>4, <1>6, <1>7, BitAdds
  <1>9. x \in Nat /\ x < K
    BY <1>1, <1>4, <1>5, <1>8 DEF HasDigits
  <1>10. PICK d \in 0 .. B - 1 : d = ds[m + 1]
    BY <1>4
  <1>11. y = x + d * K
    <2>1. Bit[bits] \in Nat
      BY <1>4
    <2>2. /\ DOMAIN FirstDigits(ds, m + 1) = 1 .. m + 1 /\ \A i \in 1 .. m + 1 : FirstDigits(ds, m + 1)[i] \in Nat
          /\ DOMAIN FirstDigits(ds, m) = 1 .. m /\ \A i \in 1 .. m : FirstDigits(ds, m)[i] = FirstDigits(ds, m + 1)[i]
          /\ FirstDigits(ds, m + 1)[m + 1] = ds[m + 1]
      BY <2>1 DEF FirstDigits
    <2>3. y = x + FirstDigits(ds, m + 1)[m + 1] * Bit[bits * m]
      BY <1>1, <1>2, <2>2, NumberOfMore
    <2> QED
      BY <1>7, <1>10, <2>2, <2>3
  <1>12. d * K \in Nat /\ y \in Nat
    BY <1>9, <1>11
  <1>13. y < K * B
    <2>1. d * K + K <= K * B
      <3>1. d + 1 <= B
        OBVIOUS
      <3>2. (d + 1) * K <= B * K /\ (d + 1) * K = d * K + K /\ B * K = K * B
        BY <3>1
      <3>3. (d + 1) * K \in Nat /\ B * K \in Nat
        OBVIOUS
      <3> QED
        BY <3>2, <3>3, <1>12
    <2>2. K * B \in Nat
      OBVIOUS
    <2> QED
      BY <1>9, <1>11, <1>12, <2>1, <2>2
  <1>14. digit(y, bits, m) = d
    <2>1. d \in Nat /\ x \in 0 .. K - 1
      BY <1>9
    <2>0. d * K = K * d
      BY <2>1
    <2>3. y = K * d + x
      BY <1>11, <1>12, <1>9, <2>0
    <2>2. y \div K = d
      BY <2>1, <2>3, DividedBy
    <2>4. d % B = d
      OBVIOUS
    <2> QED
      BY <1>4, <1>7, <2>2, <2>4 DEF digit
  <1>15. ASSUME NEW i \in 1 .. m PROVE digit(y, bits, i - 1) = ds[i]
    <2>1. PICK j \in Nat, r \in Nat : j = i - 1 /\ r = m - i /\ m = (j + 1) + r
      OBVIOUS
    <2>2. /\ bits * j \in Nat /\ bits * r \in Nat /\ bits * j + bits \in Nat /\ bits * (j + 1) = bits * j + bits
          /\ bits * m = (bits * j + bits) + bits * r
      <3>1. bits * j \in Nat /\ bits * r \in Nat /\ bits * (j + 1) = bits * j + bits
        BY <2>1, Times
      <3>2. bits * (j + 1) + bits * r = bits * m
        BY <2>1, Times
      <3> QED
        BY <3>1, <3>2
    <2>3. PICK L \in Nat \ {0}, R \in Nat \ {0} : L = Bit[bits * j] /\ R = Bit[bits * r]
      <3>1. bits * j \in 0 .. MaxWidth /\ bits * r \in 0 .. MaxWidth
        BY <1>3, <2>2
      <3> QED
        BY <3>1, BitIs
    <2>4. K = (L * B) * R
      <3>0. bits * j + bits <= MaxWidth
        BY <1>3, <2>2
      <3>1. Bit[bits * j + bits] = L * B
        BY <1>4, <2>2, <2>3, <3>0, BitAdds
      <3>2. Bit[(bits * j + bits) + bits * r] = Bit[bits * j + bits] * R
        BY <1>3, <2>2, <2>3, BitAdds
      <3> QED
        BY <1>7, <2>2, <3>1, <3>2
    <2>5. PICK q \in Nat : q = d * R
      OBVIOUS
    <2>6. d * K = q * (L * B)
      BY <2>4, <2>5
    <2>7. (y \div L) % B = (x \div L) % B
      <3>1. x \in Nat /\ y = x + q * (L * B)
        BY <1>9, <1>11, <2>6
      <3>2. PICK a \in Nat, s \in 0 .. L - 1 : x \div L = a /\ x % L = s /\ x = L * a + s
        BY <3>1, Divided, Zenon
      <3>3. PICK z \in Nat : z = a + q * B
        OBVIOUS
      <3>4. y = L * z + s
        <4>1. q * (L * B) = L * (q * B)
          OBVIOUS
        <4>2. L * (a + q * B) = L * a + L * (q * B)
          OBVIOUS
        <4>3. L * a \in Nat /\ q * B \in Nat /\ L * (q * B) \in Nat
          OBVIOUS
        <4> QED
          BY <3>1, <3>2, <3>3, <4>1, <4>2, <4>3
      <3>5. x \div L = a /\ y \div L = z
        BY <3>2, <3>4, DividedBy
      <3>6. PICK c \in Nat, u \in 0 .. B - 1 : a \div B = c /\ a % B = u /\ a = B * c + u
        BY Divided, Zenon
      <3>7. z = B * (c + q) + u /\ c + q \in Nat
        BY <3>3, <3>6
      <3>8. z % B = u
        BY <3>7, DividedBy
      <3> QED
        BY <3>5, <3>6, <3>8, Zenon
    <2>8. digit(x, bits, i - 1) = ds[i]
      BY <1>1 DEF HasDigits
    <2> QED
      BY <1>4, <2>1, <2>3, <2>7, <2>8 DEF digit
  <1>16. \A i \in 1 .. m + 1 : digit(y, bits, i - 1) = ds[i]
    <2>1. \A i \in 1 .. m + 1 : i \in 1 .. m \/ (i = m + 1 /\ i - 1 = m)
      OBVIOUS
    <2> QED
      BY <1>10, <1>14, <1>15, <2>1
  <1>17. (m + 1) - 1 = m
    OBVIOUS
  <1> QED
    BY <1>2, <1>4, <1>7, <1>12, <1>13, <1>16, <1>17 DEF HasDigits

\* The n digits ds, of so many bits.
AreDigits(ds, bits, n) ==
  /\ bits <= MaxWidth /\ bits * (n - 1) <= MaxWidth
  /\ DOMAIN ds = 1 .. n /\ ds = [i \in 1 .. n |-> ds[i]] /\ \A i \in 1 .. n : ds[i] \in 0 .. Bit[bits] - 1

\* A number of digits is below the next place, and the digits can be taken from it again.
LEMMA NumberHasDigits ==
  ASSUME NEW bits \in Nat \ {0}, NEW n \in Nat \ {0}, NEW ds, AreDigits(ds, bits, n)
  PROVE  /\ numberOf(ds, bits) \in Nat
         /\ numberOf(ds, bits) < Bit[bits * (n - 1)] * Bit[bits]
         /\ \A i \in 1 .. n : digit(numberOf(ds, bits), bits, i - 1) = ds[i]
  <1> USE DEF AreDigits
  <1> DEFINE P == {u \in Nat : u + 1 <= n => HasDigits(ds, bits, u + 1)}
  <1>1. MaxWidth \in Nat
    BY CodecAssumption
  <1>2. PICK B \in Nat \ {0} : B = Bit[bits]
    <2>1. bits \in 0 .. MaxWidth
      BY <1>1
    <2> QED
      BY <2>1, BitIs
  <1>3. 0 \in P
    <2>1. DOMAIN FirstDigits(ds, 1) = 1 .. 1 /\ FirstDigits(ds, 1)[1] = ds[1] /\ ds[1] \in Nat /\ ds[1] < B /\ ds[1] \in 0 .. B - 1
      BY <1>2 DEF FirstDigits
    <2>2. numberOf(FirstDigits(ds, 1), bits) = ds[1]
      BY <2>1, NumberOfOne
    <2>3. bits * 0 = 0 /\ Bit[0] = 1 /\ 1 - 1 = 0
      BY BitIs
    <2>4. ds[1] \div 1 = ds[1] /\ ds[1] % B = ds[1]
      <3>1. PICK d \in 0 .. B - 1 : d = ds[1]
        BY <2>1
      <3>2. d \div 1 = d /\ d % B = d
        BY DigitAlone
      <3> QED
        BY <3>1, <3>2, Zenon
    <2>5. digit(ds[1], bits, 0) = ds[1]
      BY <1>2, <2>3, <2>4 DEF digit
    <2>6. \A i \in 1 .. 1 : i = 1
      OBVIOUS
    <2>7. HasDigits(ds, bits, 1)
      BY <1>2, <2>1, <2>2, <2>3, <2>5, <2>6 DEF HasDigits
    <2>8. 0 + 1 = 1
      OBVIOUS
    <2> QED
      BY <2>7, <2>8
  <1>4. ASSUME NEW u \in Nat, u \in P PROVE u + 1 \in P
    <2> SUFFICES ASSUME (u + 1) + 1 <= n PROVE HasDigits(ds, bits, (u + 1) + 1)
      OBVIOUS
    <2>1. PICK m \in Nat \ {0} : m = u + 1
      OBVIOUS
    <2>2. HasDigits(ds, bits, m) /\ m <= n - 1 /\ n - 1 \in Nat
      BY <1>4, <2>1
    <2>3. bits * m <= MaxWidth
      <3>1. bits * m <= bits * (n - 1) /\ bits * m \in Nat /\ bits * (n - 1) \in Nat
        BY <2>2, Times
      <3> QED
        BY <1>1, <3>1
    <2>4. \A i \in 1 .. m + 1 : ds[i] \in 0 .. Bit[bits] - 1
      BY <2>2
    <2> QED
      BY <2>1, <2>2, <2>3, <2>4, MoreDigits
  <1> HIDE DEF P
  <1>5. P \in SUBSET Nat
    BY DEF P
  <1>6. n - 1 \in P
    BY <1>3, <1>4, <1>5, NumberInduction, SMTT(30)
  <1>7. HasDigits(ds, bits, n)
    BY <1>6 DEF P
  <1>8. FirstDigits(ds, n) = ds
    BY DEF FirstDigits
  <1> QED
    BY <1>7, <1>8 DEF HasDigits

\* The digits of a number make the number again, as far as they go.
LEMMA DigitsMakeNumber ==
  ASSUME NEW bits \in Nat \ {0}, bits <= MaxWidth, NEW n \in Nat \ {0}, bits * (n - 1) <= MaxWidth,
         NEW v \in Nat, NEW ds, ds = [i \in 1 .. n |-> digit(v, bits, i - 1)]
  PROVE  numberOf(ds, bits) = v % (Bit[bits * (n - 1)] * Bit[bits])
  <1> DEFINE P == {u \in Nat : u + 1 <= n => numberOf(FirstDigits(ds, u + 1), bits) = v % (Bit[bits * u] * Bit[bits])}
  <1>1. MaxWidth \in Nat
    BY CodecAssumption
  <1>2. PICK B \in Nat \ {0} : B = Bit[bits]
    <2>1. bits \in 0 .. MaxWidth
      BY <1>1
    <2> QED
      BY <2>1, BitIs
  <1>3. \A u \in Nat : u + 1 <= n => bits * u \in Nat /\ bits * u <= MaxWidth /\ Bit[bits * u] \in Nat \ {0}
    <2> SUFFICES ASSUME NEW u \in Nat, u + 1 <= n
                 PROVE  bits * u \in Nat /\ bits * u <= MaxWidth /\ Bit[bits * u] \in Nat \ {0}
      OBVIOUS
    <2>1. u <= n - 1 /\ n - 1 \in Nat
      OBVIOUS
    <2>2. bits * u <= bits * (n - 1) /\ bits * u \in Nat /\ bits * (n - 1) \in Nat
      BY <2>1, Times
    <2>3. bits * u \in 0 .. MaxWidth
      <3>1. PICK y \in Nat, z \in Nat : y = bits * u /\ z = bits * (n - 1)
        BY ONLY <2>2
      <3>2. y <= z /\ z <= MaxWidth
        BY ONLY <2>2, <3>1, bits * (n - 1) <= MaxWidth, Zenon
      <3> QED
        BY ONLY <1>1, <3>1, <3>2, y \in Nat, z \in Nat
    <2> QED
      BY <2>2, <2>3, BitIs, <1>1
  <1>4. ASSUME NEW u \in Nat, u + 1 <= n
        PROVE  ds[u + 1] = (v \div Bit[bits * u]) % B /\ ds[u + 1] \in Nat
    <2>1. u + 1 \in 1 .. n /\ (u + 1) - 1 = u
      BY <1>4
    <2>2. ds[u + 1] = digit(v, bits, u)
      BY <2>1
    <2>3. PICK L \in Nat \ {0} : L = Bit[bits * u]
      BY <1>3, <1>4
    <2>4. v \div L \in Nat
      BY Dividing
    <2>5. (v \div L) % B \in 0 .. B - 1
      BY <2>4, Dividing
    <2> QED
      BY <1>2, <2>2, <2>3, <2>5 DEF digit
  <1>5. 0 \in P
    <2> SUFFICES ASSUME 0 + 1 <= n PROVE numberOf(FirstDigits(ds, 0 + 1), bits) = v % (Bit[bits * 0] * Bit[bits])
      OBVIOUS
    <2>1. bits * 0 = 0 /\ Bit[0] = 1 /\ 0 + 1 = 1
      BY BitIs
    <2>2. ds[1] = (v \div 1) % B /\ ds[1] \in Nat
      <3>1. 0 \in Nat
        OBVIOUS
      <3> QED
        BY <1>4, <2>1, <3>1
    <2>3. DOMAIN FirstDigits(ds, 1) = 1 .. 1 /\ FirstDigits(ds, 1)[1] = ds[1]
      BY DEF FirstDigits
    <2>4. numberOf(FirstDigits(ds, 1), bits) = ds[1]
      BY <2>2, <2>3, NumberOfOne
    <2>5. v \div 1 = v /\ 1 * B = B
      OBVIOUS
    <2> QED
      BY <1>2, <2>1, <2>2, <2>4, <2>5
  <1>6. ASSUME NEW u \in Nat, u \in P PROVE u + 1 \in P
    <2> SUFFICES ASSUME (u + 1) + 1 <= n
                 PROVE  numberOf(FirstDigits(ds, (u + 1) + 1), bits) = v % (Bit[bits * (u + 1)] * Bit[bits])
      OBVIOUS
    <2>1. PICK m \in Nat : m = u + 1 /\ m + 1 <= n /\ u + 1 <= n
      OBVIOUS
    <2>2. PICK K \in Nat \ {0} : K = Bit[bits * m]
      BY <1>3, <2>1
    <2>3. Bit[bits * u] * B = K
      <3>1. bits * m = bits * u + bits /\ bits * u \in Nat
        BY <2>1, Times
      <3>2. bits * u + bits <= MaxWidth
        BY <1>3, <2>1, <3>1
      <3> QED
        BY <1>2, <2>2, <3>1, <3>2, BitAdds
    <2>4. numberOf(FirstDigits(ds, m), bits) = v % K
      BY <1>2, <1>6, <2>1, <2>3
    <2>5. ds[m + 1] = (v \div K) % B
      BY <1>4, <2>1, <2>2
    <2>6. numberOf(FirstDigits(ds, m + 1), bits) = numberOf(FirstDigits(ds, m), bits) + ds[m + 1] * K
      <3>1. \A i \in 1 .. m + 1 : ds[i] \in Nat
        <4>1. \A i \in 1 .. m + 1 : i - 1 \in Nat /\ (i - 1) + 1 = i /\ (i - 1) + 1 <= n
          BY <2>1
        <4> QED
          BY <1>4, <4>1
      <3>2. /\ DOMAIN FirstDigits(ds, m + 1) = 1 .. m + 1 /\ \A i \in 1 .. m + 1 : FirstDigits(ds, m + 1)[i] \in Nat
            /\ DOMAIN FirstDigits(ds, m) = 1 .. m /\ \A i \in 1 .. m : FirstDigits(ds, m)[i] = FirstDigits(ds, m + 1)[i]
            /\ FirstDigits(ds, m + 1)[m + 1] = ds[m + 1]
        <4>1. m \in Nat
          OBVIOUS
        <4> QED
          BY ONLY <3>1, <4>1, FrontIs
      <3>3. bits * m <= MaxWidth
        BY <1>3, <2>1
      <3>4. m \in Nat /\ bits \in Nat
        OBVIOUS
      <3>5. /\ numberOf(FirstDigits(ds, m + 1), bits)
                 = numberOf(FirstDigits(ds, m), bits) + FirstDigits(ds, m + 1)[m + 1] * Bit[bits * m]
        BY ONLY <3>2, <3>3, <3>4, NumberOfMore
      <3> QED
        BY <2>2, <3>2, <3>5, Zenon
    <2>7. v % (K * B) = (v % K) + ((v \div K) % B) * K
      BY DividedTwice
    <2> QED
      BY <1>2, <2>1, <2>2, <2>4, <2>5, <2>6, <2>7
  <1> HIDE DEF P
  <1>7. P \in SUBSET Nat
    BY DEF P
  <1>8. n - 1 \in P
    <2>1. Nat \subseteq P
      BY ONLY <1>5, <1>6, <1>7, NumberInduction
    <2>2. n - 1 \in Nat
      OBVIOUS
    <2> QED
      BY <2>1, <2>2
  <1>9. (n - 1) + 1 = n /\ FirstDigits(ds, n) = ds
    BY DEF FirstDigits
  <1> QED
    BY <1>8, <1>9 DEF P

-----------------------------------------------------------------------------
(***************************************************************************)
(* Streams of bytes: varints, packed values, sequences one behind the      *)
(* other.                                                                  *)
(***************************************************************************)

Bytes == 0 .. 255

\* The bytes of s stand in src behind position pos.
Stands(src, pos, s) == pos + Len(s) <= Len(src) /\ \A j \in 1 .. Len(s) : src[pos + j] = s[j]

\* The least of a set of numbers, when it is known.
LEMMA LeastIs ==
  ASSUME NEW S \in SUBSET Nat, NEW n \in S, \A m \in S : n <= m
  PROVE  Min(S) = n
  <1>1. \A z \in S : (\A y \in S : z =< y) => z = n
    OBVIOUS
  <1>2. \A y \in S : n =< y
    OBVIOUS
  <1> QED
    BY <1>1, <1>2 DEF Min

\* The least of a set of numbers that is not empty is in it.
LEMMA LeastIsIn ==
  ASSUME NEW S \in SUBSET Nat, S # {}
  PROVE  Min(S) \in S /\ \A m \in S : Min(S) <= m
  <1>1. PICK n \in S : \A m \in S : n <= m
    BY LeastNumber
  <1>2. Min(S) = n
    BY <1>1, LeastIs
  <1> QED
    BY <1>1, <1>2

\* A digit is below its base.
LEMMA DigitIs ==
  ASSUME NEW v \in Nat, NEW bits \in 0 .. MaxWidth, NEW i \in Nat, bits * i <= MaxWidth
  PROVE  digit(v, bits, i) \in 0 .. Bit[bits] - 1
  <1>1. bits \in Nat /\ MaxWidth \in Nat
    BY CodecAssumption
  <1>2. bits * i \in 0 .. MaxWidth
    BY <1>1, Times
  <1>3. PICK B \in Nat \ {0}, L \in Nat \ {0} : B = Bit[bits] /\ L = Bit[bits * i]
    BY <1>2, BitIs
  <1>4. v \div L \in Nat
    BY Dividing
  <1>5. (v \div L) % B \in 0 .. B - 1
    BY <1>4, Dividing
  <1> QED
    BY <1>3, <1>5 DEF digit

\* A value of the codec's width takes at most five bytes.
LEMMA UvarintLenIs ==
  ASSUME NEW x \in Nat, x < Bit[28] * 128
  PROVE  uvarintLen(x) \in 1 .. 5 /\ x \div Bit[7 * (uvarintLen(x) - 1)] < 128
  <1>1. MaxWidth \in 28 .. 32 /\ Bit[7] = 128
    BY CodecAssumption, BitValues
  <1> DEFINE S == {n \in 1 .. 5 : x \div Bit[7 * (n - 1)] < 128}
  <1>2. uvarintLen(x) \in 1 .. 5 /\ x \div Bit[7 * (uvarintLen(x) - 1)] < 128
    <2>1. PICK K \in Nat \ {0} : K = Bit[28]
      BY <1>1, BitIs
    <2>2. x \div K < 128
      <3>1. x < K * 128
        BY <2>1
      <3>2. PICK a \in Nat, s \in 0 .. K - 1 : x \div K = a /\ x % K = s /\ x = K * a + s
        BY Divided, Zenon
      <3>3. CASE a >= 128
        <4>1. K * a >= K * 128 /\ K * a \in Nat /\ K * 128 \in Nat
          BY <3>3
        <4> QED
          BY <3>1, <3>2, <4>1
      <3> QED
        BY <3>2, <3>3
    <2>3. 5 \in S
      <3>1. 7 * (5 - 1) = 28
        OBVIOUS
      <3> QED
        BY <2>1, <2>2, <3>1
    <2>4. S \in SUBSET Nat /\ S # {}
      BY <2>3
    <2> HIDE DEF S
    <2>5. Min(S) \in S
      BY <2>4, LeastIsIn
    <2>6. uvarintLen(x) = Min(S)
      BY DEF uvarintLen, S
    <2> QED
      BY <2>5, <2>6 DEF S
  <1> QED
    BY <1>2

\* What is written of a number is read again.
LEMMA UvarintReads ==
  ASSUME NEW x \in Nat, x < Bit[28] * 128
  PROVE  /\ appendUvarint(x) \in Seq(Bytes) /\ Len(appendUvarint(x)) \in 1 .. 5
         /\ \A src : \A pos \in Nat : Len(src) \in Nat /\ Stands(src, pos, appendUvarint(x))
                        => readUvarint(src, pos) = <<x, Len(appendUvarint(x))>>
  <1>1. MaxWidth \in 28 .. 32 /\ Bit[7] = 128
    BY CodecAssumption, BitValues
  <1>2. \A i \in 0 .. 4 : 7 * i \in 0 .. MaxWidth /\ Bit[7 * i] \in Nat \ {0}
    <2>1. \A i \in 0 .. 4 : 7 * i \in 0 .. MaxWidth
      BY <1>1
    <2> QED
      BY <2>1, BitIs
  <1>3. PICK n \in 1 .. 5 : n = uvarintLen(x) /\ x \div Bit[7 * (n - 1)] < 128
    BY UvarintLenIs
  <1> DEFINE d(i) == digit(x, 7, i - 1)
  <1>4. \A i \in 1 .. n : d(i) \in 0 .. 127
    <2> SUFFICES ASSUME NEW i \in 1 .. n PROVE d(i) \in 0 .. 127
      OBVIOUS
    <2>1. i - 1 \in Nat /\ 7 * (i - 1) <= MaxWidth /\ 7 \in 0 .. MaxWidth
      BY <1>1
    <2>2. digit(x, 7, i - 1) \in 0 .. Bit[7] - 1
      BY <2>1, DigitIs
    <2> QED
      BY <1>1, <2>2
  <1> HIDE DEF d
  <1>5. appendUvarint(x) = [i \in 1 .. n |-> d(i) + IF i < n THEN 128 ELSE 0]
    BY <1>3 DEF appendUvarint, d
  <1>6. appendUvarint(x) \in Seq(Bytes) /\ Len(appendUvarint(x)) = n
    <2>1. \A i \in 1 .. n : d(i) + (IF i < n THEN 128 ELSE 0) \in Bytes
      BY <1>4, SMTT(30) DEF Bytes
    <2> QED
      BY <1>5, <2>1
  <1>7. ASSUME NEW src, NEW pos \in Nat, Len(src) \in Nat, Stands(src, pos, appendUvarint(x))
        PROVE  readUvarint(src, pos) = <<x, n>>
    <2>1. /\ pos + n <= Len(src)
          /\ \A i \in 1 .. n : src[pos + i] = d(i) + IF i < n THEN 128 ELSE 0
      BY <1>5, <1>6, <1>7 DEF Stands
    <2> DEFINE T == {i \in 1 .. Len(src) - pos : src[pos + i] < 128}
    <2>2. Min(T) = n
      <3>1. n \in T
        <4>1. n \in 1 .. n
          OBVIOUS
        <4>2. PICK e \in 0 .. 127 : e = d(n)
          BY ONLY <1>4, <4>1
        <4>3. src[pos + n] = e + 0
          BY ONLY <2>1, <4>1, <4>2, n \in 1 .. 5
        <4>4. n \in 1 .. Len(src) - pos
          BY ONLY <2>1, <1>7, n \in 1 .. 5, pos \in Nat
        <4> QED
          BY ONLY <4>3, <4>4, e \in 0 .. 127
      <3>2. ASSUME NEW m \in T, m < n PROVE FALSE
        <4>1. m \in 1 .. n /\ src[pos + m] < 128
          BY ONLY <3>2, n \in 1 .. 5, <1>7, pos \in Nat
        <4>2. PICK e \in 0 .. 127 : e = d(m)
          BY ONLY <1>4, <4>1
        <4>3. src[pos + m] = e + 128
          BY ONLY <2>1, <3>2, <4>1, <4>2
        <4> QED
          BY ONLY <4>1, <4>3, e \in 0 .. 127
      <3>3. T \in SUBSET Nat
        OBVIOUS
      <3>4. \A m \in T : n <= m
        BY <3>2, <3>3
      <3> HIDE DEF T
      <3> QED
        BY <3>1, <3>3, <3>4, LeastIs
    <2>3. \A i \in 1 .. n : src[pos + i] % 128 = d(i)
      <3> SUFFICES ASSUME NEW i \in 1 .. n PROVE src[pos + i] % 128 = d(i)
        OBVIOUS
      <3>1. PICK e \in 0 .. 127 : e = d(i)
        BY <1>4
      <3>2. src[pos + i] = e \/ src[pos + i] = e + 128
        BY <2>1, <3>1
      <3>3. e % 128 = e /\ (e + 128) % 128 = e
        OBVIOUS
      <3> QED
        BY <3>1, <3>2, <3>3
    <2>4. [i \in 1 .. n |-> src[pos + i] % 128] = [i \in 1 .. n |-> digit(x, 7, i - 1)]
      BY <2>3 DEF d
    <2>5. numberOf([i \in 1 .. n |-> digit(x, 7, i - 1)], 7) = x
      <3>1. PICK K \in Nat \ {0} : K = Bit[7 * (n - 1)]
        <4>1. n - 1 \in 0 .. 4
          OBVIOUS
        <4> QED
          BY <1>2, <4>1
      <3>2. 7 * (n - 1) <= MaxWidth /\ 7 <= MaxWidth /\ 7 \in Nat \ {0} /\ n \in Nat \ {0}
        BY <1>1
      <3>3. numberOf([i \in 1 .. n |-> digit(x, 7, i - 1)], 7) = x % (K * 128)
        <4>1. PICK ds : ds = [i \in 1 .. n |-> digit(x, 7, i - 1)]
          OBVIOUS
        <4>2. numberOf(ds, 7) = x % (Bit[7 * (n - 1)] * Bit[7])
          BY ONLY <3>2, <4>1, DigitsMakeNumber, x \in Nat
        <4> QED
          BY ONLY <1>1, <3>1, <4>1, <4>2
      <3>4. x = (K * 128) * 0 + x /\ x \in 0 .. K * 128 - 1 /\ K * 128 \in Nat \ {0}
        <4>1. PICK a \in Nat, s \in 0 .. K - 1 : x \div K = a /\ x % K = s /\ x = K * a + s
          BY Divided, Zenon
        <4>2. a <= 127
          BY <1>3, <3>1, <4>1
        <4>3. K * a <= K * 127 /\ K * a \in Nat /\ K * 127 \in Nat
          BY <4>2
        <4> QED
          BY <4>1, <4>3
      <3>5. x % (K * 128) = x
        <4>1. PICK M \in Nat \ {0} : M = K * 128
          BY <3>4
        <4>3. x = M * 0 + x /\ x \in 0 .. M - 1 /\ 0 \in Nat
          BY ONLY <3>4, <4>1
        <4>2. x % M = x
          BY ONLY <4>3, DividedBy, M \in Nat \ {0}
        <4> QED
          BY <4>1, <4>2
      <3> QED
        BY <3>3, <3>5
    <2>6. readUvarint(src, pos) = <<numberOf([i \in 1 .. n |-> src[pos + i] % 128], 7), n>>
      BY <2>2 DEF readUvarint
    <2> QED
      BY <2>4, <2>5, <2>6
  <1> QED
    BY <1>6, <1>7

\* A number below K stays itself when the digits past K are cut off.
LEMMA NoneCutOff ==
  ASSUME NEW K \in Nat \ {0}, NEW x \in Nat, x < K
  PROVE  x % K = x
  <1>1. x = K * 0 + x /\ x \in 0 .. K - 1 /\ 0 \in Nat
    OBVIOUS
  <1> QED
    BY ONLY <1>1, DividedBy, K \in Nat \ {0}

\* Bit m of the stream of the values vs of w bits.
StreamBit(vs, w, m) == IF m < Len(vs) * w THEN digit(vs[m \div w + 1], 1, m % w) ELSE 0
StreamByte(vs, w, u) == [j \in 1 .. 8 |-> StreamBit(vs, w, 8 * (u - 1) + j - 1)]

\* Place m of a stream of n values of w bits is place m % w of value m \div w, and back.
LEMMA PlaceIs ==
  ASSUME NEW w \in Nat \ {0}, NEW n \in Nat, NEW m \in Nat, m < n * w
  PROVE  m \div w \in Nat /\ m \div w < n /\ m % w \in 0 .. w - 1
  <1>1. PICK a \in Nat, s \in 0 .. w - 1 : m \div w = a /\ m % w = s /\ m = w * a + s
    BY ONLY Divided, w \in Nat \ {0}, m \in Nat, Zenon
  <1>2. a < n
    <2>1. CASE a >= n
      <3>1. w * n <= w * a /\ n * w = w * n /\ w * n \in Nat /\ w * a \in Nat
        BY ONLY <2>1, a \in Nat, n \in Nat, w \in Nat \ {0}, Times
      <3> QED
        BY ONLY <3>1, <1>1, m < n * w, m \in Nat, s \in 0 .. w - 1, w \in Nat \ {0}
    <2> QED
      BY <2>1
  <1> QED
    BY <1>1, <1>2

\* The bit of a stream that a place is.
LEMMA PlaceOf ==
  ASSUME NEW w \in Nat \ {0}, NEW n \in Nat, NEW i \in 1 .. n, NEW j \in 1 .. w
  PROVE  /\ (i - 1) * w + j - 1 \in Nat /\ (i - 1) * w + j - 1 < n * w
         /\ ((i - 1) * w + j - 1) \div w = i - 1 /\ ((i - 1) * w + j - 1) % w = j - 1
  <1>1. PICK a \in Nat, s \in 0 .. w - 1 : a = i - 1 /\ s = j - 1 /\ a + 1 <= n
    OBVIOUS
  <1>2. PICK p \in Nat : p = a * w
    OBVIOUS
  <1>3. (i - 1) * w + j - 1 = p + s /\ p + s \in Nat
    BY ONLY <1>1, <1>2, p \in Nat, s \in 0 .. w - 1, j \in 1 .. w, w \in Nat \ {0}
  <1>4. p + w <= n * w
    <2>1. w * (a + 1) = w * a + w /\ w * (a + 1) <= w * n
      BY ONLY <1>1, a \in Nat, n \in Nat, w \in Nat \ {0}, Times
    <2>2. w * a = a * w /\ w * n = n * w
      BY ONLY a \in Nat, n \in Nat, w \in Nat \ {0}
    <2> QED
      BY ONLY <1>2, <2>1, <2>2
  <1>5. PICK x \in Nat : x = p + s /\ x < n * w
    <2>1. n * w \in Nat
      OBVIOUS
    <2> QED
      BY ONLY <1>3, <1>4, <2>1, p \in Nat, s \in 0 .. w - 1, w \in Nat \ {0}
  <1>6. x = w * a + s
    BY ONLY <1>2, <1>5, a \in Nat, w \in Nat \ {0}
  <1>7. x \div w = a /\ x % w = s
    BY ONLY <1>6, DividedBy, a \in Nat, w \in Nat \ {0}, s \in 0 .. w - 1
  <1> QED
    BY ONLY <1>1, <1>3, <1>5, <1>7, x \in Nat

\* A bit of a stream is a bit.
LEMMA StreamBitIs ==
  ASSUME NEW vs \in Seq(Nat), NEW w \in 1 .. MaxWidth, NEW m \in Nat
  PROVE  StreamBit(vs, w, m) \in 0 .. 1
  <1>1. MaxWidth \in 28 .. 32 /\ Bit[1] = 2
    BY CodecAssumption, BitValues
  <1>2. CASE m < Len(vs) * w
    <2>1. w \in Nat \ {0} /\ Len(vs) \in Nat
      BY <1>1
    <2>2. m \div w \in Nat /\ m \div w < Len(vs) /\ m % w \in 0 .. w - 1
      BY ONLY <1>2, <2>1, m \in Nat, PlaceIs
    <2>3. PICK a \in Nat, s \in 0 .. w - 1 : a = m \div w /\ s = m % w /\ a < Len(vs)
      BY <2>2
    <2>4. vs[a + 1] \in Nat
      BY ONLY <2>1, <2>3, vs \in Seq(Nat), a \in Nat
    <2>5. s \in Nat /\ 1 * s <= MaxWidth /\ 1 \in 0 .. MaxWidth
      BY ONLY <1>1, w \in 1 .. MaxWidth, s \in 0 .. w - 1
    <2>6. digit(vs[a + 1], 1, s) \in 0 .. Bit[1] - 1
      BY ONLY <2>4, <2>5, DigitIs
    <2> QED
      BY ONLY <1>1, <1>2, <2>3, <2>6 DEF StreamBit
  <1>3. CASE ~(m < Len(vs) * w)
    BY ONLY <1>3 DEF StreamBit
  <1> QED
    BY <1>2, <1>3

\* Eight bits make a byte, and the byte has them.
LEMMA StreamByteIs ==
  ASSUME NEW vs \in Seq(Nat), NEW w \in 1 .. MaxWidth, NEW u \in Nat \ {0}
  PROVE  /\ numberOf(StreamByte(vs, w, u), 1) \in Bytes
         /\ \A j \in 1 .. 8 : digit(numberOf(StreamByte(vs, w, u), 1), 1, j - 1)
                                = StreamBit(vs, w, 8 * (u - 1) + j - 1)
  <1>1. MaxWidth \in 28 .. 32 /\ Bit[1] = 2 /\ Bit[7] = 128
    BY CodecAssumption, BitValues
  <1>2. PICK ds : ds = StreamByte(vs, w, u)
    OBVIOUS
  <1>3. \A j \in 1 .. 8 : ds[j] = StreamBit(vs, w, 8 * (u - 1) + j - 1)
    BY <1>2 DEF StreamByte
  <1>4. ASSUME NEW j \in 1 .. 8 PROVE ds[j] \in 0 .. Bit[1] - 1
    <2>1. 8 * (u - 1) + j - 1 \in Nat
      OBVIOUS
    <2>2. StreamBit(vs, w, 8 * (u - 1) + j - 1) \in 0 .. 1
      BY <2>1, StreamBitIs
    <2>3. ds[j] = StreamBit(vs, w, 8 * (u - 1) + j - 1) /\ Bit[1] - 1 = 1
      <3>1. ds[j] = StreamBit(vs, w, 8 * (u - 1) + j - 1)
        BY ONLY <1>3, j \in 1 .. 8, Zenon
      <3>2. Bit[1] - 1 = 1
        BY ONLY <1>1
      <3> QED
        BY ONLY <3>1, <3>2, Zenon
    <2> QED
      BY ONLY <2>2, <2>3, Zenon
  <1>5. DOMAIN ds = 1 .. 8 /\ ds = [i \in 1 .. 8 |-> ds[i]]
    BY <1>2 DEF StreamByte
  <1>6. 1 \in Nat \ {0} /\ 1 <= MaxWidth /\ 8 \in Nat \ {0} /\ 1 * (8 - 1) <= MaxWidth
    BY <1>1
  <1>7. /\ numberOf(ds, 1) \in Nat /\ numberOf(ds, 1) < Bit[1 * (8 - 1)] * Bit[1]
        /\ \A i \in 1 .. 8 : digit(numberOf(ds, 1), 1, i - 1) = ds[i]
    <2>1. PICK c \in Nat \ {0}, b \in Nat \ {0} : c = 8 /\ b = 1
      OBVIOUS
    <2>2. b * (c - 1) <= MaxWidth /\ b <= MaxWidth
      BY <1>6, <2>1
    <2>3. DOMAIN ds = 1 .. c /\ ds = [i \in 1 .. c |-> ds[i]]
      BY ONLY <1>4, <1>5, <2>1, Zenon
    <2>4. \A i \in 1 .. c : ds[i] \in 0 .. Bit[b] - 1
      BY ONLY <1>4, <1>5, <2>1, Zenon
    <2>5. /\ numberOf(ds, b) \in Nat /\ numberOf(ds, b) < Bit[b * (c - 1)] * Bit[b]
          /\ \A i \in 1 .. c : digit(numberOf(ds, b), b, i - 1) = ds[i]
      <3>1. AreDigits(ds, b, c)
        BY ONLY <2>2, <2>3, <2>4, Zenon DEF AreDigits
      <3> QED
        BY ONLY <3>1, c \in Nat \ {0}, b \in Nat \ {0}, NumberHasDigits
    <2> QED
      BY ONLY <2>1, <2>5, Zenon
  <1>8. Bit[1 * (8 - 1)] * Bit[1] = 256
    <2>1. 1 * (8 - 1) = 7
      OBVIOUS
    <2> QED
      BY ONLY <1>1, <2>1
  <1>9. numberOf(ds, 1) \in Bytes
    <2>1. PICK x, M : x = numberOf(ds, 1) /\ M = Bit[1 * (8 - 1)] * Bit[1]
      OBVIOUS
    <2>2. x \in Nat /\ x < M /\ M = 256
      BY ONLY <1>7, <1>8, <2>1, Zenon
    <2>3. x \in 0 .. 255
      BY ONLY <2>2
    <2> QED
      BY ONLY <2>1, <2>3, Zenon DEF Bytes
  <1> QED
    BY ONLY <1>2, <1>3, <1>7, <1>9

\* What is packed is bytes, and it is read again.
LEMMA PackedReads ==
  ASSUME NEW w \in 1 .. MaxWidth, NEW vs \in Seq(Nat), \A i \in DOMAIN vs : vs[i] < Bit[w]
  PROVE  /\ packBits(vs, w) \in Seq(Bytes) /\ Len(packBits(vs, w)) = packedLen(Len(vs), w)
         /\ packedLen(Len(vs), w) \in Nat
         /\ \A src : \A pos \in Nat : Stands(src, pos, packBits(vs, w)) => unpackBits(src, pos, Len(vs), w) = vs
  <1>1. MaxWidth \in 28 .. 32 /\ Bit[1] = 2
    BY CodecAssumption, BitValues
  <1>2. PICK n \in Nat : n = Len(vs)
    OBVIOUS
  <1>3. n * w \in Nat /\ w \in Nat \ {0}
    BY <1>1
  <1>4. PICK N \in Nat : N = packedLen(n, w)
    <2>1. (n * w + 7) \div 8 \in Nat
      BY <1>3
    <2> QED
      BY <2>1 DEF packedLen
  <1>5. packBits(vs, w) = [u \in 1 .. N |-> numberOf(StreamByte(vs, w, u), 1)]
    BY <1>2, <1>4 DEF packBits, StreamByte, StreamBit
  <1>6. \A u \in 1 .. N : u \in Nat \ {0}
    OBVIOUS
  <1>7. packBits(vs, w) \in Seq(Bytes) /\ Len(packBits(vs, w)) = N
    <2>1. \A u \in 1 .. N : numberOf(StreamByte(vs, w, u), 1) \in Bytes
      BY ONLY <1>6, StreamByteIs, vs \in Seq(Nat), w \in 1 .. MaxWidth
    <2> QED
      BY <1>5, <2>1
  <1>8. ASSUME NEW src, NEW pos \in Nat, Stands(src, pos, packBits(vs, w))
        PROVE  unpackBits(src, pos, n, w) = vs
    <2> DEFINE rbit(m) == digit(src[pos + m \div 8 + 1], 1, m % 8)
    <2>1. \A u \in 1 .. N : src[pos + u] = numberOf(StreamByte(vs, w, u), 1)
      BY ONLY <1>5, <1>7, <1>8, N \in Nat DEF Stands
    <2>2. ASSUME NEW m \in Nat, m < n * w PROVE rbit(m) = StreamBit(vs, w, m)
      <3>1. PICK q \in Nat, r \in 0 .. 7 : q = m \div 8 /\ r = m % 8 /\ m = 8 * q + r
        OBVIOUS
      <3>2. q + 1 \in 1 .. N
        <4>1. N = (n * w + 7) \div 8
          BY <1>4 DEF packedLen
        <4>2. PICK t \in Nat : t = n * w
          BY <1>3
        <4> QED
          BY ONLY <4>1, <4>2, <2>2, <3>1, m \in Nat, t \in Nat, q \in Nat, r \in 0 .. 7, N \in Nat
      <3>3. pos + m \div 8 + 1 = pos + (q + 1)
        BY ONLY <3>1, pos \in Nat, q \in Nat
      <3>4. src[pos + m \div 8 + 1] = numberOf(StreamByte(vs, w, q + 1), 1)
        BY ONLY <2>1, <3>2, <3>3
      <3>5. PICK j \in 1 .. 8 : j = r + 1
        OBVIOUS
      <3>6. q + 1 \in Nat \ {0} /\ j - 1 = r /\ 8 * ((q + 1) - 1) + j - 1 = m
        BY ONLY <3>1, <3>5, q \in Nat, r \in 0 .. 7, j \in 1 .. 8, m \in Nat
      <3>7. digit(numberOf(StreamByte(vs, w, q + 1), 1), 1, j - 1) = StreamBit(vs, w, 8 * ((q + 1) - 1) + j - 1)
        BY ONLY <3>6, StreamByteIs, vs \in Seq(Nat), w \in 1 .. MaxWidth, j \in 1 .. 8
      <3> QED
        BY ONLY <3>1, <3>4, <3>6, <3>7
    <2> HIDE DEF rbit
    <2>3. ASSUME NEW i \in 1 .. n PROVE numberOf([j \in 1 .. w |-> rbit((i - 1) * w + j - 1)], 1) = vs[i]
      <3>1. PICK v \in Nat : v = vs[i] /\ v < Bit[w]
        <4>1. i \in DOMAIN vs /\ vs[i] \in Nat
          BY ONLY <1>2, vs \in Seq(Nat), i \in 1 .. n
        <4> QED
          BY <4>1
      <3>2. ASSUME NEW j \in 1 .. w PROVE rbit((i - 1) * w + j - 1) = digit(v, 1, j - 1)
        <4>1. PICK m \in Nat : /\ m = (i - 1) * w + j - 1 /\ m < n * w
                               /\ m \div w = i - 1 /\ m % w = j - 1
          BY ONLY <1>3, PlaceOf, n \in Nat, i \in 1 .. n, j \in 1 .. w
        <4>2. rbit(m) = StreamBit(vs, w, m)
          BY ONLY <2>2, <4>1, m \in Nat
        <4>3. (i - 1) + 1 = i
          OBVIOUS
        <4>4. StreamBit(vs, w, m) = digit(vs[i], 1, j - 1)
          BY ONLY <1>2, <4>1, <4>3 DEF StreamBit
        <4> QED
          BY ONLY <3>1, <4>1, <4>2, <4>4
      <3>3. PICK ds : ds = [j \in 1 .. w |-> digit(v, 1, j - 1)]
        OBVIOUS
      <3>4. [j \in 1 .. w |-> rbit((i - 1) * w + j - 1)] = ds
        BY ONLY <3>2, <3>3
      <3>5. 1 \in Nat \ {0} /\ 1 <= MaxWidth /\ w \in Nat \ {0} /\ 1 * (w - 1) <= MaxWidth
        BY ONLY <1>1, w \in 1 .. MaxWidth
      <3>6. numberOf(ds, 1) = v % (Bit[1 * (w - 1)] * Bit[1])
        BY ONLY <3>3, <3>5, DigitsMakeNumber, v \in Nat
      <3>7. Bit[1 * (w - 1)] * Bit[1] = Bit[w]
        <4>1. 1 * (w - 1) \in Nat /\ 1 \in Nat /\ 1 * (w - 1) + 1 = w /\ w <= MaxWidth
          BY ONLY <1>1, w \in 1 .. MaxWidth
        <4>2. Bit[1 * (w - 1) + 1] = Bit[1 * (w - 1)] * Bit[1]
          BY ONLY <4>1, BitAdds
        <4> QED
          BY ONLY <4>1, <4>2
      <3>8. Bit[w] \in Nat \ {0}
        BY ONLY <1>1, BitIs, w \in 1 .. MaxWidth
      <3>9. v % Bit[w] = v
        BY ONLY <3>1, <3>8, NoneCutOff, v \in Nat
      <3> QED
        BY ONLY <3>1, <3>4, <3>6, <3>7, <3>9
    <2>4. unpackBits(src, pos, n, w) = [i \in 1 .. n |-> numberOf([j \in 1 .. w |-> rbit((i - 1) * w + j - 1)], 1)]
      BY DEF unpackBits, rbit
    <2>5. unpackBits(src, pos, n, w) = [i \in 1 .. n |-> vs[i]]
      BY ONLY <2>3, <2>4
    <2>6. vs = [i \in 1 .. n |-> vs[i]]
      BY ONLY <1>2, vs \in Seq(Nat)
    <2> QED
      BY ONLY <2>5, <2>6
  <1> QED
    BY ONLY <1>2, <1>4, <1>7, <1>8, N \in Nat

\* FlattenSeq's recursion over the first n of seqs.
Flattened(seqs, n, f) == f = [i \in 1 .. n |-> IF i = 1 THEN seqs[i] ELSE f[i - 1] \o seqs[i]]

\* The prefixes of a flattening, one for each length.
LEMMA FlattenedExists ==
  ASSUME NEW seqs, NEW n \in Nat
  PROVE  \E f : Flattened(seqs, n, f)
  <1> DEFINE P == {m \in Nat : \E f : Flattened(seqs, m, f)}
  <1>1. 0 \in P
    <2>1. \E f : Flattened(seqs, 0, f)
      <3> DEFINE e == [i \in 1 .. 0 |-> 0]
      <3>1. e = [i \in 1 .. 0 |-> IF i = 1 THEN seqs[i] ELSE e[i - 1] \o seqs[i]]
        OBVIOUS
      <3> QED
        BY <3>1 DEF Flattened
    <2> QED
      BY <2>1
  <1>2. ASSUME NEW m \in Nat, m \in P PROVE m + 1 \in P
    <2>1. PICK f : Flattened(seqs, m, f)
      BY <1>2
    <2> DEFINE longer == [i \in 1 .. m + 1 |-> IF i = 1 THEN seqs[i] ELSE f[i - 1] \o seqs[i]]
    <2>2. longer = [i \in 1 .. m + 1 |-> IF i = 1 THEN seqs[i] ELSE longer[i - 1] \o seqs[i]]
      <3>1. ASSUME NEW i \in 1 .. m + 1, i # 1 PROVE longer[i - 1] = f[i - 1]
        <4>1. i - 1 \in 1 .. m /\ i - 1 \in 1 .. m + 1
          BY <3>1
        <4>2. f[i - 1] = IF i - 1 = 1 THEN seqs[i - 1] ELSE f[(i - 1) - 1] \o seqs[i - 1]
          BY ONLY <2>1, <4>1, Zenon DEF Flattened
        <4>3. longer[i - 1] = IF i - 1 = 1 THEN seqs[i - 1] ELSE f[(i - 1) - 1] \o seqs[i - 1]
          BY ONLY <4>1, Zenon DEF longer
        <4> QED
          BY ONLY <4>2, <4>3, Zenon
      <3>2. ASSUME NEW i \in 1 .. m + 1
            PROVE  (IF i = 1 THEN seqs[i] ELSE f[i - 1] \o seqs[i])
                     = (IF i = 1 THEN seqs[i] ELSE longer[i - 1] \o seqs[i])
        <4> HIDE DEF longer
        <4>1. CASE i = 1
          BY ONLY <4>1, Zenon
        <4>2. CASE i # 1
          <5>1. longer[i - 1] = f[i - 1]
            BY ONLY <3>1, <4>2, i \in 1 .. m + 1, Zenon
          <5> QED
            BY ONLY <4>2, <5>1, Zenon
        <4> QED
          BY <4>1, <4>2
      <3>3. [i \in 1 .. m + 1 |-> IF i = 1 THEN seqs[i] ELSE f[i - 1] \o seqs[i]]
              = [i \in 1 .. m + 1 |-> IF i = 1 THEN seqs[i] ELSE longer[i - 1] \o seqs[i]]
        <4> HIDE DEF longer
        <4> QED
          BY ONLY <3>2, Zenon
      <3> QED
        BY ONLY <3>3, Zenon DEF longer
    <2>3. Flattened(seqs, m + 1, longer)
      <3> HIDE DEF longer
      <3> QED
        BY ONLY <2>2, Zenon DEF Flattened
    <2>4. m + 1 \in Nat /\ \E g : Flattened(seqs, m + 1, g)
      BY <2>3
    <2> QED
      BY <2>4
  <1>3. P \in SUBSET Nat
    OBVIOUS
  <1> HIDE DEF P
  <1>4. n \in P
    BY ONLY <1>1, <1>2, <1>3, NumberInduction, n \in Nat
  <1> QED
    BY <1>4 DEF P

\* The sequences seqs stand in s one behind the other: number i ends at at[i].
Laid(seqs, n, s, at) ==
  /\ at[0] = 0 /\ \A i \in 0 .. n : at[i] \in Nat
  /\ \A i \in 1 .. n : at[i] = at[i - 1] + Len(seqs[i])
  /\ Len(s) = at[n]
  /\ \A r \in 1 .. n : /\ at[r] <= at[n]
                       /\ \A j \in 1 .. Len(seqs[r]) : s[at[r - 1] + j] = seqs[r][j]

\* One more sequence is laid behind the others.
LEMMA LaidMore ==
  ASSUME NEW V, NEW seqs \in Seq(Seq(V)), NEW n \in Nat, n + 1 <= Len(seqs),
         NEW s \in Seq(V), NEW at, Laid(seqs, n, s, at),
         NEW bt, bt = [i \in 0 .. n + 1 |-> IF i <= n THEN at[i] ELSE at[n] + Len(seqs[n + 1])]
  PROVE  s \o seqs[n + 1] \in Seq(V) /\ Laid(seqs, n + 1, s \o seqs[n + 1], bt)
  <1>1. PICK c \in Seq(V) : c = seqs[n + 1]
    <2>1. n + 1 \in 1 .. Len(seqs)
      OBVIOUS
    <2> QED
      BY <2>1
  <1>2. PICK t \in Seq(V) : t = s \o c
    <2>1. s \o c \in Seq(V)
      BY ONLY s \in Seq(V), c \in Seq(V)
    <2> QED
      BY ONLY <2>1, Zenon
  <1>3. /\ Len(t) = Len(s) + Len(c)
        /\ \A j \in 1 .. Len(s) : t[j] = s[j]
        /\ \A j \in 1 .. Len(c) : t[Len(s) + j] = c[j]
    BY ONLY <1>2, s \in Seq(V), c \in Seq(V)
  <1>4. /\ at[0] = 0 /\ \A i \in 0 .. n : at[i] \in Nat
        /\ \A i \in 1 .. n : at[i] = at[i - 1] + Len(seqs[i])
        /\ Len(s) = at[n]
        /\ \A r \in 1 .. n : /\ at[r] <= at[n]
                             /\ \A j \in 1 .. Len(seqs[r]) : s[at[r - 1] + j] = seqs[r][j]
    BY ONLY Laid(seqs, n, s, at), Zenon DEF Laid
  <1>5. (\A i \in 0 .. n : bt[i] = at[i]) /\ bt[n + 1] = at[n] + Len(c)
    BY ONLY <1>1, bt = [i \in 0 .. n + 1 |-> IF i <= n THEN at[i] ELSE at[n] + Len(seqs[n + 1])], n \in Nat
  <1>6. at[n] \in Nat /\ Len(c) \in Nat /\ Len(s) \in Nat
    BY <1>4
  <1>7. bt[0] = 0 /\ \A i \in 0 .. n + 1 : bt[i] \in Nat
    <2>1. 0 \in 0 .. n /\ \A i \in 0 .. n + 1 : i \in 0 .. n \/ i = n + 1
      BY ONLY n \in Nat
    <2>2. bt[n + 1] \in Nat
      BY ONLY <1>5, <1>6
    <2> QED
      BY ONLY <1>4, <1>5, <2>1, <2>2, Zenon
  <1>8. \A i \in 1 .. n + 1 : bt[i] = bt[i - 1] + Len(seqs[i])
    <2> SUFFICES ASSUME NEW i \in 1 .. n + 1 PROVE bt[i] = bt[i - 1] + Len(seqs[i])
      OBVIOUS
    <2>1. CASE i \in 1 .. n
      <3>1. i \in 0 .. n /\ i - 1 \in 0 .. n
        BY ONLY <2>1, n \in Nat
      <3> QED
        BY ONLY <1>4, <1>5, <2>1, <3>1
    <2>2. CASE i = n + 1
      <3>1. i - 1 = n /\ n \in 0 .. n
        BY ONLY <2>2, n \in Nat
      <3> QED
        BY ONLY <1>1, <1>5, <2>2, <3>1
    <2> QED
      BY <2>1, <2>2
  <1>9. ASSUME NEW r \in 1 .. n + 1
        PROVE  bt[r] <= bt[n + 1] /\ \A j \in 1 .. Len(seqs[r]) : t[bt[r - 1] + j] = seqs[r][j]
    <2>1. CASE r \in 1 .. n
      <3>1. r \in 0 .. n /\ r - 1 \in 0 .. n
        BY ONLY <2>1, n \in Nat
      <3>2. bt[r] = at[r] /\ bt[r - 1] = at[r - 1] /\ at[r] <= at[n] /\ at[r] = at[r - 1] + Len(seqs[r])
            /\ at[r] \in Nat /\ at[r - 1] \in Nat
        BY ONLY <1>4, <1>5, <2>1, <3>1
      <3>3. bt[r] <= bt[n + 1]
        BY ONLY <1>5, <1>6, <3>2, SMTT(30)
      <3>4. ASSUME NEW j \in 1 .. Len(seqs[r]) PROVE t[bt[r - 1] + j] = seqs[r][j]
        <4>0. Len(seqs[r]) \in Nat
          <5>1. r \in 1 .. Len(seqs)
            BY ONLY <2>1, n \in Nat, n + 1 <= Len(seqs), Len(seqs) \in Nat
          <5>2. seqs[r] \in Seq(V)
            BY ONLY <5>1, seqs \in Seq(Seq(V))
          <5> QED
            BY <5>2
        <4>1. at[r - 1] + j \in 1 .. Len(s)
          <5>1. PICK a \in Nat, b \in Nat, l \in Nat, e \in Nat : a = at[r - 1] /\ b = at[r] /\ l = Len(seqs[r]) /\ e = at[n]
            BY ONLY <1>6, <3>2, <4>0
          <5>2. b = a + l /\ b <= e /\ Len(s) = e /\ j \in 1 .. l
            BY ONLY <1>4, <3>2, <5>1, j \in 1 .. Len(seqs[r])
          <5>3. a + j \in 1 .. e
            BY ONLY <5>2, a \in Nat, b \in Nat, l \in Nat, e \in Nat
          <5> QED
            BY ONLY <5>1, <5>2, <5>3
        <4>2. s[at[r - 1] + j] = seqs[r][j]
          BY ONLY <1>4, <2>1, j \in 1 .. Len(seqs[r]), Zenon
        <4>3. t[at[r - 1] + j] = s[at[r - 1] + j]
          BY ONLY <1>3, <4>1, Zenon
        <4> QED
          BY ONLY <3>2, <4>2, <4>3, Zenon
      <3> QED
        BY <3>3, <3>4
    <2>2. CASE r = n + 1
      <3>1. r - 1 = n /\ n \in 0 .. n
        BY ONLY <2>2, n \in Nat
      <3>2. bt[r - 1] = Len(s) /\ bt[r] <= bt[n + 1]
        BY ONLY <1>4, <1>5, <1>6, <2>2, <3>1
      <3> QED
        BY ONLY <1>1, <1>3, <2>2, <3>2
    <2>3. r \in 1 .. n \/ r = n + 1
      BY ONLY n \in Nat, r \in 1 .. n + 1
    <2> QED
      BY ONLY <2>1, <2>2, <2>3, Zenon
  <1>10. Len(t) = bt[n + 1]
    BY ONLY <1>3, <1>4, <1>5
  <1> QED
    BY ONLY <1>1, <1>2, <1>7, <1>8, <1>9, <1>10, Zenon DEF Laid

\* Flattening lays the sequences one behind the other.
LEMMA FlattenLays ==
  ASSUME NEW V, NEW seqs \in Seq(Seq(V))
  PROVE  FlattenSeq(seqs) \in Seq(V) /\ \E at : Laid(seqs, Len(seqs), FlattenSeq(seqs), at)
  <1>1. PICK n \in Nat : n = Len(seqs)
    OBVIOUS
  <1>2. CASE n = 0
    <2>0. seqs = <<>>
      BY ONLY <1>1, <1>2, seqs \in Seq(Seq(V)), EmptySeq
    <2>1. FlattenSeq(seqs) = <<>> /\ seqs = <<>>
      BY ONLY <1>1, <1>2, <2>0, Zenon DEF FlattenSeq
    <2> DEFINE at == [i \in 0 .. 0 |-> 0]
    <2>2. /\ at[0] = 0 /\ \A i \in 0 .. 0 : at[i] \in Nat
          /\ \A i \in 1 .. 0 : FALSE
      OBVIOUS
    <2>3. Len(<<>>) = 0
      OBVIOUS
    <2> HIDE DEF at
    <2>4. Laid(seqs, 0, <<>>, at)
      BY ONLY <2>2, <2>3, Zenon DEF Laid
    <2>5. <<>> \in Seq(V)
      OBVIOUS
    <2> QED
      BY ONLY <1>1, <1>2, <2>1, <2>4, <2>5, Zenon
  <1>3. CASE n > 0
    <2> DEFINE F == CHOOSE f : Flattened(seqs, n, f)
    <2>1. Flattened(seqs, n, F)
      BY FlattenedExists, Zenon
    <2>2. FlattenSeq(seqs) = F[n]
      BY ONLY <1>1, <1>3, n \in Nat DEF FlattenSeq, Flattened
    <2> HIDE DEF F
    <2>3. \A i \in 1 .. n : F[i] = IF i = 1 THEN seqs[i] ELSE F[i - 1] \o seqs[i]
      BY ONLY <2>1, Zenon DEF Flattened
    <2> DEFINE P == {u \in Nat : u + 1 <= n => F[u + 1] \in Seq(V) /\ \E at : Laid(seqs, u + 1, F[u + 1], at)}
    <2>4. 0 \in P
      <3>1. F[1] = seqs[1]
        BY <1>3, <2>3
      <3>2. PICK c \in Seq(V) : c = seqs[1]
        BY <1>1, <1>3
      <3> DEFINE at == [i \in 0 .. 1 |-> IF i = 0 THEN 0 ELSE Len(c)]
      <3>3. at[0] = 0 /\ at[1] = Len(c) /\ Len(c) \in Nat
        OBVIOUS
      <3> HIDE DEF at
      <3>4. (\A i \in 1 .. 1 : i = 1 /\ i - 1 = 0) /\ \A i \in 0 .. 1 : i = 0 \/ i = 1
        OBVIOUS
      <3>5. \A i \in 0 .. 1 : at[i] \in Nat
        BY ONLY <3>3, <3>4
      <3>6. \A i \in 1 .. 1 : at[i] = at[i - 1] + Len(seqs[i])
        BY ONLY <3>2, <3>3, <3>4
      <3>7. \A r \in 1 .. 1 : /\ at[r] <= at[1]
                              /\ \A j \in 1 .. Len(seqs[r]) : c[at[r - 1] + j] = seqs[r][j]
        BY ONLY <3>2, <3>3, <3>4
      <3>8. Laid(seqs, 1, c, at)
        BY ONLY <3>2, <3>3, <3>5, <3>6, <3>7, Zenon DEF Laid
      <3>9. 0 + 1 = 1
        OBVIOUS
      <3>10. F[0 + 1] \in Seq(V) /\ \E bt : Laid(seqs, 0 + 1, F[0 + 1], bt)
        BY ONLY <3>1, <3>2, <3>8, <3>9, c \in Seq(V), Zenon
      <3> QED
        BY <3>10
    <2>5. ASSUME NEW u \in Nat, u \in P PROVE u + 1 \in P
      <3> SUFFICES ASSUME (u + 1) + 1 <= n
                   PROVE  F[(u + 1) + 1] \in Seq(V) /\ \E at : Laid(seqs, (u + 1) + 1, F[(u + 1) + 1], at)
        OBVIOUS
      <3>1. PICK m \in Nat : m = u + 1 /\ m + 1 <= n /\ m >= 1
        OBVIOUS
      <3>2. F[m] \in Seq(V) /\ \E at : Laid(seqs, m, F[m], at)
        BY <2>5, <3>1
      <3>3. PICK at : Laid(seqs, m, F[m], at)
        BY <3>2
      <3>4. F[m + 1] = F[m] \o seqs[m + 1]
        <4>1. m + 1 \in 1 .. n /\ m + 1 # 1 /\ (m + 1) - 1 = m
          BY ONLY <3>1, m \in Nat, n \in Nat
        <4> QED
          BY ONLY <2>3, <4>1
      <3>5. PICK bt : bt = [i \in 0 .. m + 1 |-> IF i <= m THEN at[i] ELSE at[m] + Len(seqs[m + 1])]
        OBVIOUS
      <3>6. PICK s \in Seq(V) : s = F[m]
        BY <3>2
      <3>7. s \o seqs[m + 1] \in Seq(V) /\ Laid(seqs, m + 1, s \o seqs[m + 1], bt)
        BY ONLY <1>1, <3>1, <3>3, <3>5, <3>6, LaidMore, s \in Seq(V), m \in Nat, seqs \in Seq(Seq(V))
      <3> QED
        BY ONLY <3>1, <3>4, <3>6, <3>7, Zenon
    <2>6. P \in SUBSET Nat
      OBVIOUS
    <2> HIDE DEF P
    <2>7. n - 1 \in P
      <3>1. Nat \subseteq P
        BY ONLY <2>4, <2>5, <2>6, NumberInduction
      <3> QED
        BY <1>3, <3>1
    <2>8. (n - 1) + 1 = n /\ n <= n
      BY <1>3
    <2> QED
      BY ONLY <1>1, <2>2, <2>7, <2>8 DEF P
  <1> QED
    BY <1>2, <1>3

-----------------------------------------------------------------------------
(***************************************************************************)
(* PForDelta: the width that is chosen, the patches and the low bits.      *)
(***************************************************************************)

\* Wider is more.
LEMMA BitGrows ==
  ASSUME NEW m \in 0 .. MaxWidth, NEW n \in 0 .. MaxWidth, m <= n
  PROVE  Bit[m] <= Bit[n]
  <1>1. MaxWidth \in Nat
    BY CodecAssumption
  <1>2. PICK r \in Nat : r = n - m /\ m + r = n /\ m \in Nat /\ r \in 0 .. MaxWidth
    BY <1>1
  <1>3. Bit[n] = Bit[m] * Bit[r]
    BY ONLY <1>2, <1>1, BitAdds, n \in 0 .. MaxWidth, r \in Nat
  <1>4. PICK a \in Nat \ {0}, b \in Nat \ {0} : a = Bit[m] /\ b = Bit[r]
    BY <1>2, BitIs
  <1>5. a * b >= a
    BY ONLY a \in Nat \ {0}, b \in Nat \ {0}
  <1> QED
    BY ONLY <1>3, <1>4, <1>5

\* A value of the codec's width is written in at most five bytes.
LEMMA FitsUvarint ==
  ASSUME NEW x \in Nat, x < Bit[MaxWidth]
  PROVE  x < Bit[28] * 128
  <1>1. MaxWidth \in 28 .. 32 /\ Bit[7] = 128
    BY CodecAssumption, BitValues
  <1>2. PICK r \in Nat : r = MaxWidth - 28 /\ 28 + r = MaxWidth /\ r <= 4 /\ r \in 0 .. MaxWidth /\ 7 \in 0 .. MaxWidth
    BY <1>1
  <1>3. Bit[MaxWidth] = Bit[28] * Bit[r]
    <2>1. PICK c \in Nat : c = 28
      OBVIOUS
    <2>2. c + r <= MaxWidth /\ c + r = MaxWidth
      BY <1>1, <1>2, <2>1
    <2>3. Bit[c + r] = Bit[c] * Bit[r]
      BY ONLY <2>2, BitAdds, c \in Nat, r \in Nat
    <2> QED
      BY ONLY <2>1, <2>2, <2>3
  <1>4. Bit[r] <= 128
    <2>1. PICK s \in 0 .. MaxWidth : s = 7
      BY ONLY <1>2
    <2>2. Bit[r] <= Bit[s]
      BY ONLY <1>2, <2>1, BitGrows, s \in 0 .. MaxWidth, r \in Nat
    <2> QED
      BY ONLY <1>1, <2>1, <2>2
  <1>5. PICK a \in Nat \ {0}, b \in Nat \ {0} : a = Bit[28] /\ b = Bit[r]
    BY <1>1, <1>2, BitIs
  <1>6. a * b <= a * 128 /\ a * b \in Nat /\ a * 128 \in Nat
    BY ONLY a \in Nat \ {0}, b \in Nat \ {0}, <1>4, <1>5
  <1> QED
    BY ONLY <1>3, <1>5, <1>6, x \in Nat, x < Bit[MaxWidth]

\* How many bytes a varint takes.
LEMMA UvarintTakes ==
  ASSUME NEW x \in Nat, x < Bit[MaxWidth]
  PROVE  uvarintLen(x) \in 1 .. 5
  <1>1. x < Bit[28] * 128
    BY FitsUvarint
  <1> QED
    BY <1>1, UvarintLenIs

\* The width of a value, and of the largest of some values.
LEMMA WidthIs ==
  ASSUME NEW v \in Nat, v < Bit[MaxWidth]
  PROVE  minWidth(v) \in 1 .. MaxWidth /\ v < Bit[minWidth(v)]
  <1>1. MaxWidth \in 28 .. 32
    BY CodecAssumption
  <1> DEFINE S == {w \in 1 .. MaxWidth : v < Bit[w]}
  <1>2. MaxWidth \in S /\ S \in SUBSET Nat
    BY <1>1
  <1>3. minWidth(v) = Min(S)
    BY DEF minWidth
  <1>4. Min(S) \in S
    <2> HIDE DEF S
    <2> QED
      BY <1>2, LeastIsIn
  <1> QED
    BY <1>3, <1>4

\* The width of the largest value is enough for all of them.
LEMMA MaxWidthIs ==
  ASSUME NEW n \in Nat \ {0}, NEW vs \in [1 .. n -> Nat], \A i \in 1 .. n : vs[i] < Bit[MaxWidth]
  PROVE  maxWidth(vs) \in 1 .. MaxWidth /\ \A i \in 1 .. n : vs[i] < Bit[maxWidth(vs)]
  <1>1. maxOf(vs) \in Nat /\ (\A i \in 1 .. n : vs[i] <= maxOf(vs)) /\ \E i \in 1 .. n : vs[i] = maxOf(vs)
    BY MaxOfIsReached
  <1>2. PICK x \in Nat : x = maxOf(vs) /\ x < Bit[MaxWidth] /\ \A i \in 1 .. n : vs[i] <= x
    BY <1>1
  <1>3. minWidth(x) \in 1 .. MaxWidth /\ x < Bit[minWidth(x)]
    BY <1>2, WidthIs
  <1>4. PICK b \in Nat : b = Bit[minWidth(x)]
    <2>1. minWidth(x) \in 0 .. MaxWidth
      BY <1>3, CodecAssumption
    <2> QED
      BY <2>1, BitIs
  <1>5. \A i \in 1 .. n : vs[i] < b
    <2>1. \A i \in 1 .. n : vs[i] \in Nat
      OBVIOUS
    <2> QED
      BY ONLY <1>2, <1>3, <1>4, <2>1, x \in Nat, b \in Nat
  <1>6. maxWidth(vs) = minWidth(x)
    BY <1>2 DEF maxWidth
  <1> QED
    BY ONLY <1>3, <1>4, <1>5, <1>6

\* Of numbers over the first places, one place has the least.
LEMMA CheapestIs ==
  ASSUME NEW m \in Nat \ {0}, NEW c, DOMAIN c = 1 .. m, \A w \in 1 .. m : c[w] \in Nat
  PROVE  Min({w \in DOMAIN c : \A v \in DOMAIN c : c[w] <= c[v]}) \in 1 .. m
  <1> DEFINE T == {c[w] : w \in 1 .. m}
             S == {w \in DOMAIN c : \A v \in DOMAIN c : c[w] <= c[v]}
  <1>1. PICK x \in T : \A y \in T : x <= y
    <2>1. T \in SUBSET Nat /\ T # {}
      <3>1. 1 \in 1 .. m
        OBVIOUS
      <3> QED
        BY <3>1
    <2> HIDE DEF T
    <2> QED
      BY <2>1, LeastNumber
  <1>2. PICK w \in 1 .. m : x = c[w]
    OBVIOUS
  <1>3. \A v \in 1 .. m : c[v] \in T
    OBVIOUS
  <1>4. \A v \in 1 .. m : c[w] <= c[v]
    BY ONLY <1>1, <1>2, <1>3
  <1>5. S \in SUBSET Nat /\ w \in S
    BY ONLY <1>4, DOMAIN c = 1 .. m, w \in 1 .. m, m \in Nat \ {0}
  <1>6. Min(S) \in S
    <2> HIDE DEF S
    <2> QED
      BY <1>5, LeastIsIn
  <1> QED
    BY <1>6

\* The width of the packed frequencies is one of the codec's.
LEMMA ChosenWidthIs ==
  ASSUME NEW n \in Nat \ {0}, NEW vs \in Seq(Nat), Len(vs) = n, \A i \in 1 .. n : vs[i] < Bit[MaxWidth]
  PROVE  chooseWidth(vs) \in 1 .. MaxWidth
  <1>1. MaxWidth \in 28 .. 32
    BY CodecAssumption
  <1>2. PICK m \in 1 .. MaxWidth : m = maxWidth(vs)
    <2>1. vs \in [1 .. n -> Nat]
      OBVIOUS
    <2> QED
      BY <2>1, MaxWidthIs
  <1> DEFINE size(w) == SumFunction([i \in exceptions(vs, w) |-> 1 + uvarintLen(vs[i])])
             cost == [w \in 1 .. m |-> packedLen(Len(vs), w) + size(w)]
  <1>3. ASSUME NEW w \in 1 .. m PROVE cost[w] \in Nat
    <2>1. packedLen(n, w) \in Nat
      <3>1. n * w \in Nat
        BY ONLY <1>1, m \in 1 .. MaxWidth, w \in 1 .. m, n \in Nat \ {0}
      <3>2. (n * w + 7) \div 8 \in Nat
        BY <3>1
      <3> QED
        BY <3>2 DEF packedLen
    <2>2. size(w) \in Nat
      <3>1. PICK S : S = exceptions(vs, w)
        OBVIOUS
      <3>2. S \subseteq 1 .. n
        BY <3>1 DEF exceptions
      <3>3. IsFiniteSet(S)
        <4>1. IsFiniteSet(1 .. n)
          BY FS_Interval
        <4> QED
          BY <3>2, <4>1, FS_Subset
      <3>4. PICK f : f = [i \in S |-> 1 + uvarintLen(vs[i])]
        OBVIOUS
      <3>5. ASSUME NEW i \in S PROVE f[i] \in Nat
        <4>1. PICK x \in Nat : x = vs[i] /\ x < Bit[MaxWidth]
          BY ONLY <3>2, i \in S, vs \in Seq(Nat), Len(vs) = n, \A j \in 1 .. n : vs[j] < Bit[MaxWidth]
        <4>3. uvarintLen(x) \in Nat
          BY ONLY <4>1, UvarintTakes, x \in Nat
        <4> QED
          BY ONLY <3>4, <4>1, <4>3, i \in S
      <3>6. SumFunction(f) \in Nat
        BY ONLY <3>3, <3>4, <3>5, SumIsItsWeight
      <3> QED
        BY <3>1, <3>4, <3>6
    <2> HIDE DEF size
    <2> QED
      BY <2>1, <2>2
  <1>4. chooseWidth(vs) = Min({w \in DOMAIN cost : \A v \in DOMAIN cost : cost[w] <= cost[v]})
    BY <1>2, Zenon DEF chooseWidth
  <1>5. DOMAIN cost = 1 .. m /\ m \in Nat \ {0}
    BY <1>1
  <1> HIDE DEF cost
  <1>6. chooseWidth(vs) \in 1 .. m
    BY ONLY <1>3, <1>4, <1>5, CheapestIs
  <1> QED
    BY <1>1, <1>6

\* Bytes, or larger numbers too.
ByteSet(V) == Bytes \subseteq V /\ V \subseteq Nat

\* A patch: a position and the value there.
Patch(p, x) == <<p>> \o appendUvarint(x)

\* A patch is read as its position and its value.
LEMMA PatchReads ==
  ASSUME NEW V, ByteSet(V), NEW p \in V, NEW x \in Nat, x < Bit[MaxWidth],
         NEW c, c = Patch(p, x)
  PROVE  /\ c \in Seq(V) /\ Len(c) \in Nat \ {0}
         /\ \A src : \A q \in Nat : Len(src) \in Nat /\ Stands(src, q, c)
               => src[q + 1] = p /\ readUvarint(src, q + 1) = <<x, Len(c) - 1>>
  <1>1. x < Bit[28] * 128
    BY FitsUvarint
  <1>2. PICK s \in Seq(Bytes) : /\ s = appendUvarint(x) /\ Len(s) \in 1 .. 5
                                /\ \A src : \A pos \in Nat : Len(src) \in Nat /\ Stands(src, pos, s)
                                      => readUvarint(src, pos) = <<x, Len(s)>>
    BY <1>1, UvarintReads
  <1>3. s \in Seq(V)
    <2>1. Bytes \subseteq V
      BY DEF ByteSet
    <2> QED
      BY ONLY s \in Seq(Bytes), <2>1
  <1>4. c \in Seq(V) /\ Len(c) = 1 + Len(s) /\ c[1] = p /\ \A j \in 1 .. Len(s) : c[1 + j] = s[j]
    <2>1. c = <<p>> \o s
      BY ONLY <1>2, c = Patch(p, x), Zenon DEF Patch
    <2>2. <<p>> \in Seq(V) /\ Len(<<p>>) = 1 /\ <<p>>[1] = p
      BY ONLY p \in V
    <2>3. PICK h \in Seq(V) : h = <<p>>
      BY ONLY <2>2
    <2>4. h \o s \in Seq(V) /\ Len(h \o s) = Len(h) + Len(s)
      BY ONLY <1>3, h \in Seq(V)
    <2>5. (h \o s)[1] = h[1] /\ \A j \in 1 .. Len(s) : (h \o s)[Len(h) + j] = s[j]
      BY ONLY <1>3, h \in Seq(V), <2>2, <2>3
    <2> QED
      BY ONLY <2>1, <2>2, <2>3, <2>4, <2>5
  <1>5. Len(s) \in Nat /\ Len(c) \in Nat \ {0} /\ Len(c) - 1 = Len(s)
    BY ONLY <1>2, <1>4
  <1>6. ASSUME NEW src, NEW q \in Nat, Len(src) \in Nat, Stands(src, q, c)
        PROVE  src[q + 1] = p /\ readUvarint(src, q + 1) = <<x, Len(c) - 1>>
    <2>1. q + Len(c) <= Len(src) /\ \A j \in 1 .. Len(c) : src[q + j] = c[j]
      BY ONLY <1>6, Zenon DEF Stands
    <2>2. src[q + 1] = p
      <3>1. 1 \in 1 .. Len(c)
        BY ONLY <1>5
      <3> QED
        BY ONLY <1>4, <2>1, <3>1, Zenon
    <2>3. (q + 1) + Len(s) <= Len(src)
      BY ONLY <1>4, <1>5, <2>1, q \in Nat, Len(src) \in Nat
    <2>4. ASSUME NEW j \in 1 .. Len(s) PROVE src[(q + 1) + j] = s[j]
      <3>1. 1 + j \in 1 .. Len(c) /\ (q + 1) + j = q + (1 + j)
        <4>1. PICK l \in Nat : l = Len(s) /\ Len(c) = 1 + l /\ j \in 1 .. l
          BY ONLY <1>4, <1>5, j \in 1 .. Len(s)
        <4>2. 1 + j \in 1 .. 1 + l /\ (q + 1) + j = q + (1 + j)
          BY ONLY <4>1, q \in Nat, l \in Nat
        <4> QED
          BY ONLY <4>1, <4>2
      <3> QED
        BY ONLY <1>4, <2>1, <3>1, j \in 1 .. Len(s), Zenon
    <2>5. Stands(src, q + 1, s) /\ q + 1 \in Nat
      BY ONLY <2>3, <2>4, q \in Nat DEF Stands
    <2>6. readUvarint(src, q + 1) = <<x, Len(s)>>
      BY ONLY <1>2, <1>6, <2>5, Zenon
    <2> QED
      BY ONLY <1>5, <2>2, <2>6, Zenon
  <1> QED
    BY ONLY <1>4, <1>5, <1>6

\* A part of what stands behind pos stands behind its own place.
LEMMA PartHeld ==
  ASSUME NEW V, NEW a \in Seq(V), NEW b \in Seq(V), NEW src, Len(src) \in Nat, NEW pos \in Nat,
         Stands(src, pos, a \o b)
  PROVE  Stands(src, pos, a) /\ Stands(src, pos + Len(a), b)
  <1>1. PICK t \in Seq(V) : t = a \o b
    <2>1. a \o b \in Seq(V)
      BY ONLY a \in Seq(V), b \in Seq(V)
    <2> QED
      BY ONLY <2>1, Zenon
  <1>2. /\ Len(t) = Len(a) + Len(b) /\ Len(a) \in Nat /\ Len(b) \in Nat
        /\ \A j \in 1 .. Len(a) : t[j] = a[j]
        /\ \A j \in 1 .. Len(b) : t[Len(a) + j] = b[j]
    BY ONLY <1>1, a \in Seq(V), b \in Seq(V)
  <1>3. pos + Len(t) <= Len(src) /\ \A j \in 1 .. Len(t) : src[pos + j] = t[j]
    BY ONLY <1>1, Stands(src, pos, a \o b), Zenon DEF Stands
  <1>4. PICK m \in Nat, n \in Nat : m = Len(a) /\ n = Len(b) /\ Len(t) = m + n
    BY ONLY <1>2
  <1>5. pos + m <= Len(src) /\ (pos + m) + n <= Len(src)
    BY ONLY <1>3, <1>4, m \in Nat, n \in Nat, pos \in Nat, Len(src) \in Nat
  <1>6. \A j \in 1 .. m : src[pos + j] = a[j]
    <2>1. \A j \in 1 .. m : j \in 1 .. m + n
      BY ONLY m \in Nat, n \in Nat
    <2> QED
      BY ONLY <1>2, <1>3, <1>4, <2>1, Zenon
  <1>7. \A j \in 1 .. n : src[(pos + m) + j] = b[j]
    <2>1. \A j \in 1 .. n : m + j \in 1 .. m + n /\ (pos + m) + j = pos + (m + j)
      BY ONLY m \in Nat, n \in Nat, pos \in Nat
    <2> QED
      BY ONLY <1>2, <1>3, <1>4, <2>1, Zenon
  <1> QED
    BY ONLY <1>4, <1>5, <1>6, <1>7, Zenon DEF Stands

\* A sequence laid among others stands behind their ends.
LEMMA LaidHeld ==
  ASSUME NEW V, NEW seqs \in Seq(Seq(V)), NEW n \in Nat, n = Len(seqs), NEW s, NEW at, Laid(seqs, n, s, at),
         NEW src, Len(src) \in Nat, NEW pos \in Nat, Stands(src, pos, s), NEW r \in 1 .. n
  PROVE  Stands(src, pos + at[r - 1], seqs[r]) /\ pos + at[r - 1] \in Nat
  <1>1. /\ \A i \in 0 .. n : at[i] \in Nat
        /\ \A i \in 1 .. n : at[i] = at[i - 1] + Len(seqs[i])
        /\ Len(s) = at[n]
        /\ \A i \in 1 .. n : /\ at[i] <= at[n]
                             /\ \A j \in 1 .. Len(seqs[i]) : s[at[i - 1] + j] = seqs[i][j]
    BY ONLY Laid(seqs, n, s, at), Zenon DEF Laid
  <1>2. pos + Len(s) <= Len(src) /\ \A j \in 1 .. Len(s) : src[pos + j] = s[j]
    BY ONLY Stands(src, pos, s), Zenon DEF Stands
  <1>3. r \in 0 .. n /\ r - 1 \in 0 .. n /\ n \in 0 .. n
    BY ONLY n \in Nat, r \in 1 .. n
  <1>4. Len(seqs[r]) \in Nat
    <2>1. seqs[r] \in Seq(V)
      BY ONLY seqs \in Seq(Seq(V)), r \in 1 .. n, n = Len(seqs)
    <2> QED
      BY <2>1
  <1>5. PICK a \in Nat, b \in Nat, e \in Nat, l \in Nat :
               a = at[r - 1] /\ b = at[r] /\ e = at[n] /\ l = Len(seqs[r])
    BY ONLY <1>1, <1>3, <1>4
  <1>6. b = a + l /\ b <= e /\ pos + e <= Len(src)
    BY ONLY <1>1, <1>2, <1>5, r \in 1 .. n
  <1>7. (pos + a) + l <= Len(src)
    BY ONLY <1>6, a \in Nat, b \in Nat, e \in Nat, l \in Nat, pos \in Nat, Len(src) \in Nat
  <1>8. ASSUME NEW j \in 1 .. l PROVE src[(pos + a) + j] = seqs[r][j]
    <2>1. a + j \in 1 .. e /\ (pos + a) + j = pos + (a + j)
      BY ONLY <1>6, a \in Nat, b \in Nat, e \in Nat, l \in Nat, pos \in Nat, j \in 1 .. l
    <2>2. src[pos + (a + j)] = s[a + j]
      BY ONLY <1>1, <1>2, <1>5, <2>1, Zenon
    <2>3. s[a + j] = seqs[r][j]
      BY ONLY <1>1, <1>5, j \in 1 .. l, r \in 1 .. n, Zenon
    <2> QED
      BY ONLY <2>1, <2>2, <2>3, Zenon
  <1>9. pos + a \in Nat
    BY ONLY pos \in Nat, a \in Nat
  <1> QED
    BY ONLY <1>5, <1>7, <1>8, <1>9, Zenon DEF Stands

\* Whoever reads behind the first element of one of seqs skips it.
Skippable(src, seqs, m) ==
  \A i \in 1 .. m : \A p \in Nat : Stands(src, p, seqs[i]) => readUvarint(src, p + 1)[2] = Len(seqs[i]) - 1

Skipping(src) == [p \in Nat |-> p + 1 + readUvarint(src, p + 1)[2]]

\* Skipping the patches one by one ends behind each of them.
LEMMA AfterIs ==
  ASSUME NEW V, NEW seqs \in Seq(Seq(V)), NEW m \in Nat, m = Len(seqs), NEW s, NEW at, Laid(seqs, m, s, at),
         NEW src, Len(src) \in Nat, NEW q \in Nat, Stands(src, q, s),
         Skippable(src, seqs, m),
         NEW skip, skip = Skipping(src)
  PROVE  \A i \in 0 .. m : Iterate(skip, q, i) = q + at[i]
  <1> DEFINE P == {i \in Nat : i <= m => Iterate(skip, q, i) = q + at[i]}
  <1>1. at[0] = 0 /\ (\A i \in 0 .. m : at[i] \in Nat) /\ \A i \in 1 .. m : at[i] = at[i - 1] + Len(seqs[i])
    BY ONLY Laid(seqs, m, s, at), Zenon DEF Laid
  <1>2. \A i \in Nat : Iterate(skip, q, 0) = q /\ Iterate(skip, q, i + 1) = skip[Iterate(skip, q, i)]
    BY ONLY IterateStep, Zenon
  <1>3. 0 \in P
    <2>1. 0 \in Nat /\ q + 0 = q
      BY ONLY q \in Nat
    <2>2. Iterate(skip, q, 0) = q + at[0]
      BY ONLY <1>1, <1>2, <2>1, Zenon
    <2> QED
      BY ONLY <2>1, <2>2 DEF P
  <1>4. ASSUME NEW i \in Nat, i \in P PROVE i + 1 \in P
    <2> SUFFICES ASSUME i + 1 <= m PROVE Iterate(skip, q, i + 1) = q + at[i + 1]
      OBVIOUS
    <2>1. i <= m /\ i + 1 \in 1 .. m /\ (i + 1) - 1 = i /\ i \in 0 .. m /\ i + 1 \in 0 .. m
      BY ONLY i \in Nat, m \in Nat, i + 1 <= m
    <2>2. Iterate(skip, q, i) = q + at[i]
      BY ONLY <1>4, <2>1 DEF P
    <2>3. PICK r \in 1 .. m : r = i + 1 /\ r - 1 = i
      BY ONLY <2>1
    <2>4. Stands(src, q + at[r - 1], seqs[r]) /\ q + at[r - 1] \in Nat
      BY ONLY seqs \in Seq(Seq(V)), m \in Nat, m = Len(seqs), Laid(seqs, m, s, at), Len(src) \in Nat, q \in Nat,
              Stands(src, q, s), r \in 1 .. m, LaidHeld
    <2>5. PICK p \in Nat : p = q + at[i] /\ Stands(src, p, seqs[i + 1])
      BY ONLY <2>3, <2>4
    <2>6. readUvarint(src, p + 1)[2] = Len(seqs[i + 1]) - 1
      BY ONLY <2>1, <2>5, p \in Nat, Skippable(src, seqs, m) DEF Skippable
    <2>7. skip[p] = p + 1 + readUvarint(src, p + 1)[2]
      BY ONLY p \in Nat, skip = Skipping(src), Zenon DEF Skipping
    <2>8. PICK a \in Nat, b \in Nat : a = at[i] /\ b = at[i + 1]
      BY ONLY <1>1, <2>1
    <2>9. PICK l : l = Len(seqs[i + 1])
      OBVIOUS
    <2>10. l \in Nat
      <3>1. seqs[i + 1] \in Seq(V)
        BY ONLY seqs \in Seq(Seq(V)), <2>1, m = Len(seqs)
      <3> QED
        BY <2>9, <3>1
    <2>11. b = a + l
      BY ONLY <1>1, <2>1, <2>8, <2>9
    <2>12. skip[p] = p + 1 + (l - 1)
      BY ONLY <2>6, <2>7, <2>9, Zenon
    <2>13. skip[p] = q + b
      <3>1. PICK z : z = skip[p]
        OBVIOUS
      <3>2. z = p + 1 + (l - 1) /\ p = q + a
        BY ONLY <2>5, <2>8, <2>12, <3>1
      <3>3. z = q + b
        BY ONLY <2>10, <2>11, <3>2, q \in Nat, a \in Nat, b \in Nat
      <3> QED
        BY ONLY <3>1, <3>3, Zenon
    <2>14. Iterate(skip, q, i + 1) = skip[p]
      BY ONLY <1>2, <2>2, <2>5, i \in Nat, Zenon
    <2> QED
      BY ONLY <2>8, <2>13, <2>14
  <1>5. P \in SUBSET Nat
    OBVIOUS
  <1> HIDE DEF P
  <1>6. Nat \subseteq P
    BY ONLY <1>3, <1>4, <1>5, NumberInduction
  <1>7. \A i \in 0 .. m : i \in Nat /\ i <= m
    OBVIOUS
  <1> QED
    BY ONLY <1>6, <1>7 DEF P

\* The positions of the exceptions in order.
LEMMA ExceptionsAre ==
  ASSUME NEW n \in Nat \ {0}, NEW vs \in Seq(Nat), Len(vs) = n, NEW w
  PROVE  /\ exceptions(vs, w) \subseteq 1 .. n
         /\ \E m \in 0 .. n : /\ Len(ascending(exceptions(vs, w))) = m
                              /\ ascending(exceptions(vs, w)) \in Seq(1 .. n)
                              /\ \A i \in 1 .. m : ascending(exceptions(vs, w))[i] \in exceptions(vs, w)
                              /\ \A i, j \in 1 .. m : ascending(exceptions(vs, w))[i] = ascending(exceptions(vs, w))[j] => i = j
                              /\ \A x \in exceptions(vs, w) : \E i \in 1 .. m : ascending(exceptions(vs, w))[i] = x
  <1>1. PICK S \in SUBSET (1 .. n) : S = exceptions(vs, w)
    <2>1. DOMAIN vs = 1 .. n
      OBVIOUS
    <2> QED
      BY ONLY <2>1, Zenon DEF exceptions
  <1>2. PICK m : m = Cardinality(S)
    OBVIOUS
  <1>3. PICK exc : exc = ascending(S)
    OBVIOUS
  <1>4. /\ IsFiniteSet(S) /\ m \in Nat /\ exc \in Seq(S) /\ Len(exc) = m
        /\ \A i, j \in 1 .. m : exc[i] = exc[j] => i = j
        /\ \A x \in S : \E i \in 1 .. m : exc[i] = x
    BY <1>2, <1>3, AscendingIsWhole
  <1>5. m <= n
    <2>1. IsFiniteSet(1 .. n) /\ Cardinality(1 .. n) = n
      BY FS_Interval
    <2> QED
      BY <1>2, <2>1, FS_Subset
  <1>6. exc \in Seq(1 .. n) /\ \A i \in 1 .. m : exc[i] \in S
    <2>1. \A i \in 1 .. m : exc[i] \in S
      BY ONLY <1>4
    <2>2. exc = [i \in 1 .. m |-> exc[i]]
      BY ONLY <1>4
    <2> QED
      BY ONLY <1>4, <2>1, <2>2, S \in SUBSET (1 .. n)
  <1>7. m \in 0 .. n
    BY <1>4, <1>5
  <1> QED
    BY ONLY <1>1, <1>3, <1>4, <1>6, <1>7, S \in SUBSET (1 .. n)

\* What is written of frequencies at any width is read again.
LEMMA PatchesRead ==
  ASSUME NEW V, ByteSet(V), NEW n \in Nat \ {0}, 0 .. n \subseteq V,
         NEW vs \in Seq(Nat), Len(vs) = n, \A i \in 1 .. n : vs[i] < Bit[MaxWidth], NEW w \in 1 .. MaxWidth,
         NEW enc, enc = patchAndPack(vs, ascending(exceptions(vs, w)), w)
  PROVE  /\ enc \in Seq(V)
         /\ \A src : Len(src) \in Nat => \A pos \in Nat : Stands(src, pos, enc) => readPForDelta(src, pos, n) = vs
  <1>1. MaxWidth \in 28 .. 32 /\ Bytes \subseteq V
    BY CodecAssumption DEF ByteSet
  <1>2. PICK exc : exc = ascending(exceptions(vs, w))
    OBVIOUS
  <1>3. PICK m \in 0 .. n :
          /\ exc = ascending(exceptions(vs, w)) /\ Len(exc) = m /\ exc \in Seq(1 .. n)
          /\ \A i \in 1 .. m : exc[i] \in exceptions(vs, w)
          /\ \A i, j \in 1 .. m : exc[i] = exc[j] => i = j
          /\ \A x \in exceptions(vs, w) : \E i \in 1 .. m : exc[i] = x
    <2>1. \E m \in 0 .. n : /\ Len(ascending(exceptions(vs, w))) = m
                            /\ ascending(exceptions(vs, w)) \in Seq(1 .. n)
                            /\ \A i \in 1 .. m : ascending(exceptions(vs, w))[i] \in exceptions(vs, w)
                            /\ \A i, j \in 1 .. m : ascending(exceptions(vs, w))[i] = ascending(exceptions(vs, w))[j] => i = j
                            /\ \A x \in exceptions(vs, w) : \E i \in 1 .. m : ascending(exceptions(vs, w))[i] = x
      BY ExceptionsAre
    <2> QED
      BY ONLY <1>2, <2>1
  <1>4. PICK B \in Nat \ {0} : B = Bit[w]
    <2>1. w \in 0 .. MaxWidth
      BY <1>1
    <2> QED
      BY <2>1, BitIs
  <1>5. PICK low : low = [i \in DOMAIN vs |-> vs[i] % Bit[w]]
    OBVIOUS
  <1>6. low \in Seq(Nat) /\ Len(low) = n /\ \A i \in 1 .. n : low[i] = vs[i] % B /\ low[i] < B
    <2>1. low = [i \in 1 .. n |-> vs[i] % B]
      BY ONLY <1>4, <1>5, vs \in Seq(Nat), Len(vs) = n
    <2>2. ASSUME NEW i \in 1 .. n PROVE vs[i] % B \in Nat /\ vs[i] % B < B
      <3>1. PICK x \in Nat : x = vs[i]
        BY ONLY vs \in Seq(Nat), Len(vs) = n, i \in 1 .. n
      <3>2. x % B \in 0 .. B - 1
        BY ONLY Dividing, x \in Nat, B \in Nat \ {0}, Zenon
      <3> QED
        BY ONLY <3>1, <3>2, B \in Nat \ {0}
    <2> QED
      BY ONLY <2>1, <2>2, n \in Nat \ {0}
  <1>7. PICK patches : patches = [i \in DOMAIN exc |-> <<exc[i] - 1>> \o appendUvarint(vs[exc[i]])]
    OBVIOUS
  <1>8. DOMAIN exc = 1 .. m /\ m \in Nat /\ m <= n
    BY ONLY <1>3, n \in Nat \ {0}, m \in 0 .. n
  <1>9. ASSUME NEW i \in 1 .. m
        PROVE  /\ exc[i] \in 1 .. n /\ exc[i] - 1 \in V /\ vs[exc[i]] \in Nat /\ vs[exc[i]] < Bit[MaxWidth]
               /\ patches[i] = <<exc[i] - 1>> \o appendUvarint(vs[exc[i]])
    <2>1. PICK e \in 1 .. n : e = exc[i]
      BY ONLY <1>3, <1>8, i \in 1 .. m
    <2>2. e - 1 \in V
      <3>1. e - 1 \in 0 .. n
        BY ONLY e \in 1 .. n, n \in Nat \ {0}
      <3> QED
        BY ONLY <3>1, 0 .. n \subseteq V
    <2>3. vs[e] \in Nat /\ vs[e] < Bit[MaxWidth]
      BY ONLY vs \in Seq(Nat), Len(vs) = n, e \in 1 .. n, \A j \in 1 .. n : vs[j] < Bit[MaxWidth]
    <2>4. patches[i] = <<exc[i] - 1>> \o appendUvarint(vs[exc[i]])
      BY ONLY <1>7, <1>8, i \in 1 .. m, Zenon
    <2> QED
      BY ONLY <2>1, <2>2, <2>3, <2>4
  <1>10. ASSUME NEW i \in 1 .. m
        PROVE  /\ patches[i] \in Seq(V) /\ Len(patches[i]) \in Nat \ {0}
               /\ \A src : \A q \in Nat : Len(src) \in Nat /\ Stands(src, q, patches[i])
                     => src[q + 1] = exc[i] - 1 /\ readUvarint(src, q + 1) = <<vs[exc[i]], Len(patches[i]) - 1>>
    <2>1. PICK p \in V, x \in Nat : p = exc[i] - 1 /\ x = vs[exc[i]] /\ x < Bit[MaxWidth]
      BY ONLY <1>9, i \in 1 .. m
    <2>2. PICK c : c = patches[i]
      OBVIOUS
    <2>3. c = Patch(p, x)
      BY ONLY <1>9, <2>1, <2>2, i \in 1 .. m, Zenon DEF Patch
    <2>4. /\ c \in Seq(V) /\ Len(c) \in Nat \ {0}
          /\ \A src : \A q \in Nat : Len(src) \in Nat /\ Stands(src, q, c)
                => src[q + 1] = p /\ readUvarint(src, q + 1) = <<x, Len(c) - 1>>
      <3>1. x < Bit[MaxWidth]
        BY ONLY <2>1
      <3> QED
        BY ONLY <2>3, <3>1, ByteSet(V), p \in V, x \in Nat, PatchReads
    <2> QED
      BY ONLY <2>1, <2>2, <2>4, Zenon
  <1>11. patches \in Seq(Seq(V)) /\ Len(patches) = m
    <2>1. patches = [i \in 1 .. m |-> patches[i]]
      BY ONLY <1>7, <1>8
    <2>2. PICK W : W = Seq(V)
      OBVIOUS
    <2>3. \A i \in 1 .. m : patches[i] \in W
      BY ONLY <1>10, <2>2
    <2>4. m \in Nat
      BY ONLY <1>8
    <2>5. patches \in [1 .. m -> W]
      BY ONLY <2>1, <2>3, Zenon
    <2>6. patches \in Seq(W) /\ Len(patches) = m
      BY ONLY <2>4, <2>5
    <2> QED
      BY ONLY <2>2, <2>6, Zenon
  <1>12. PICK flat \in Seq(V) : flat = FlattenSeq(patches) /\ \E at : Laid(patches, m, flat, at)
    <2>1. FlattenSeq(patches) \in Seq(V) /\ \E at : Laid(patches, Len(patches), FlattenSeq(patches), at)
      BY ONLY <1>11, FlattenLays
    <2> QED
      BY ONLY <1>11, <2>1
  <1>13. PICK at : flat = FlattenSeq(patches) /\ Laid(patches, m, flat, at)
    BY ONLY <1>12
  <1>14. PICK packed : packed = packBits(low, w)
    OBVIOUS
  <1>15. /\ packed \in Seq(V)
         /\ \A src : \A pos \in Nat : Stands(src, pos, packed) => unpackBits(src, pos, n, w) = low
    <2>1. \A i \in DOMAIN low : low[i] < Bit[w]
      BY ONLY <1>4, <1>6
    <2>2. /\ packBits(low, w) \in Seq(Bytes)
          /\ \A src : \A pos \in Nat : Stands(src, pos, packBits(low, w)) => unpackBits(src, pos, Len(low), w) = low
      BY ONLY <1>6, <2>1, w \in 1 .. MaxWidth, PackedReads
    <2>3. packed \in Seq(V)
      BY ONLY <1>1, <1>14, <2>2
    <2> QED
      BY ONLY <1>6, <1>14, <2>2, <2>3, Zenon
  <1>16. PICK head \in Seq(V) : head = <<w, m>>
    <2>1. w \in V
      <3>1. w \in Bytes
        <4>1. MaxWidth \in 28 .. 32
          BY ONLY <1>1
        <4> QED
          BY ONLY <4>1, w \in 1 .. MaxWidth DEF Bytes
      <3> QED
        BY ONLY <3>1, <1>1
    <2>2. m \in V
      BY ONLY m \in 0 .. n, 0 .. n \subseteq V
    <2>3. <<w, m>> \in Seq(V)
      BY ONLY <2>1, <2>2
    <2> QED
      BY ONLY <2>3, Zenon
  <1>17. Len(head) = 2 /\ head[1] = w /\ head[2] = m
    BY ONLY <1>16
  <1>18. PICK front \in Seq(V) : front = head \o flat /\ Len(front) = 2 + Len(flat)
    <2>1. head \o flat \in Seq(V) /\ Len(head \o flat) = Len(head) + Len(flat)
      BY ONLY head \in Seq(V), flat \in Seq(V)
    <2> QED
      BY ONLY <1>17, <2>1, Zenon
  <1>19. enc = front \o packed
    BY ONLY <1>3, <1>5, <1>7, <1>13, <1>14, <1>16, <1>18,
            enc = patchAndPack(vs, ascending(exceptions(vs, w)), w), Zenon DEF patchAndPack
  <1>20. enc \in Seq(V)
    <2>1. front \o packed \in Seq(V)
      BY ONLY <1>15, front \in Seq(V)
    <2> QED
      BY ONLY <1>19, <2>1, Zenon
  <1>21. ASSUME NEW src, Len(src) \in Nat, NEW pos \in Nat, Stands(src, pos, enc)
         PROVE  readPForDelta(src, pos, n) = vs
    <2>1. Stands(src, pos, front) /\ Stands(src, pos + Len(front), packed)
      BY ONLY <1>15, <1>19, <1>21, PartHeld, front \in Seq(V), pos \in Nat
    <2>2. Stands(src, pos, head) /\ Stands(src, pos + Len(head), flat)
      BY ONLY <1>18, <1>21, <2>1, PartHeld, head \in Seq(V), flat \in Seq(V), pos \in Nat
    <2>3. src[pos + 1] = w /\ src[pos + 2] = m
      BY ONLY <1>17, <2>2 DEF Stands
    <2>4. PICK q \in Nat : q = pos + 2 /\ Stands(src, q, flat)
      BY ONLY <1>17, <2>2, pos \in Nat
    <2>5. PICK skip : skip = Skipping(src)
      OBVIOUS
    <2>6. \A i \in 0 .. m : Iterate(skip, q, i) = q + at[i]
      <3>1. Skippable(src, patches, m)
        <4>1. ASSUME NEW i \in 1 .. m, NEW p \in Nat, Stands(src, p, patches[i])
              PROVE  readUvarint(src, p + 1)[2] = Len(patches[i]) - 1
          <5>1. readUvarint(src, p + 1) = <<vs[exc[i]], Len(patches[i]) - 1>>
            BY ONLY <1>10, <1>21, <4>1, i \in 1 .. m, p \in Nat, Zenon
          <5> QED
            BY ONLY <5>1
        <4> QED
          BY ONLY <4>1, Zenon DEF Skippable
      <3>2. m \in Nat /\ m = Len(patches) /\ patches \in Seq(Seq(V)) /\ Laid(patches, m, flat, at)
        BY ONLY <1>8, <1>11, <1>13
      <3>3. Len(src) \in Nat /\ Stands(src, q, flat)
        BY ONLY <1>21, <2>4
      <3> QED
        BY ONLY <2>5, <3>1, <3>2, <3>3, q \in Nat, AfterIs
    <2>7. /\ at[0] = 0 /\ \A i \in 0 .. m : at[i] \in Nat
          /\ Len(flat) = at[m]
      BY ONLY <1>13, Zenon DEF Laid
    <2>8. unpackBits(src, q + at[m], n, w) = low
      <3>1. PICK a \in Nat : a = at[m]
        BY ONLY <1>8, <2>7
      <3>2. pos + Len(front) = q + a /\ q + a \in Nat
        <4>1. Len(front) = 2 + a
          BY ONLY <1>18, <2>7, <3>1, Zenon
        <4> QED
          BY ONLY <2>4, <4>1, pos \in Nat, q \in Nat, a \in Nat
      <3> QED
        BY ONLY <1>15, <2>1, <3>1, <3>2
    <2>9. ASSUME NEW j \in 1 .. m
          PROVE  /\ j - 1 \in 0 .. m
                 /\ src[(q + at[j - 1]) + 1] = exc[j] - 1
                 /\ readUvarint(src, (q + at[j - 1]) + 1)[1] = vs[exc[j]]
      <3>1. Stands(src, q + at[j - 1], patches[j]) /\ q + at[j - 1] \in Nat
        BY ONLY <1>8, <1>11, <1>13, <1>21, <2>4, q \in Nat, j \in 1 .. m, LaidHeld
      <3>2. j - 1 \in 0 .. m
        BY ONLY <1>8, j \in 1 .. m
      <3>3. /\ src[(q + at[j - 1]) + 1] = exc[j] - 1
            /\ readUvarint(src, (q + at[j - 1]) + 1) = <<vs[exc[j]], Len(patches[j]) - 1>>
        BY ONLY <1>10, <1>21, <3>1, j \in 1 .. m
      <3> QED
        BY ONLY <3>2, <3>3
    <2> DEFINE on(i) == {j \in 1 .. m : src[Iterate(skip, q, j - 1) + 1] = i - 1}
               value(i) == IF on(i) = {} THEN low[i]
                           ELSE readUvarint(src, Iterate(skip, q, Max(on(i)) - 1) + 1)[1]
    <2>10. readPForDelta(src, pos, n) = [i \in 1 .. n |-> value(i)]
      <3>1. unpackBits(src, Iterate(skip, q, m), n, w) = low
        BY ONLY <1>8, <2>6, <2>8
      <3> QED
        BY ONLY <2>3, <2>4, <2>5, <3>1, Zenon DEF readPForDelta, Skipping
    <2>11. ASSUME NEW i \in 1 .. n PROVE value(i) = vs[i]
      <3>1. on(i) = {j \in 1 .. m : exc[j] = i}
        <4>1. ASSUME NEW j \in 1 .. m
              PROVE  src[Iterate(skip, q, j - 1) + 1] = i - 1 <=> exc[j] = i
          <5>1. src[Iterate(skip, q, j - 1) + 1] = exc[j] - 1
            BY ONLY <2>6, <2>9, j \in 1 .. m, Zenon
          <5>2. exc[j] \in 1 .. n
            BY ONLY <1>9, j \in 1 .. m
          <5>3. PICK e \in Nat, z \in {src[Iterate(skip, q, j - 1) + 1]} : e = exc[j] /\ z = src[Iterate(skip, q, j - 1) + 1]
            BY ONLY <5>2
          <5>4. z = e - 1
            BY ONLY <5>1, <5>3, Zenon
          <5>5. z = i - 1 <=> e = i
            BY ONLY <5>4, e \in Nat, i \in 1 .. n, n \in Nat \ {0}
          <5> QED
            BY ONLY <5>3, <5>5, Zenon
        <4> QED
          BY ONLY <4>1
      <3>2. CASE i \in exceptions(vs, w)
        <4>1. PICK j \in 1 .. m : exc[j] = i
          BY ONLY <1>3, <3>2
        <4>2. on(i) = {j}
          BY ONLY <1>3, <3>1, <4>1, j \in 1 .. m
        <4>3. Max(on(i)) = j
          <5>1. \A x \in {j} : (\A y \in {j} : x >= y) => x = j
            OBVIOUS
          <5>2. \A y \in {j} : j >= y
            BY ONLY j \in 1 .. m, m \in 0 .. n, n \in Nat \ {0}
          <5> QED
            BY ONLY <4>2, <5>1, <5>2 DEF Max
        <4> HIDE DEF on
        <4>4. value(i) = readUvarint(src, Iterate(skip, q, j - 1) + 1)[1]
          BY ONLY <4>2, <4>3
        <4> QED
          BY ONLY <2>6, <2>9, <4>1, <4>4, j \in 1 .. m, Zenon
      <3>3. CASE i \notin exceptions(vs, w)
        <4>1. on(i) = {}
          BY ONLY <1>3, <3>1, <3>3
        <4>2. PICK x \in Nat : x = vs[i] /\ x < B
          <5>1. vs[i] \in Nat /\ i \in DOMAIN vs
            BY ONLY vs \in Seq(Nat), Len(vs) = n, i \in 1 .. n
          <5>2. ~(vs[i] >= Bit[w])
            BY ONLY <3>3, <5>1 DEF exceptions
          <5> QED
            BY ONLY <1>4, <5>1, <5>2, B \in Nat \ {0}
        <4>3. x % B = x
          BY ONLY <4>2, NoneCutOff, x \in Nat, B \in Nat \ {0}
        <4> HIDE DEF on
        <4> QED
          BY ONLY <1>6, <4>1, <4>2, <4>3, i \in 1 .. n
      <3> QED
        BY <3>2, <3>3
    <2> HIDE DEF value
    <2>12. vs = [i \in 1 .. n |-> vs[i]]
      BY ONLY vs \in Seq(Nat), Len(vs) = n
    <2> QED
      BY ONLY <2>10, <2>11, <2>12
  <1> QED
    BY ONLY <1>20, <1>21

\* What is written of frequencies is read again.
LEMMA PForDeltaReads ==
  ASSUME NEW V, ByteSet(V), NEW n \in Nat \ {0}, 0 .. n \subseteq V,
         NEW vs \in Seq(Nat), Len(vs) = n, \A i \in 1 .. n : vs[i] < Bit[MaxWidth],
         NEW enc, enc = appendPForDelta(vs)
  PROVE  /\ enc \in Seq(V)
         /\ \A src : Len(src) \in Nat => \A pos \in Nat : Stands(src, pos, enc) => readPForDelta(src, pos, n) = vs
  <1>1. PICK w \in 1 .. MaxWidth : w = chooseWidth(vs)
    BY ChosenWidthIs
  <1>2. enc = patchAndPack(vs, ascending(exceptions(vs, w)), w)
    BY ONLY <1>1, enc = appendPForDelta(vs), Zenon DEF appendPForDelta
  <1> QED
    BY <1>2, PatchesRead

-----------------------------------------------------------------------------
(***************************************************************************)
(* Group varint: the bytes of a value, the control byte of a group, and    *)
(* the turns of the reader.                                                *)
(***************************************************************************)

\* The bytes of a value, least first.
BytesOf(v) == [b \in 1 .. byteLen(v) |-> digit(v, 8, b - 1)]

\* A value fits into the bytes it is given.
LEMMA ByteLenIs ==
  ASSUME NEW v \in Nat, v < Bit[MaxWidth]
  PROVE  /\ byteLen(v) \in 1 .. 4
         /\ v < Bit[8 * (byteLen(v) - 1)] * Bit[8] /\ 8 * (byteLen(v) - 1) \in 0 .. MaxWidth
  <1>1. MaxWidth \in 28 .. 32 /\ Bit[0] = 1 /\ Bit[8] = 256
    BY CodecAssumption, BitIs, BitValues
  <1>2. PICK e \in Nat : e = 8
    OBVIOUS
  <1>3. Bit[16] = 256 * 256
    <2>1. e + e <= MaxWidth /\ e + e = 16
      BY <1>1, <1>2
    <2>2. Bit[e + e] = Bit[e] * Bit[e]
      BY ONLY <2>1, BitAdds, e \in Nat
    <2> QED
      BY ONLY <1>1, <1>2, <2>1, <2>2
  <1>4. Bit[24] = 256 * 256 * 256
    <2>1. PICK f \in Nat : f = 16 /\ f + e <= MaxWidth /\ f + e = 24
      BY <1>1, <1>2
    <2>2. Bit[f + e] = Bit[f] * Bit[e]
      BY ONLY <2>1, BitAdds, e \in Nat, f \in Nat
    <2> QED
      BY ONLY <1>1, <1>2, <1>3, <2>1, <2>2
  <1>5. v < Bit[24] * 256
    <2>1. PICK c \in Nat, r \in Nat : c = 24 /\ r = MaxWidth - 24 /\ c + r = MaxWidth /\ c + r <= MaxWidth
                                    /\ r <= e /\ r \in 0 .. MaxWidth /\ e \in 0 .. MaxWidth
      BY <1>1, <1>2
    <2>2. Bit[c + r] = Bit[c] * Bit[r]
      BY ONLY <2>1, BitAdds, c \in Nat, r \in Nat
    <2>3. Bit[r] <= Bit[e]
      BY ONLY <2>1, BitGrows
    <2>4. PICK b \in Nat : b = Bit[r] /\ b <= 256
      BY ONLY <1>1, <1>2, <2>1, <2>3, BitIs
    <2>5. Bit[MaxWidth] = (256 * 256 * 256) * b
      BY ONLY <1>4, <2>1, <2>2, <2>4
    <2> QED
      BY ONLY <1>4, <2>4, <2>5, b \in Nat, v \in Nat, v < Bit[MaxWidth]
  <1>6. PICK l : l = byteLen(v)
    OBVIOUS
  <1>7. \/ l = 1 /\ v < 256
        \/ l = 2 /\ v < 256 * 256
        \/ l = 3 /\ v < 256 * 256 * 256
        \/ l = 4
    BY ONLY <1>6 DEF byteLen
  <1>8. CASE l = 1
    <2>1. 8 * (l - 1) = 0
      BY <1>8
    <2> QED
      BY ONLY <1>1, <1>6, <1>7, <1>8, <2>1
  <1>9. CASE l = 2
    <2>1. 8 * (l - 1) = 8
      BY <1>9
    <2> QED
      BY ONLY <1>1, <1>6, <1>7, <1>9, <2>1
  <1>10. CASE l = 3
    <2>1. 8 * (l - 1) = 16
      BY <1>10
    <2> QED
      BY ONLY <1>1, <1>3, <1>6, <1>7, <1>10, <2>1
  <1>11. CASE l = 4
    <2>1. 8 * (l - 1) = 24
      BY <1>11
    <2> QED
      BY ONLY <1>1, <1>5, <1>6, <1>11, <2>1
  <1> QED
    BY <1>7, <1>8, <1>9, <1>10, <1>11

\* The bytes of a value make it again.
LEMMA BytesMake ==
  ASSUME NEW v \in Nat, v < Bit[MaxWidth]
  PROVE  /\ byteLen(v) \in 1 .. 4 /\ BytesOf(v) \in Seq(Bytes) /\ Len(BytesOf(v)) = byteLen(v)
         /\ \A ds : ds = [b \in 1 .. byteLen(v) |-> BytesOf(v)[b]] => numberOf(ds, 8) = v
  <1>1. MaxWidth \in 28 .. 32 /\ Bit[8] = 256
    BY CodecAssumption, BitValues
  <1>2. PICK l \in 1 .. 4 : l = byteLen(v) /\ v < Bit[8 * (l - 1)] * Bit[8] /\ 8 * (l - 1) \in 0 .. MaxWidth
    BY ByteLenIs
  <1>3. \A b \in 1 .. l : digit(v, 8, b - 1) \in Bytes
    <2> SUFFICES ASSUME NEW b \in 1 .. l PROVE digit(v, 8, b - 1) \in Bytes
      OBVIOUS
    <2>1. PICK c \in Nat, i \in Nat : c = 8 /\ i = b - 1 /\ c \in 0 .. MaxWidth /\ c * i <= MaxWidth
      <3>1. b - 1 \in Nat /\ 8 * (b - 1) <= MaxWidth /\ 8 \in 0 .. MaxWidth
        BY ONLY <1>1, b \in 1 .. l, l \in 1 .. 4
      <3> QED
        BY ONLY <3>1
    <2>2. digit(v, c, i) \in 0 .. Bit[c] - 1
      BY ONLY <2>1, DigitIs, v \in Nat, i \in Nat
    <2> QED
      BY ONLY <1>1, <2>1, <2>2 DEF Bytes
  <1>4. BytesOf(v) = [b \in 1 .. l |-> digit(v, 8, b - 1)]
    BY ONLY <1>2, Zenon DEF BytesOf
  <1>5. BytesOf(v) \in Seq(Bytes) /\ Len(BytesOf(v)) = l
    BY ONLY <1>3, <1>4, l \in 1 .. 4
  <1>6. numberOf(BytesOf(v), 8) = v
    <2>1. PICK c \in Nat \ {0}, n \in Nat \ {0}, ds \in {BytesOf(v)} : c = 8 /\ n = l /\ ds = BytesOf(v)
      BY ONLY l \in 1 .. 4
    <2>2. c <= MaxWidth /\ c * (n - 1) <= MaxWidth /\ ds = [i \in 1 .. n |-> digit(v, c, i - 1)]
      BY ONLY <1>1, <1>2, <1>4, <2>1
    <2>3. numberOf(ds, c) = v % (Bit[c * (n - 1)] * Bit[c])
      BY ONLY <2>2, DigitsMakeNumber, v \in Nat, c \in Nat \ {0}, n \in Nat \ {0}
    <2>4. PICK K \in Nat \ {0} : K = Bit[8 * (l - 1)] * Bit[8]
      <3>1. PICK x \in Nat \ {0} : x = Bit[8 * (l - 1)]
        BY ONLY <1>2, BitIs
      <3>2. x * 256 \in Nat \ {0}
        BY ONLY x \in Nat \ {0}
      <3> QED
        BY ONLY <1>1, <3>1, <3>2
    <2>5. v % K = v
      BY ONLY <1>2, <2>4, NoneCutOff, v \in Nat, K \in Nat \ {0}
    <2> QED
      BY ONLY <2>1, <2>3, <2>4, <2>5, Zenon
  <1>7. [b \in 1 .. byteLen(v) |-> BytesOf(v)[b]] = BytesOf(v)
    BY ONLY <1>2, <1>4
  <1> QED
    BY ONLY <1>2, <1>5, <1>6, <1>7, l \in 1 .. 4

\* Values that the codec can write.
Values(vs) == vs \in Seq(Nat) /\ \A i \in 1 .. Len(vs) : vs[i] < Bit[MaxWidth]

\* The control byte of the group that begins with value i.
SizesOf(vs, i) == [j \in 1 .. Min({4, Len(vs) - i + 1}) |-> byteLen(vs[i + j - 1]) - 1]

\* The control byte is a byte, and tells the sizes of the four values of its group.
LEMMA CtrlIs ==
  ASSUME NEW vs, Values(vs), NEW i \in 1 .. Len(vs)
  PROVE  /\ numberOf(SizesOf(vs, i), 2) \in Bytes
         /\ \A j \in 1 .. 4 : i + j - 1 <= Len(vs)
               => digit(numberOf(SizesOf(vs, i), 2), 2, j - 1) = byteLen(vs[i + j - 1]) - 1
  <1>1. MaxWidth \in 28 .. 32 /\ Bit[2] = 4 /\ Bit[8] = 256
    BY CodecAssumption, BitValues
  <1>2. vs \in Seq(Nat) /\ \A x \in 1 .. Len(vs) : vs[x] < Bit[MaxWidth]
    BY DEF Values
  <1>3. PICK N \in Nat : N = Len(vs) /\ i \in 1 .. N
    BY ONLY <1>2, i \in 1 .. Len(vs)
  <1>4. PICK g \in 1 .. 4 : g = Min({4, N - i + 1}) /\ g <= N - i + 1 /\ (g = 4 \/ g = N - i + 1)
    <2>1. PICK x \in Nat \ {0} : x = N - i + 1
      BY ONLY <1>3, N \in Nat
    <2>2. PICK y \in {4, x} : \A z \in {4, x} : y <= z
      <3>1. CASE x <= 4
        BY ONLY <3>1, x \in Nat \ {0}
      <3>2. CASE x > 4
        BY ONLY <3>2, x \in Nat \ {0}
      <3> QED
        BY <3>1, <3>2
    <2>3. Min({4, x}) = y
      <3>1. {4, x} \in SUBSET Nat
        BY ONLY x \in Nat \ {0}
      <3> QED
        BY ONLY <2>2, <3>1, LeastIs
    <2> QED
      BY ONLY <2>1, <2>2, <2>3, x \in Nat \ {0}
  <1>5. PICK ds : ds = SizesOf(vs, i)
    OBVIOUS
  <1>6. ds = [j \in 1 .. g |-> byteLen(vs[i + j - 1]) - 1]
    BY ONLY <1>3, <1>4, <1>5, Zenon DEF SizesOf
  <1>7. ASSUME NEW j \in 1 .. g PROVE ds[j] = byteLen(vs[i + j - 1]) - 1 /\ ds[j] \in 0 .. Bit[2] - 1
    <2>1. PICK x \in 1 .. N : x = i + j - 1
      BY ONLY <1>3, <1>4, j \in 1 .. g, N \in Nat, g \in 1 .. 4
    <2>2. PICK v \in Nat : v = vs[x] /\ v < Bit[MaxWidth]
      BY ONLY <1>2, <1>3, x \in 1 .. N
    <2>3. byteLen(v) \in 1 .. 4
      BY ONLY <2>2, ByteLenIs, v \in Nat
    <2>4. ds[j] = byteLen(v) - 1
      BY ONLY <1>6, <2>1, <2>2, j \in 1 .. g
    <2> QED
      BY ONLY <1>1, <2>1, <2>2, <2>3, <2>4
  <1>8. DOMAIN ds = 1 .. g /\ ds = [j \in 1 .. g |-> ds[j]]
    BY ONLY <1>6
  <1>9. PICK b \in Nat \ {0}, n \in Nat \ {0} : b = 2 /\ n = g
    BY ONLY g \in 1 .. 4
  <1>10. b <= MaxWidth /\ b * (n - 1) <= MaxWidth
    BY ONLY <1>1, <1>9, g \in 1 .. 4
  <1>11. DOMAIN ds = 1 .. n /\ ds = [j \in 1 .. n |-> ds[j]] /\ \A j \in 1 .. n : ds[j] \in 0 .. Bit[b] - 1
    BY ONLY <1>7, <1>8, <1>9, Zenon
  <1>12. /\ numberOf(ds, b) \in Nat /\ numberOf(ds, b) < Bit[b * (n - 1)] * Bit[b]
         /\ \A j \in 1 .. n : digit(numberOf(ds, b), b, j - 1) = ds[j]
    <2>1. AreDigits(ds, b, n)
      BY ONLY <1>10, <1>11, Zenon DEF AreDigits
    <2> QED
      BY ONLY <2>1, NumberHasDigits, b \in Nat \ {0}, n \in Nat \ {0}
  <1>13. numberOf(ds, b) \in Bytes
    <2>1. PICK s \in 0 .. MaxWidth, t \in 0 .. MaxWidth : s = b * (n - 1) /\ t = 6 /\ s <= t
      BY ONLY <1>1, <1>9, g \in 1 .. 4
    <2>2. Bit[s] <= Bit[t]
      BY ONLY <2>1, BitGrows
    <2>3. Bit[t] * 4 = 256
      <3>1. PICK u \in Nat, r \in Nat : u = 6 /\ r = 2 /\ u + r = 8 /\ u + r <= MaxWidth
        BY ONLY <1>1
      <3>2. Bit[u + r] = Bit[u] * Bit[r]
        BY ONLY <3>1, BitAdds, u \in Nat, r \in Nat
      <3> QED
        BY ONLY <1>1, <2>1, <3>1, <3>2
    <2>4. PICK x \in Nat, y \in Nat, z \in Nat : x = Bit[s] /\ y = Bit[t] /\ z = numberOf(ds, b)
      BY ONLY <1>12, BitIs
    <2>5. z < x * 4
      BY ONLY <1>1, <1>9, <1>12, <2>1, <2>4
    <2>6. z < 256
      BY ONLY <2>2, <2>3, <2>4, <2>5, x \in Nat, y \in Nat, z \in Nat
    <2>7. z \in 0 .. 255
      BY ONLY <2>6, z \in Nat
    <2> QED
      BY ONLY <2>4, <2>7, Zenon DEF Bytes
  <1>14. ASSUME NEW j \in 1 .. 4, i + j - 1 <= N PROVE digit(numberOf(ds, 2), 2, j - 1) = byteLen(vs[i + j - 1]) - 1
    <2>1. j \in 1 .. g /\ j \in 1 .. n
      BY ONLY <1>3, <1>4, <1>9, <1>14, N \in Nat, g \in 1 .. 4, j \in 1 .. 4
    <2>2. digit(numberOf(ds, b), b, j - 1) = ds[j]
      BY ONLY <1>12, <2>1
    <2>3. ds[j] = byteLen(vs[i + j - 1]) - 1
      BY ONLY <1>7, <2>1
    <2> QED
      BY ONLY <1>9, <2>2, <2>3, Zenon
  <1> QED
    BY ONLY <1>3, <1>5, <1>9, <1>13, <1>14, Zenon

\* What is written of value i: the first of a group comes behind its control byte.
CtrlOf(vs, i) == IF i % 4 = 1 THEN <<numberOf(SizesOf(vs, i), 2)>> ELSE <<>>
ChunkOf(vs, i) == CtrlOf(vs, i) \o BytesOf(vs[i])

\* A chunk is bytes: those of its value, and a control byte before every fourth.
LEMMA ChunkIs ==
  ASSUME NEW vs, Values(vs), NEW i \in 1 .. Len(vs), NEW c, c = IF i % 4 = 1 THEN 1 ELSE 0
  PROVE  /\ ChunkOf(vs, i) \in Seq(Bytes) /\ Len(ChunkOf(vs, i)) = c + byteLen(vs[i])
         /\ vs[i] \in Nat /\ byteLen(vs[i]) \in 1 .. 4
         /\ i % 4 = 1 => ChunkOf(vs, i)[1] = numberOf(SizesOf(vs, i), 2)
         /\ \A b \in 1 .. byteLen(vs[i]) : ChunkOf(vs, i)[c + b] = BytesOf(vs[i])[b]
  <1>1. PICK v \in Nat : v = vs[i] /\ v < Bit[MaxWidth]
    BY DEF Values
  <1>2. PICK s \in Seq(Bytes) : s = BytesOf(v) /\ byteLen(v) \in 1 .. 4 /\ Len(s) = byteLen(v)
    BY BytesMake, <1>1
  <1>3. numberOf(SizesOf(vs, i), 2) \in Bytes
    BY CtrlIs
  <1>4. PICK h \in Seq(Bytes) : /\ h = CtrlOf(vs, i) /\ Len(h) = c
                                /\ i % 4 = 1 => h[1] = numberOf(SizesOf(vs, i), 2)
    <2>1. CASE i % 4 = 1
      <3>1. CtrlOf(vs, i) = <<numberOf(SizesOf(vs, i), 2)>> /\ c = 1
        BY ONLY <2>1, c = (IF i % 4 = 1 THEN 1 ELSE 0) DEF CtrlOf
      <3>2. <<numberOf(SizesOf(vs, i), 2)>> \in Seq(Bytes)
        BY ONLY <1>3
      <3> QED
        BY ONLY <3>1, <3>2
    <2>2. CASE ~(i % 4 = 1)
      <3>1. CtrlOf(vs, i) = <<>> /\ c = 0
        BY ONLY <2>2, c = (IF i % 4 = 1 THEN 1 ELSE 0) DEF CtrlOf
      <3>2. <<>> \in Seq(Bytes)
        BY ONLY TRUE
      <3> QED
        BY ONLY <2>2, <3>1, <3>2
    <2> QED
      BY <2>1, <2>2
  <1>5. PICK t : t = h \o s
    OBVIOUS
  <1>6. t \in Seq(Bytes) /\ Len(t) = c + byteLen(v)
    BY ONLY <1>2, <1>4, <1>5, h \in Seq(Bytes), s \in Seq(Bytes)
  <1>7. i % 4 = 1 => t[1] = h[1]
    <2> SUFFICES ASSUME i % 4 = 1 PROVE t[1] = h[1]
      OBVIOUS
    <2>1. 1 \in 1 .. Len(h)
      BY ONLY <1>4, i % 4 = 1, c = (IF i % 4 = 1 THEN 1 ELSE 0)
    <2> QED
      BY ONLY <1>5, <2>1, h \in Seq(Bytes), s \in Seq(Bytes)
  <1>8. \A b \in 1 .. byteLen(v) : t[c + b] = s[b]
    <2>1. \A b \in 1 .. Len(s) : t[Len(h) + b] = s[b]
      BY ONLY <1>5, h \in Seq(Bytes), s \in Seq(Bytes)
    <2> QED
      BY ONLY <1>2, <1>4, <2>1, Zenon
  <1>9. t = ChunkOf(vs, i)
    BY ONLY <1>1, <1>2, <1>4, <1>5, Zenon DEF ChunkOf
  <1> QED
    BY ONLY <1>1, <1>2, <1>4, <1>6, <1>7, <1>8, <1>9, v \in Nat, Zenon

\* The control byte c tells the lengths of the values from place m of its group on.
CtrlTells(vs, c, m) ==
  \A j \in Nat : m <= j /\ j < Len(vs) /\ j \div 4 = m \div 4 => digit(c, 2, j % 4) = byteLen(vs[j + 1]) - 1

\* The control byte read before a group tells the sizes of its values.
LEMMA CtrlStarts ==
  ASSUME NEW vs, Values(vs), NEW m \in Nat, m < Len(vs), m % 4 = 0,
         NEW c, c = numberOf(SizesOf(vs, m + 1), 2)
  PROVE  c \in Nat /\ CtrlTells(vs, c, m)
  <1>1. Len(vs) \in Nat
    BY DEF Values
  <1>2. PICK i \in 1 .. Len(vs) : i = m + 1
    BY ONLY <1>1, m \in Nat, m < Len(vs)
  <1>3. /\ c \in Bytes
        /\ \A j \in 1 .. 4 : i + j - 1 <= Len(vs) => digit(c, 2, j - 1) = byteLen(vs[i + j - 1]) - 1
    BY ONLY <1>2, CtrlIs, Values(vs), c = numberOf(SizesOf(vs, m + 1), 2)
  <1>4. ASSUME NEW j \in Nat, m <= j, j < Len(vs), j \div 4 = m \div 4
        PROVE  digit(c, 2, j % 4) = byteLen(vs[j + 1]) - 1
    <2>1. PICK x \in 1 .. 4 : x = j - m + 1 /\ x - 1 = j % 4 /\ i + x - 1 = j + 1
      BY ONLY <1>2, <1>4, j \in Nat, m \in Nat, m % 4 = 0
    <2>2. j + 1 <= Len(vs)
      BY ONLY <1>1, <1>4, j \in Nat
    <2> QED
      BY ONLY <1>3, <2>1, <2>2
  <1> QED
    BY ONLY <1>3, <1>4 DEF CtrlTells, Bytes

\* Within a group the control byte stays.
LEMMA CtrlGoesOn ==
  ASSUME NEW vs, NEW c, NEW m \in Nat, CtrlTells(vs, c, m), (m + 1) % 4 # 0
  PROVE  CtrlTells(vs, c, m + 1)
  <1>1. (m + 1) \div 4 = m \div 4
    OBVIOUS
  <1>2. \A j \in Nat : m + 1 <= j => m <= j
    OBVIOUS
  <1> QED
    BY ONLY <1>1, <1>2, CtrlTells(vs, c, m), Zenon DEF CtrlTells

Chunks(vs) == [i \in DOMAIN vs |-> ChunkOf(vs, i)]

\* One turn of readGroupVarint.
TurnStates == [out : Seq(Nat), pos : Nat, ctrl : Nat]
TurnFrom(s) == IF Len(s.out) % 4 = 0 THEN s.pos + 1 ELSE s.pos
TurnCtrl(src, s) == IF Len(s.out) % 4 = 0 THEN src[TurnFrom(s)] ELSE s.ctrl
TurnLen(src, s) == digit(TurnCtrl(src, s), 2, Len(s.out) % 4) + 1
TurnOf(src) ==
  [s \in TurnStates |->
    [out |-> Append(s.out, numberOf([b \in 1 .. TurnLen(src, s) |-> src[TurnFrom(s) + b]], 8)),
     pos |-> TurnFrom(s) + TurnLen(src, s), ctrl |-> TurnCtrl(src, s)]]

\* A turn of the reader, spelled out.
LEMMA TurnIs ==
  ASSUME NEW src, NEW s \in TurnStates
  PROVE  TurnOf(src)[s] = [out |-> Append(s.out, numberOf([b \in 1 .. TurnLen(src, s) |-> src[TurnFrom(s) + b]], 8)),
                           pos |-> TurnFrom(s) + TurnLen(src, s), ctrl |-> TurnCtrl(src, s)]
  BY Zenon DEF TurnOf

\* The reader is its turns, one for each value.
LEMMA GroupReadIs ==
  ASSUME NEW src, NEW pos \in Nat, NEW count, NEW end,
         end = Iterate(TurnOf(src), [out |-> <<>>, pos |-> pos, ctrl |-> 0], count)
  PROVE  readGroupVarint(src, pos, count) = <<end.out, end.pos>>
  BY Zenon DEF readGroupVarint, TurnOf, TurnFrom, TurnCtrl, TurnLen, TurnStates

\* What a group reader has after m values, when the first byte came behind pos.
ReadSoFar(vs, at, pos, m) ==
  {s \in TurnStates : /\ Len(s.out) = m /\ s.out = [i \in 1 .. m |-> vs[i]]
                      /\ s.pos = pos + at[m]
                      /\ (m % 4 # 0 => CtrlTells(vs, s.ctrl, m))}

\* A turn reads the next value and stops behind it.
LEMMA TurnReads ==
  ASSUME NEW vs, Values(vs), NEW n \in Nat, n = Len(vs), NEW seqs, seqs = Chunks(vs), seqs \in Seq(Seq(Bytes)), n = Len(seqs),
         NEW f, NEW at, Laid(seqs, n, f, at),
         NEW src, Len(src) \in Nat, NEW pos \in Nat, Stands(src, pos, f),
         NEW m \in Nat, m < n, NEW s \in ReadSoFar(vs, at, pos, m)
  PROVE  TurnOf(src)[s] \in ReadSoFar(vs, at, pos, m + 1)
  <1>1. /\ s \in TurnStates /\ Len(s.out) = m /\ s.out = [i \in 1 .. m |-> vs[i]] /\ s.pos = pos + at[m]
        /\ (m % 4 # 0 => CtrlTells(vs, s.ctrl, m))
    BY ONLY s \in ReadSoFar(vs, at, pos, m), Zenon DEF ReadSoFar
  <1>2. PICK i \in 1 .. n : i = m + 1 /\ i - 1 = m /\ i \in 1 .. Len(vs)
    BY ONLY m \in Nat, n \in Nat, m < n, n = Len(vs)
  <1>3. (\A j \in 0 .. n : at[j] \in Nat) /\ at[i] = at[i - 1] + Len(seqs[i])
    BY ONLY Laid(seqs, n, f, at), i \in 1 .. n, Zenon DEF Laid
  <1>4. Stands(src, pos + at[i - 1], seqs[i]) /\ pos + at[i - 1] \in Nat
    BY ONLY seqs \in Seq(Seq(Bytes)), n \in Nat, n = Len(seqs), Laid(seqs, n, f, at), Len(src) \in Nat,
            pos \in Nat, Stands(src, pos, f), i \in 1 .. n, LaidHeld
  <1>5. PICK chunk : chunk = ChunkOf(vs, i) /\ seqs[i] = chunk
    <2>1. DOMAIN vs = 1 .. n
      BY ONLY Values(vs), n = Len(vs) DEF Values
    <2> QED
      BY ONLY <2>1, seqs = Chunks(vs), i \in 1 .. n, Zenon DEF Chunks
  <1>6. PICK c \in 0 .. 1 : c = IF i % 4 = 1 THEN 1 ELSE 0
    BY ONLY TRUE
  <1>7. /\ chunk \in Seq(Bytes) /\ Len(chunk) = c + byteLen(vs[i])
        /\ vs[i] \in Nat /\ byteLen(vs[i]) \in 1 .. 4
        /\ i % 4 = 1 => chunk[1] = numberOf(SizesOf(vs, i), 2)
        /\ \A b \in 1 .. byteLen(vs[i]) : chunk[c + b] = BytesOf(vs[i])[b]
    <2>1. /\ ChunkOf(vs, i) \in Seq(Bytes) /\ Len(ChunkOf(vs, i)) = c + byteLen(vs[i])
          /\ vs[i] \in Nat /\ byteLen(vs[i]) \in 1 .. 4
          /\ i % 4 = 1 => ChunkOf(vs, i)[1] = numberOf(SizesOf(vs, i), 2)
          /\ \A b \in 1 .. byteLen(vs[i]) : ChunkOf(vs, i)[c + b] = BytesOf(vs[i])[b]
      <3>1. i \in 1 .. Len(vs)
        BY ONLY <1>2
      <3>2. c = IF i % 4 = 1 THEN 1 ELSE 0
        BY ONLY <1>6
      <3> QED
        BY ONLY <3>1, <3>2, Values(vs), ChunkIs
    <2> QED
      BY ONLY <1>5, <2>1, Zenon
  <1>8. PICK v \in Nat, l \in 1 .. 4, p \in Nat : /\ v = vs[i] /\ l = byteLen(vs[i]) /\ p = pos + at[m] /\ v < Bit[MaxWidth]
                                                  /\ Len(chunk) = c + l
    <2>1. vs[i] < Bit[MaxWidth]
      BY ONLY <1>2, Values(vs), Zenon DEF Values
    <2> QED
      BY ONLY <1>2, <1>4, <1>7, <2>1
  <1>9. p + Len(chunk) <= Len(src) /\ \A j \in 1 .. Len(chunk) : src[p + j] = chunk[j]
    BY ONLY <1>2, <1>4, <1>5, <1>8, Zenon DEF Stands
  <1> DEFINE from == IF m % 4 = 0 THEN s.pos + 1 ELSE s.pos
             ctrl == IF m % 4 = 0 THEN src[from] ELSE s.ctrl
  <1>10. m % 4 = 0 <=> i % 4 = 1
    <2>1. PICK q \in Nat, x \in 0 .. 3 : m = 4 * q + x
      <3>1. PICK K \in Nat \ {0} : K = 4
        OBVIOUS
      <3>2. PICK q \in Nat, x \in 0 .. K - 1 : m \div K = q /\ m % K = x /\ m = K * q + x
        BY ONLY m \in Nat, K \in Nat \ {0}, Divided, Zenon
      <3>3. x \in 0 .. 3 /\ m = 4 * q + x
        BY ONLY <3>1, <3>2, q \in Nat, x \in 0 .. K - 1
      <3> QED
        BY ONLY <3>3, q \in Nat, Zenon
    <2>2. i = 4 * q + (x + 1)
      BY ONLY <1>2, <2>1, q \in Nat, x \in 0 .. 3
    <2>3. m % 4 = x
      BY ONLY <2>1, q \in Nat, x \in 0 .. 3
    <2>4. x = 0 \/ x = 1 \/ x = 2 \/ x = 3
      BY ONLY x \in 0 .. 3
    <2>5. CASE x = 3
      <3>1. i = 4 * (q + 1) + 0
        BY ONLY <2>2, <2>5, q \in Nat
      <3>2. i % 4 = 0
        BY ONLY <3>1, q \in Nat
      <3> QED
        BY ONLY <2>3, <2>5, <3>2
    <2>6. CASE x # 3
      <3>1. x + 1 \in 0 .. 3
        BY ONLY <2>6, x \in 0 .. 3
      <3>2. i % 4 = x + 1
        BY ONLY <2>2, <3>1, q \in Nat, x \in 0 .. 3
      <3> QED
        BY ONLY <2>3, <3>2, x \in 0 .. 3
    <2> QED
      BY <2>5, <2>6
  <1>11. from = p + c /\ from \in Nat
    BY ONLY <1>1, <1>6, <1>8, <1>10, p \in Nat
  <1>12. ctrl \in Nat /\ CtrlTells(vs, ctrl, m)
    <2>1. CASE m % 4 = 0
      <3>1. c = 1 /\ from = p + 1 /\ 1 \in 1 .. Len(chunk)
        BY ONLY <1>6, <1>8, <1>10, <1>11, <2>1, l \in 1 .. 4
      <3>2. src[p + 1] = numberOf(SizesOf(vs, i), 2)
        BY ONLY <1>7, <1>9, <1>10, <2>1, <3>1, Zenon
      <3>3. ctrl = numberOf(SizesOf(vs, m + 1), 2)
        BY ONLY <1>2, <2>1, <3>1, <3>2, Zenon
      <3> HIDE DEF ctrl
      <3> QED
        BY ONLY <2>1, <3>3, CtrlStarts, Values(vs), m \in Nat, m < n, n = Len(vs)
    <2>2. CASE ~(m % 4 = 0)
      <3>1. ctrl = s.ctrl
        BY ONLY <2>2, Zenon
      <3>2. s.ctrl \in Nat
        BY ONLY <1>1 DEF TurnStates
      <3> HIDE DEF ctrl
      <3> QED
        BY ONLY <1>1, <2>2, <3>1, <3>2, Zenon
    <2> QED
      BY <2>1, <2>2
  <1> HIDE DEF from, ctrl
  <1>13. digit(ctrl, 2, m % 4) + 1 = l
    <2>1. digit(ctrl, 2, m % 4) = byteLen(vs[m + 1]) - 1
      <3>1. m <= m /\ m < Len(vs)
        BY ONLY m \in Nat, m < n, n = Len(vs)
      <3> QED
        BY ONLY <1>12, <3>1, m \in Nat, Zenon DEF CtrlTells
    <2>2. digit(ctrl, 2, m % 4) = l - 1
      BY ONLY <1>2, <1>8, <2>1, Zenon
    <2> QED
      BY ONLY <2>2, l \in 1 .. 4
  <1>14. numberOf([b \in 1 .. l |-> src[from + b]], 8) = v
    <2>1. ASSUME NEW b \in 1 .. l PROVE src[from + b] = BytesOf(v)[b]
      <3>1. c + b \in 1 .. Len(chunk) /\ from + b = p + (c + b)
        <4>1. c + b \in 1 .. c + l
          BY ONLY c \in 0 .. 1, l \in 1 .. 4, b \in 1 .. l
        <4>2. (p + c) + b = p + (c + b)
          BY ONLY p \in Nat, c \in 0 .. 1, l \in 1 .. 4, b \in 1 .. l
        <4> QED
          BY ONLY <1>8, <1>11, <4>1, <4>2, Zenon
      <3>2. chunk[c + b] = BytesOf(v)[b]
        BY ONLY <1>7, <1>8, b \in 1 .. l, Zenon
      <3> QED
        BY ONLY <1>9, <3>1, <3>2, Zenon
    <2>2. [b \in 1 .. l |-> src[from + b]] = [b \in 1 .. byteLen(v) |-> BytesOf(v)[b]]
      BY ONLY <1>8, <2>1
    <2>3. \A ds : ds = [b \in 1 .. byteLen(v) |-> BytesOf(v)[b]] => numberOf(ds, 8) = v
      BY ONLY <1>8, BytesMake, v \in Nat
    <2> QED
      BY ONLY <2>2, <2>3, Zenon
  <1>15. TurnOf(src)[s] = [out |-> Append(s.out, v), pos |-> from + l, ctrl |-> ctrl]
    <2>1. from = (IF m % 4 = 0 THEN s.pos + 1 ELSE s.pos) /\ ctrl = (IF m % 4 = 0 THEN src[from] ELSE s.ctrl)
      BY ONLY TRUE DEF from, ctrl
    <2>2. from = TurnFrom(s)
      BY ONLY <1>1, <2>1, Zenon DEF TurnFrom
    <2>3. ctrl = TurnCtrl(src, s)
      BY ONLY <1>1, <2>1, <2>2, Zenon DEF TurnCtrl
    <2>4. l = TurnLen(src, s)
      BY ONLY <1>1, <1>13, <2>3, Zenon DEF TurnLen
    <2>5. TurnOf(src)[s] = [out |-> Append(s.out, numberOf([b \in 1 .. TurnLen(src, s) |-> src[TurnFrom(s) + b]], 8)),
                            pos |-> TurnFrom(s) + TurnLen(src, s), ctrl |-> TurnCtrl(src, s)]
      BY ONLY <1>1, TurnIs
    <2>6. [b \in 1 .. TurnLen(src, s) |-> src[TurnFrom(s) + b]] = [b \in 1 .. l |-> src[from + b]]
      BY ONLY <2>2, <2>4, Zenon
    <2>7. TurnOf(src)[s] = [out |-> Append(s.out, numberOf([b \in 1 .. l |-> src[from + b]], 8)),
                            pos |-> from + l, ctrl |-> ctrl]
      BY ONLY <2>2, <2>3, <2>4, <2>5, <2>6, Zenon
    <2> QED
      BY ONLY <1>14, <2>7, Zenon
  <1>16. PICK out \in Seq(Nat) : out = s.out /\ Len(out) = m /\ out = [j \in 1 .. m |-> vs[j]]
    <2>1. s.out \in Seq(Nat)
      BY ONLY <1>1 DEF TurnStates
    <2> QED
      BY ONLY <1>1, <2>1, Zenon
  <1>17. /\ Append(out, v) \in Seq(Nat) /\ Len(Append(out, v)) = m + 1
         /\ Append(out, v) = [j \in 1 .. m + 1 |-> vs[j]]
    <2>1. PICK t \in Seq(Nat) : t = Append(out, v)
      <3>1. Append(out, v) \in Seq(Nat)
        BY ONLY out \in Seq(Nat), v \in Nat, AppendProperties
      <3> QED
        BY ONLY <3>1, Zenon
    <2>2. Len(t) = m + 1 /\ t[m + 1] = v /\ \A j \in 1 .. m : t[j] = out[j]
      BY ONLY <1>16, <2>1, out \in Seq(Nat), v \in Nat, m \in Nat
    <2>3. \A j \in 1 .. m + 1 : t[j] = vs[j]
      <3>1. \A j \in 1 .. m + 1 : j \in 1 .. m \/ j = m + 1
        BY ONLY m \in Nat
      <3>2. \A j \in 1 .. m : out[j] = vs[j]
        BY ONLY <1>16, Zenon
      <3> QED
        BY ONLY <1>2, <1>8, <2>2, <3>1, <3>2, Zenon
    <2>4. t = [j \in 1 .. m + 1 |-> t[j]]
      BY ONLY <2>2, t \in Seq(Nat)
    <2> QED
      BY ONLY <2>1, <2>2, <2>3, <2>4, t \in Seq(Nat)
  <1>18. from + l = pos + at[m + 1] /\ from + l \in Nat
    <2>1. PICK a \in Nat, b \in Nat : a = at[m] /\ b = at[m + 1]
      BY ONLY <1>2, <1>3, m \in Nat, n \in Nat, m < n
    <2>2. b = a + (c + l)
      BY ONLY <1>2, <1>3, <1>5, <1>8, <2>1, Zenon
    <2> QED
      <3>1. from = p + c /\ p = pos + a
        BY ONLY <1>8, <1>11, <2>1
      <3>2. from + l = pos + b /\ from + l \in Nat
        BY ONLY <2>2, <3>1, pos \in Nat, a \in Nat, b \in Nat, p \in Nat, c \in 0 .. 1, l \in 1 .. 4
      <3> QED
        BY ONLY <2>1, <3>2, Zenon
  <1>19. (m + 1) % 4 # 0 => CtrlTells(vs, ctrl, m + 1)
    BY ONLY <1>12, CtrlGoesOn, m \in Nat
  <1>20. PICK t : t = [out |-> Append(s.out, v), pos |-> from + l, ctrl |-> ctrl]
    OBVIOUS
  <1>21. t \in TurnStates
    BY ONLY <1>12, <1>16, <1>17, <1>18, <1>20 DEF TurnStates
  <1>22. t.out = Append(out, v) /\ t.pos = from + l /\ t.ctrl = ctrl
    BY ONLY <1>16, <1>20
  <1> QED
    BY ONLY <1>15, <1>17, <1>18, <1>19, <1>20, <1>21, <1>22, Zenon DEF ReadSoFar

\* What is written of gaps is read again, and the reader stops behind it.
LEMMA GroupVarintReads ==
  ASSUME NEW vs, Values(vs), NEW enc, enc = appendGroupVarint(vs)
  PROVE  /\ enc \in Seq(Bytes)
         /\ \A src : Len(src) \in Nat => \A pos \in Nat : Stands(src, pos, enc)
               => readGroupVarint(src, pos, Len(vs)) = <<vs, pos + Len(enc)>>
  <1>1. PICK n \in Nat : n = Len(vs) /\ DOMAIN vs = 1 .. n /\ vs = [i \in 1 .. n |-> vs[i]]
    BY ONLY Values(vs) DEF Values
  <1>2. PICK seqs : seqs = Chunks(vs)
    OBVIOUS
  <1>3. seqs \in Seq(Seq(Bytes)) /\ Len(seqs) = n
    <2>1. seqs = [i \in 1 .. n |-> ChunkOf(vs, i)]
      BY ONLY <1>1, <1>2, Zenon DEF Chunks
    <2>2. ASSUME NEW i \in 1 .. n PROVE ChunkOf(vs, i) \in Seq(Bytes)
      <3>1. PICK c : c = IF i % 4 = 1 THEN 1 ELSE 0
        OBVIOUS
      <3> QED
        BY ONLY <1>1, <3>1, Values(vs), i \in 1 .. n, ChunkIs
    <2> QED
      BY ONLY <2>1, <2>2, n \in Nat
  <1>4. enc = FlattenSeq(seqs)
    BY ONLY <1>2, enc = appendGroupVarint(vs), Zenon DEF appendGroupVarint, Chunks, ChunkOf, CtrlOf, SizesOf, BytesOf
  <1>5. PICK at : enc \in Seq(Bytes) /\ Laid(seqs, n, enc, at)
    BY ONLY <1>3, <1>4, FlattenLays
  <1>6. ASSUME NEW src, Len(src) \in Nat, NEW pos \in Nat, Stands(src, pos, enc)
        PROVE  readGroupVarint(src, pos, n) = <<vs, pos + Len(enc)>>
    <2> DEFINE I == [m \in Nat |-> ReadSoFar(vs, at, pos, m)]
               start == [out |-> <<>>, pos |-> pos, ctrl |-> 0]
    <2>1. at[0] = 0 /\ Len(enc) = at[n]
      BY ONLY <1>5, Zenon DEF Laid
    <2>2. start \in ReadSoFar(vs, at, pos, 0)
      <3>1. start \in TurnStates /\ start.out = <<>> /\ start.pos = pos
        BY ONLY pos \in Nat DEF TurnStates
      <3>2. Len(<<>>) = 0 /\ <<>> = [i \in 1 .. 0 |-> vs[i]] /\ 0 % 4 = 0
        BY ONLY TRUE
      <3>3. pos = pos + at[0]
        BY ONLY <2>1, pos \in Nat
      <3> HIDE DEF start
      <3> QED
        BY ONLY <3>1, <3>2, <3>3, Zenon DEF ReadSoFar
    <2>3. ASSUME NEW m \in Nat, m < n, NEW s \in ReadSoFar(vs, at, pos, m)
          PROVE  TurnOf(src)[s] \in ReadSoFar(vs, at, pos, m + 1)
      BY ONLY <1>1, <1>2, <1>3, <1>5, <1>6, <2>3, Values(vs), n \in Nat, pos \in Nat, m \in Nat, TurnReads
    <2>4. PICK g : g = TurnOf(src)
      OBVIOUS
    <2> HIDE DEF start
    <2>5. Iterate(g, start, n) \in I[n]
      <3>1. start \in I[0]
        BY ONLY <2>2
      <3>2. \A m \in Nat : m < n => \A s \in I[m] : g[s] \in I[m + 1]
        BY ONLY <2>3, <2>4
      <3> HIDE DEF I
      <3> QED
        BY ONLY <3>1, <3>2, n \in Nat, LoopInvariant
    <2>6. PICK end : end = Iterate(g, start, n) /\ end \in ReadSoFar(vs, at, pos, n)
      BY ONLY <2>5, n \in Nat
    <2>7. end.out = vs /\ end.pos = pos + Len(enc)
      BY ONLY <1>1, <2>1, <2>6, Zenon DEF ReadSoFar
    <2>8. readGroupVarint(src, pos, n) = <<end.out, end.pos>>
      BY ONLY <2>4, <2>6, pos \in Nat, GroupReadIs DEF start
    <2> QED
      BY ONLY <2>7, <2>8, Zenon
  <1> QED
    BY ONLY <1>1, <1>5, <1>6

-----------------------------------------------------------------------------
(***************************************************************************)
(* Blocks: the gaps of a block, its cut of the list, and its line of the   *)
(* table.                                                                  *)
(***************************************************************************)

\* Cutting n postings into blocks of B: m blocks reach the end and none of them is empty.
LEMMA Cuts ==
  ASSUME NEW n \in Nat, NEW B \in Nat \ {0}, NEW m, m = (n + B - 1) \div B
  PROVE  /\ m \in Nat
         /\ \A b \in 1 .. m : (b - 1) * B \in Nat /\ b * B \in Nat /\ (b - 1) * B < n /\ (b - 1) * B < b * B
         /\ \A b, c \in 1 .. m : b < c => b * B <= (c - 1) * B
         /\ \A i \in 1 .. n : \E b \in 1 .. m : (b - 1) * B < i /\ i <= b * B
  <1>1. n + B - 1 \in Nat
    OBVIOUS
  <1>2. \A x \in Nat : x \div B \in Nat /\ (x \div B) * B <= x /\ x < (x \div B) * B + B
    OBVIOUS
  <1>3. \A x, y \in Nat : x <= y => x * B <= y * B /\ x * B \in Nat /\ y * B \in Nat
    OBVIOUS
  <1>4. \A x \in Nat : (x + 1) * B = x * B + B /\ x * B \in Nat
    OBVIOUS
  <1>5. m \in Nat /\ m * B \in Nat /\ m * B <= n + B - 1 /\ n + B - 1 < m * B + B
    BY <1>1, <1>2, <1>4
  <1>6. ASSUME NEW b \in 1 .. m
        PROVE  (b - 1) * B \in Nat /\ b * B \in Nat /\ (b - 1) * B < n /\ (b - 1) * B < b * B
    <2>1. PICK a \in Nat : a = b - 1 /\ b = a + 1
      BY <1>5
    <2>2. b * B = a * B + B /\ a * B \in Nat
      BY <1>4, <2>1
    <2>3. b * B <= m * B /\ b * B \in Nat
      BY <1>3, <1>5
    <2>4. a * B + B <= n + B - 1
      BY <1>5, <2>2, <2>3
    <2> QED
      BY <2>1, <2>2, <2>3, <2>4
  <1>7. ASSUME NEW b \in 1 .. m, NEW c \in 1 .. m, b < c PROVE b * B <= (c - 1) * B
    <2>1. b \in Nat /\ c - 1 \in Nat /\ b <= c - 1
      BY <1>5, <1>7
    <2> QED
      BY <1>3, <2>1
  <1>8. ASSUME NEW i \in 1 .. n PROVE \E b \in 1 .. m : (b - 1) * B < i /\ i <= b * B
    <2>1. PICK a : a = (i - 1) \div B
      OBVIOUS
    <2>2. a \in Nat /\ a * B <= i - 1 /\ i - 1 < a * B + B /\ a * B \in Nat /\ (a + 1) * B = a * B + B
      BY <1>2, <1>4, <2>1
    <2>3. a < m
      <3>1. CASE m <= a
        <4>1. m * B <= a * B
          BY <1>3, <1>5, <2>2, <3>1
        <4> QED
          BY <1>5, <2>2, <4>1
      <3> QED
        BY <1>5, <2>2, <3>1
    <2>4. a + 1 \in 1 .. m /\ (a + 1) - 1 = a
      BY <1>5, <2>2, <2>3
    <2>5. ((a + 1) - 1) * B < i /\ i <= (a + 1) * B
      BY <2>2, <2>4
    <2> QED
      BY <2>4, <2>5
  <1> QED
    BY <1>5, <1>6, <1>7, <1>8

\* Documents with frequencies.
Pairs == Nat \X Nat

\* A stretch of a sequence.
LEMMA StretchOf ==
  ASSUME NEW X, NEW ps \in Seq(X), NEW lo \in Nat, NEW hi \in Nat, lo < hi, hi <= Len(ps)
  PROVE  /\ SubSeq(ps, lo + 1, hi) \in Seq(X) /\ Len(SubSeq(ps, lo + 1, hi)) = hi - lo
         /\ \A i \in 1 .. hi - lo : lo + i \in 1 .. Len(ps) /\ SubSeq(ps, lo + 1, hi)[i] = ps[lo + i]
  OBVIOUS

\* Block b begins behind place lo and goes on to place e, or to the end of the list.
CutAt(b, lo, e) == (b - 1) * BlockSize = lo /\ b * BlockSize = e /\ lo < e

\* A block is a stretch of the postings.
LEMMA BlockIsStretch ==
  ASSUME NEW ps \in Seq(Pairs), NEW L \in Nat, Len(ps) = L, NEW b,
         NEW lo \in Nat, NEW e \in Nat, CutAt(b, lo, e), lo < L,
         NEW hi \in Nat, hi = IF e <= L THEN e ELSE L
  PROVE  /\ lo < hi /\ hi <= L
         /\ blockOf(ps, b) \in Seq(Pairs) /\ Len(blockOf(ps, b)) = hi - lo
         /\ \A i \in 1 .. hi - lo : lo + i \in 1 .. L /\ blockOf(ps, b)[i] = ps[lo + i]
  <1> USE DEF CutAt
  <1>1. lo < hi /\ hi <= L
    OBVIOUS
  <1>2. Min({e, L}) = hi
    <2>1. hi \in {e, L} /\ \A z \in {e, L} : hi <= z
      OBVIOUS
    <2>2. \A z \in {e, L} : (\A w \in {e, L} : z =< w) => z = hi
      BY <2>1
    <2> QED
      BY <2>1, <2>2 DEF Min
  <1>3. blockOf(ps, b) = SubSeq(ps, lo + 1, hi)
    BY <1>2 DEF blockOf
  <1>4. /\ SubSeq(ps, lo + 1, hi) \in Seq(Pairs) /\ Len(SubSeq(ps, lo + 1, hi)) = hi - lo
        /\ \A i \in 1 .. hi - lo : lo + i \in 1 .. Len(ps) /\ SubSeq(ps, lo + 1, hi)[i] = ps[lo + i]
    BY <1>1, StretchOf, SMTT(30)
  <1> QED
    BY <1>1, <1>3, <1>4

\* What the table says of a block, when its postings are those of q.
LEMMA BlockTells ==
  ASSUME NEW n \in Nat \ {0}, NEW q, q \in Seq(Pairs), Len(q) = n
  PROVE  /\ encodeBlock(q).count = n /\ encodeBlock(q).lastDoc = q[n][1]
         /\ \A i \in 1 .. n : q[i][2] <= encodeBlock(q).maxFreq
         /\ \E i \in 1 .. n : q[i][2] = encodeBlock(q).maxFreq
  <1>1. DOMAIN q = 1 .. n
    OBVIOUS
  <1>2. PICK freqs : freqs = [i \in DOMAIN q |-> q[i][2]]
    OBVIOUS
  <1>3. freqs \in [1 .. n -> Nat] /\ \A i \in 1 .. n : freqs[i] = q[i][2]
    BY <1>1, <1>2 DEF Pairs
  <1>4. /\ encodeBlock(q).count = Len(q) /\ encodeBlock(q).lastDoc = q[Len(q)][1]
        /\ encodeBlock(q).maxFreq = maxOf(freqs)
    BY <1>2 DEF encodeBlock
  <1>5. (\A i \in 1 .. n : freqs[i] <= maxOf(freqs)) /\ \E i \in 1 .. n : freqs[i] = maxOf(freqs)
    BY <1>3, MaxOfIsReached
  <1> QED
    BY <1>3, <1>4, <1>5

\* Codable by ascending document, of the codec's width.
Codable(q) ==
  /\ q \in Seq(Pairs)
  /\ \A i, j \in 1 .. Len(q) : i < j => q[i][1] < q[j][1]
  /\ \A i \in 1 .. Len(q) : q[i][1] < Bit[MaxWidth] /\ q[i][2] < Bit[MaxWidth]

GapsOf(q) == [i \in 1 .. Len(q) - 1 |-> q[i + 1][1] - q[i][1]]
FreqsOf(q) == [i \in DOMAIN q |-> q[i][2]]

\* The gaps are values of the codec, and lead from each document to the next.
LEMMA GapsAre ==
  ASSUME NEW q, Codable(q), NEW n \in Nat \ {0}, n = Len(q)
  PROVE  /\ Values(GapsOf(q)) /\ Len(GapsOf(q)) = n - 1
         /\ \A i \in 1 .. n - 1 : GapsOf(q)[i] \in Nat /\ q[i][1] \in Nat /\ q[i][1] + GapsOf(q)[i] = q[i + 1][1]
  <1>1. PICK gaps : gaps = GapsOf(q)
    OBVIOUS
  <1>2. gaps = [i \in 1 .. n - 1 |-> q[i + 1][1] - q[i][1]]
    BY <1>1 DEF GapsOf
  <1>3. PICK W \in Nat : W = Bit[MaxWidth]
    <2>1. MaxWidth \in 0 .. MaxWidth
      BY CodecAssumption
    <2> QED
      BY <2>1, BitIs
  <1>4. ASSUME NEW i \in 1 .. n - 1
        PROVE  gaps[i] \in Nat /\ gaps[i] < W /\ q[i][1] \in Nat /\ q[i][1] + gaps[i] = q[i + 1][1]
    <2>1. i \in 1 .. n /\ i + 1 \in 1 .. n /\ i < i + 1
      BY ONLY n \in Nat \ {0}, i \in 1 .. n - 1
    <2>2. q[i] \in Pairs /\ q[i + 1] \in Pairs
      BY ONLY <2>1, Codable(q), n = Len(q) DEF Codable
    <2>3. PICK x \in Nat, y \in Nat : x = q[i][1] /\ y = q[i + 1][1]
      BY ONLY <2>2 DEF Pairs
    <2>4. x < y /\ y < W
      BY ONLY <1>3, <2>1, <2>3, Codable(q), n = Len(q) DEF Codable
    <2>5. gaps[i] = y - x
      BY ONLY <1>2, <2>3, i \in 1 .. n - 1
    <2> QED
      BY ONLY <2>3, <2>4, <2>5, x \in Nat, y \in Nat, W \in Nat
  <1>5. gaps \in Seq(Nat) /\ Len(gaps) = n - 1
    <2>1. gaps = [i \in 1 .. n - 1 |-> gaps[i]]
      BY ONLY <1>2
    <2>2. \A i \in 1 .. n - 1 : gaps[i] \in Nat
      BY ONLY <1>4
    <2>3. PICK m \in Nat : m = n - 1
      BY ONLY n \in Nat \ {0}
    <2> QED
      BY ONLY <2>1, <2>2, <2>3, m \in Nat
  <1>6. Values(gaps)
    BY ONLY <1>3, <1>4, <1>5 DEF Values
  <1> QED
    BY ONLY <1>1, <1>4, <1>5, <1>6

\* The frequencies are numbers of the codec's width.
LEMMA FreqsAre ==
  ASSUME NEW q, Codable(q), NEW n \in Nat, n = Len(q)
  PROVE  FreqsOf(q) \in Seq(Nat) /\ Len(FreqsOf(q)) = n /\ \A i \in 1 .. n : FreqsOf(q)[i] = q[i][2] /\ FreqsOf(q)[i] < Bit[MaxWidth]
  <1>1. DOMAIN q = 1 .. n /\ \A i \in 1 .. n : q[i] \in Pairs
    BY ONLY Codable(q), n = Len(q) DEF Codable
  <1>2. FreqsOf(q) = [i \in 1 .. n |-> q[i][2]]
    BY ONLY <1>1, Zenon DEF FreqsOf
  <1>3. \A i \in 1 .. n : q[i][2] \in Nat /\ q[i][2] < Bit[MaxWidth]
    BY ONLY <1>1, Codable(q), n = Len(q) DEF Codable, Pairs
  <1> QED
    BY ONLY <1>2, <1>3, n \in Nat

\* A sum over one more place.
LEMMA SumGrows ==
  ASSUME NEW m \in Nat, NEW gaps, \A j \in 1 .. m + 1 : gaps[j] \in Nat
  PROVE  /\ SumFunction([j \in 1 .. m |-> gaps[j]]) \in Nat
         /\ SumFunction([j \in 1 .. m + 1 |-> gaps[j]]) = SumFunction([j \in 1 .. m |-> gaps[j]]) + gaps[m + 1]
  <1>1. PICK S, T : S = 1 .. m + 1 /\ T = 1 .. m
    OBVIOUS
  <1>2. PICK f, g : f = [j \in S |-> gaps[j]] /\ g = [j \in T |-> gaps[j]]
    OBVIOUS
  <1>3. IsFiniteSet(S) /\ IsFiniteSet(T)
    BY <1>1, FS_Interval
  <1>4. T \in SUBSET S /\ m + 1 \in S /\ m + 1 \notin T /\ S = T \cup {m + 1}
    BY ONLY <1>1, m \in Nat
  <1>5. \A j \in S : gaps[j] \in Nat /\ f[j] = gaps[j]
    BY ONLY <1>1, <1>2, \A j \in 1 .. m + 1 : gaps[j] \in Nat
  <1>6. \A j \in T : g[j] = f[j] /\ g[j] \in Nat
    BY ONLY <1>2, <1>4, <1>5
  <1>7. SumFunction(f) = Weight(f, S)
    BY ONLY <1>2, <1>3, <1>5, SumIsItsWeight
  <1>8. SumFunction(g) = Weight(g, T) /\ SumFunction(g) \in Nat
    BY ONLY <1>2, <1>3, <1>6, SumIsItsWeight
  <1>9. Weight(g, T) = Weight(f, T)
    BY ONLY <1>6, SameWeight
  <1>10. Weight(f, T \cup {m + 1}) = f[m + 1] + Weight(f, T)
    <2>1. \A j \in S : f[j] \in Nat
      BY ONLY <1>5
    <2> QED
      BY ONLY <1>3, <1>4, <2>1, WeightAdds
  <1>11. SumFunction(f) = SumFunction(g) + gaps[m + 1]
    <2>1. PICK x \in Nat, y \in Nat : x = SumFunction(g) /\ y = gaps[m + 1] /\ f[m + 1] = y
      BY ONLY <1>4, <1>5, <1>8
    <2>2. SumFunction(f) = y + x
      BY ONLY <1>4, <1>7, <1>8, <1>9, <1>10, <2>1, Zenon
    <2> QED
      BY ONLY <2>1, <2>2, x \in Nat, y \in Nat
  <1> QED
    BY ONLY <1>1, <1>2, <1>8, <1>11, Zenon

\* The gaps add up to the documents.
LEMMA GapsTelescope ==
  ASSUME NEW q, Codable(q), NEW n \in Nat \ {0}, n = Len(q), NEW i \in 1 .. n
  PROVE  q[1][1] + SumFunction([j \in 1 .. i - 1 |-> GapsOf(q)[j]]) = q[i][1]
  <1>1. PICK gaps : gaps = GapsOf(q)
    OBVIOUS
  <1>2. \A j \in 1 .. n - 1 : gaps[j] \in Nat /\ q[j][1] \in Nat /\ q[j][1] + gaps[j] = q[j + 1][1]
    BY <1>1, GapsAre
  <1> DEFINE P == {m \in Nat : m + 1 <= n => q[1][1] + SumFunction([j \in 1 .. m |-> gaps[j]]) = q[m + 1][1]}
  <1>3. 0 \in P
    <2>1. q[1][1] \in Nat
      <3>1. q[1] \in Pairs
        BY ONLY Codable(q), n = Len(q), n \in Nat \ {0} DEF Codable
      <3> QED
        BY ONLY <3>1 DEF Pairs
    <2>2. SumFunction([j \in 1 .. 0 |-> gaps[j]]) = 0
      <3>1. PICK f, S : f = [j \in 1 .. 0 |-> gaps[j]] /\ S = {}
        OBVIOUS
      <3>2. IsFiniteSet(S) /\ DOMAIN f = S
        BY ONLY <3>1, FS_EmptySet
      <3>3. SumFunction(f) = Weight(f, S) /\ Weight(f, {}) = 0
        BY ONLY <3>1, <3>2, SumIsItsWeight, WeightAdds
      <3> QED
        BY ONLY <3>1, <3>3, Zenon
    <2>3. q[1][1] + SumFunction([j \in 1 .. 0 |-> gaps[j]]) = q[1][1]
      <3>1. PICK x \in Nat, y \in {SumFunction([j \in 1 .. 0 |-> gaps[j]])} : x = q[1][1] /\ y = SumFunction([j \in 1 .. 0 |-> gaps[j]])
        BY ONLY <2>1
      <3>2. x + y = x
        BY ONLY <2>2, <3>1, x \in Nat
      <3> QED
        BY ONLY <3>1, <3>2, Zenon
    <2>4. 0 \in Nat /\ 0 + 1 = 1
      OBVIOUS
    <2> QED
      BY ONLY <2>3, <2>4, Zenon
  <1>4. ASSUME NEW m \in Nat, m \in P PROVE m + 1 \in P
    <2> SUFFICES ASSUME (m + 1) + 1 <= n
                 PROVE  q[1][1] + SumFunction([j \in 1 .. m + 1 |-> gaps[j]]) = q[(m + 1) + 1][1]
      OBVIOUS
    <2>1. m + 1 <= n /\ m + 1 \in 1 .. n - 1 /\ \A j \in 1 .. m + 1 : j \in 1 .. n - 1
      BY ONLY m \in Nat, n \in Nat \ {0}, (m + 1) + 1 <= n
    <2>2. /\ SumFunction([j \in 1 .. m |-> gaps[j]]) \in Nat
          /\ SumFunction([j \in 1 .. m + 1 |-> gaps[j]]) = SumFunction([j \in 1 .. m |-> gaps[j]]) + gaps[m + 1]
      <3>1. \A j \in 1 .. m + 1 : gaps[j] \in Nat
        BY ONLY <1>2, <2>1
      <3> QED
        BY ONLY <3>1, m \in Nat, SumGrows
    <2>3. q[1][1] + SumFunction([j \in 1 .. m |-> gaps[j]]) = q[m + 1][1]
      BY ONLY <1>4, <2>1
    <2>4. q[m + 1][1] \in Nat /\ gaps[m + 1] \in Nat /\ q[m + 1][1] + gaps[m + 1] = q[(m + 1) + 1][1]
      BY ONLY <1>2, <2>1
    <2>5. q[1][1] \in Nat
      <3>1. 1 \in 1 .. n - 1
        BY ONLY <2>1, m \in Nat, n \in Nat \ {0}
      <3> QED
        BY ONLY <1>2, <3>1
    <2>6. PICK a \in Nat, b \in Nat, c \in Nat, d \in Nat :
              /\ a = q[1][1] /\ b = SumFunction([j \in 1 .. m |-> gaps[j]]) /\ c = q[m + 1][1] /\ d = gaps[m + 1]
      BY ONLY <2>2, <2>4, <2>5
    <2>7. a + b = c
      BY ONLY <2>3, <2>6, Zenon
    <2>8. a + (b + d) = c + d
      BY ONLY <2>7, a \in Nat, b \in Nat, c \in Nat, d \in Nat
    <2>9. SumFunction([j \in 1 .. m + 1 |-> gaps[j]]) = b + d /\ c + d = q[(m + 1) + 1][1]
      BY ONLY <2>2, <2>4, <2>6, Zenon
    <2> QED
      BY ONLY <2>6, <2>8, <2>9, Zenon
  <1>5. P \in SUBSET Nat
    OBVIOUS
  <1> HIDE DEF P
  <1>6. i - 1 \in P
    <2>1. Nat \subseteq P
      BY ONLY <1>3, <1>4, <1>5, NumberInduction
    <2>2. i - 1 \in Nat
      OBVIOUS
    <2> QED
      BY <2>1, <2>2
  <1>7. (i - 1) + 1 = i /\ i <= n
    OBVIOUS
  <1> QED
    BY ONLY <1>1, <1>6, <1>7 DEF P

\* Two streams one behind the other.
LEMMA BothHeld ==
  ASSUME NEW V, NEW a \in Seq(V), NEW b \in Seq(V), NEW c, c = a \o b
  PROVE  /\ c \in Seq(V) /\ Len(c) \in Nat /\ Len(a) \in Nat
         /\ Stands(c, 0, a) /\ Stands(c, Len(a), b)
  <1>1. c \in Seq(V) /\ Len(c) = Len(a) + Len(b) /\ Len(c) \in Nat /\ Len(a) \in Nat /\ Len(b) \in Nat
    BY ONLY c = a \o b, a \in Seq(V), b \in Seq(V), ConcatProperties, LenProperties
  <1>2. Stands(c, 0, a \o b)
    <2>1. \A j \in 1 .. Len(c) : 0 + j = j
      BY ONLY <1>1
    <2>2. 0 + Len(c) <= Len(c)
      BY ONLY <1>1
    <2> QED
      BY ONLY <2>1, <2>2, c = a \o b, Zenon DEF Stands
  <1>3. 0 \in Nat /\ 0 + Len(a) = Len(a)
    BY ONLY <1>1
  <1>4. Stands(c, 0, a) /\ Stands(c, 0 + Len(a), b)
    BY ONLY <1>1, <1>2, <1>3, a \in Seq(V), b \in Seq(V), PartHeld
  <1> QED
    BY ONLY <1>1, <1>3, <1>4, Zenon

\* The gaps of a block, and where its frequencies begin.
GapsRead(b) ==
  IF b.count = BlockSize
  THEN <<unpackBits(b.data, 1, b.count - 1, b.data[1]), 1 + packedLen(b.count - 1, b.data[1])>>
  ELSE readGroupVarint(b.data, 0, b.count - 1)

GapBytes(q) ==
  IF Len(q) = BlockSize THEN <<maxWidth(GapsOf(q))>> \o packBits(GapsOf(q), maxWidth(GapsOf(q)))
  ELSE appendGroupVarint(GapsOf(q))

\* The gaps of a block are read back, and so is the place behind them.
LEMMA GapsComeBack ==
  ASSUME NEW q, Codable(q), NEW n \in Nat \ {0}, n = Len(q), NEW rest \in Seq(Bytes),
         NEW b, b.count = n, b.data = GapBytes(q) \o rest
  PROVE  /\ GapBytes(q) \in Seq(Bytes) /\ Len(GapBytes(q)) \in Nat
         /\ GapsRead(b) = <<GapsOf(q), Len(GapBytes(q))>>
  <1>1. PICK gaps : gaps = GapsOf(q)
    OBVIOUS
  <1>2. Values(gaps) /\ Len(gaps) = n - 1 /\ gaps \in Seq(Nat) /\ \A i \in 1 .. n - 1 : gaps[i] < Bit[MaxWidth]
    <2>1. Values(gaps) /\ Len(gaps) = n - 1
      BY <1>1, GapsAre
    <2> QED
      BY ONLY <2>1 DEF Values
  <1>3. PICK src, g : src = b.data /\ g = GapBytes(q) /\ src = g \o rest
    OBVIOUS
  <1>4. CASE n = BlockSize
    <2>1. BlockSize \in 2 .. 255 /\ MaxWidth \in 28 .. 32
      BY CodecAssumption
    <2>2. PICK m \in Nat \ {0} : m = n - 1
      BY ONLY <1>4, <2>1, n \in Nat \ {0}
    <2>3. PICK w \in 1 .. MaxWidth : w = maxWidth(gaps) /\ \A i \in 1 .. m : gaps[i] < Bit[w]
      <3>1. gaps \in [1 .. m -> Nat] /\ \A i \in 1 .. m : gaps[i] < Bit[MaxWidth]
        BY ONLY <1>2, <2>2
      <3> QED
        BY ONLY <3>1, MaxWidthIs, m \in Nat \ {0}
    <2>4. PICK packed : packed = packBits(gaps, w)
      OBVIOUS
    <2>5. /\ packed \in Seq(Bytes) /\ Len(packed) = packedLen(m, w) /\ packedLen(m, w) \in Nat
          /\ \A s : \A pos \in Nat : Stands(s, pos, packed) => unpackBits(s, pos, m, w) = gaps
      <3>1. \A i \in DOMAIN gaps : gaps[i] < Bit[w]
        BY ONLY <1>2, <2>2, <2>3
      <3>2. /\ packBits(gaps, w) \in Seq(Bytes) /\ Len(packBits(gaps, w)) = packedLen(Len(gaps), w)
            /\ packedLen(Len(gaps), w) \in Nat
            /\ \A s : \A pos \in Nat : Stands(s, pos, packBits(gaps, w)) => unpackBits(s, pos, Len(gaps), w) = gaps
        BY ONLY <1>2, <3>1, PackedReads, w \in 1 .. MaxWidth
      <3> QED
        BY ONLY <1>2, <2>2, <2>4, <3>2, Zenon
    <2>6. PICK h \in Seq(Bytes) : h = <<w>> /\ Len(h) = 1 /\ h[1] = w
      <3>1. w \in Bytes
        BY ONLY <2>1, w \in 1 .. MaxWidth DEF Bytes
      <3>2. <<w>> \in Seq(Bytes) /\ Len(<<w>>) = 1 /\ <<w>>[1] = w
        BY ONLY <3>1
      <3> QED
        BY ONLY <3>2, Zenon
    <2>7. g = h \o packed
      BY ONLY <1>1, <1>3, <1>4, <2>3, <2>4, <2>6, n = Len(q), Zenon DEF GapBytes
    <2>8. g \in Seq(Bytes) /\ Len(g) = 1 + packedLen(m, w) /\ Len(g) \in Nat
      BY ONLY <2>5, <2>6, <2>7, h \in Seq(Bytes), ConcatProperties, LenProperties
    <2>9. Stands(src, 0, g) /\ Len(src) \in Nat
      BY ONLY <1>3, <2>8, rest \in Seq(Bytes), BothHeld
    <2>10. Stands(src, 0, h) /\ Stands(src, 0 + Len(h), packed)
      <3>1. 0 \in Nat
        OBVIOUS
      <3> QED
        BY ONLY <2>5, <2>7, <2>9, <3>1, h \in Seq(Bytes), PartHeld
    <2>11. src[1] = w
      <3>1. 1 \in 1 .. Len(h) /\ 0 + 1 = 1
        BY ONLY <2>6
      <3> QED
        BY ONLY <2>6, <2>10, <3>1, Zenon DEF Stands
    <2>12. unpackBits(src, 1, m, w) = gaps
      <3>1. 0 + Len(h) = 1 /\ 1 \in Nat
        BY ONLY <2>6
      <3> QED
        BY ONLY <2>5, <2>10, <3>1, Zenon
    <2>13. GapsRead(b) = <<gaps, Len(g)>>
      BY ONLY <1>3, <1>4, <2>2, <2>8, <2>11, <2>12, b.count = n, Zenon DEF GapsRead
    <2> QED
      BY ONLY <1>1, <1>3, <2>8, <2>13, Zenon
  <1>5. CASE n # BlockSize
    <2>1. g = appendGroupVarint(gaps)
      BY ONLY <1>1, <1>3, <1>5, n = Len(q), Zenon DEF GapBytes
    <2>2. /\ g \in Seq(Bytes)
          /\ \A s : Len(s) \in Nat => \A pos \in Nat : Stands(s, pos, g)
                => readGroupVarint(s, pos, Len(gaps)) = <<gaps, pos + Len(g)>>
      BY ONLY <1>2, <2>1, GroupVarintReads
    <2>3. Stands(src, 0, g) /\ Len(src) \in Nat /\ Len(g) \in Nat
      BY ONLY <1>3, <2>2, rest \in Seq(Bytes), BothHeld
    <2>4. readGroupVarint(src, 0, n - 1) = <<gaps, 0 + Len(g)>>
      <3>1. 0 \in Nat
        OBVIOUS
      <3> QED
        BY ONLY <1>2, <2>2, <2>3, <3>1, Zenon
    <2>5. 0 + Len(g) = Len(g)
      BY ONLY <2>3
    <2>6. GapsRead(b) = <<gaps, Len(g)>>
      BY ONLY <1>3, <1>5, <2>4, <2>5, b.count = n, Zenon DEF GapsRead
    <2> QED
      BY ONLY <1>1, <1>3, <2>2, <2>3, <2>6, Zenon
  <1> QED
    BY <1>4, <1>5

\* A block of a list, decoded, is the postings it was encoded from.
LEMMA BlockReads ==
  ASSUME NEW q, Codable(q), NEW n \in Nat \ {0}, n = Len(q), n <= BlockSize
  PROVE  decodeBlock(encodeBlock(q)) = q /\ encodeBlock(q).data \in Seq(Bytes)
  <1>1. BlockSize \in 2 .. 255
    BY CodecAssumption
  <1>2. PICK b : b = encodeBlock(q)
    OBVIOUS
  <1>3. PICK gaps, freqs, g, p : gaps = GapsOf(q) /\ freqs = FreqsOf(q) /\ g = GapBytes(q) /\ p = appendPForDelta(freqs)
    OBVIOUS
  <1>4. /\ b.firstDoc = q[1][1] /\ b.count = n /\ b.data = g \o p
    BY ONLY <1>2, <1>3, n = Len(q) DEF encodeBlock, GapBytes, GapsOf, FreqsOf
  <1>5. freqs \in Seq(Nat) /\ Len(freqs) = n /\ \A i \in 1 .. n : freqs[i] = q[i][2] /\ freqs[i] < Bit[MaxWidth]
    <2>1. n \in Nat
      OBVIOUS
    <2> QED
      BY ONLY <1>3, <2>1, Codable(q), n = Len(q), FreqsAre
  <1>6. /\ p \in Seq(Bytes)
        /\ \A src : Len(src) \in Nat => \A pos \in Nat : Stands(src, pos, p) => readPForDelta(src, pos, n) = freqs
    <2>1. PICK V : V = Bytes
      OBVIOUS
    <2>2. ByteSet(V) /\ 0 .. n \subseteq V
      BY ONLY <1>1, <2>1, n \in Nat \ {0}, n <= BlockSize DEF ByteSet, Bytes
    <2>3. \A i \in 1 .. n : freqs[i] < Bit[MaxWidth]
      BY ONLY <1>5
    <2>4. /\ p \in Seq(V)
          /\ \A src : Len(src) \in Nat => \A pos \in Nat : Stands(src, pos, p) => readPForDelta(src, pos, n) = freqs
      BY ONLY <1>3, <1>5, <2>2, <2>3, n \in Nat \ {0}, PForDeltaReads
    <2> QED
      BY ONLY <2>1, <2>4, Zenon
  <1>7. g \in Seq(Bytes) /\ Len(g) \in Nat /\ GapsRead(b) = <<gaps, Len(g)>>
    <2>1. b.data = GapBytes(q) \o p
      BY ONLY <1>3, <1>4
    <2>2. /\ GapBytes(q) \in Seq(Bytes) /\ Len(GapBytes(q)) \in Nat
          /\ GapsRead(b) = <<GapsOf(q), Len(GapBytes(q))>>
      BY ONLY <1>4, <1>6, <2>1, Codable(q), n \in Nat \ {0}, n = Len(q), GapsComeBack
    <2> QED
      BY ONLY <1>3, <2>2, Zenon
  <1>8. PICK src : src = b.data
    OBVIOUS
  <1>9. src \in Seq(Bytes) /\ Len(src) \in Nat /\ Stands(src, Len(g), p)
    BY ONLY <1>4, <1>6, <1>7, <1>8, BothHeld
  <1>10. readPForDelta(src, Len(g), n) = freqs
    BY ONLY <1>6, <1>7, <1>9, Zenon
  <1>11. decodeBlock(b) = [i \in 1 .. n |-> <<b.firstDoc + SumFunction([j \in 1 .. i - 1 |-> gaps[j]]), freqs[i]>>]
    <2>1. decodeBlock(b) = [i \in 1 .. b.count |->
              <<b.firstDoc + SumFunction([j \in 1 .. i - 1 |-> GapsRead(b)[1][j]]),
                readPForDelta(b.data, GapsRead(b)[2], b.count)[i]>>]
      BY Zenon DEF decodeBlock, GapsRead
    <2>2. GapsRead(b)[1] = gaps /\ GapsRead(b)[2] = Len(g)
      BY ONLY <1>7
    <2> QED
      BY ONLY <1>4, <1>8, <1>10, <2>1, <2>2, Zenon
  <1>12. ASSUME NEW i \in 1 .. n
         PROVE  <<b.firstDoc + SumFunction([j \in 1 .. i - 1 |-> gaps[j]]), freqs[i]>> = q[i]
    <2>1. q[1][1] + SumFunction([j \in 1 .. i - 1 |-> GapsOf(q)[j]]) = q[i][1]
      BY ONLY Codable(q), n \in Nat \ {0}, n = Len(q), i \in 1 .. n, GapsTelescope
    <2>2. freqs[i] = q[i][2]
      BY ONLY <1>5, i \in 1 .. n
    <2>3. q[i] = <<q[i][1], q[i][2]>>
      <3>1. q[i] \in Pairs
        BY ONLY Codable(q), n = Len(q), i \in 1 .. n DEF Codable
      <3> QED
        BY ONLY <3>1 DEF Pairs
    <2> QED
      BY ONLY <1>3, <1>4, <2>1, <2>2, <2>3, Zenon
  <1>13. q = [i \in 1 .. n |-> q[i]]
    BY ONLY Codable(q), n = Len(q) DEF Codable
  <1>14. decodeBlock(b) = q
    BY ONLY <1>11, <1>12, <1>13, Zenon
  <1> QED
    BY ONLY <1>2, <1>8, <1>9, <1>14, Zenon

-----------------------------------------------------------------------------
(***************************************************************************)
(* Lists.                                                                  *)
(***************************************************************************)

\* A list that the codec takes.
LEMMA EncodableIs ==
  ASSUME NEW ps, Encodable(ps)
  PROVE  Codable(ps) /\ ps \in Seq(Pairs) /\ \A i, j \in DOMAIN ps : i < j => ps[i][1] < ps[j][1]
  <1>1. ps \in Seq(Pairs)
    BY DEF Encodable, Pairs
  <1>2. DOMAIN ps = 1 .. Len(ps)
    BY ONLY <1>1
  <1> QED
    BY ONLY <1>1, <1>2, Encodable(ps) DEF Encodable, Codable

\* The streams of a list come back whatever its length.
LEMMA StreamsRead ==
  ASSUME NEW ps, Encodable(ps)
  PROVE  StreamsRoundTrip(ps)
  <1> DEFINE bytes == appendGroupVarint(GapsOf(ps))
  <1>1. Codable(ps) /\ ps \in Seq(Pairs)
    BY ONLY Encodable(ps), EncodableIs
  <1> SUFFICES ASSUME ps # <<>>
               PROVE  /\ readGroupVarint(bytes, 0, Len(GapsOf(ps))) = <<GapsOf(ps), Len(bytes)>>
                      /\ readPForDelta(appendPForDelta(FreqsOf(ps)), 0, Len(FreqsOf(ps))) = FreqsOf(ps)
    BY Zenon DEF StreamsRoundTrip, GapsOf, FreqsOf
  <1>2. PICK n \in Nat \ {0} : n = Len(ps)
    <2>1. Len(ps) \in Nat /\ Len(ps) # 0
      BY ONLY <1>1, ps # <<>>
    <2> QED
      BY ONLY <2>1
  <1>3. PICK none : none \in Seq(Nat) /\ Len(none) = 0
    <2>1. <<>> \in Seq(Nat) /\ Len(<<>>) = 0
      OBVIOUS
    <2> QED
      BY ONLY <2>1, Zenon
  <1>4. readGroupVarint(bytes, 0, Len(GapsOf(ps))) = <<GapsOf(ps), Len(bytes)>>
    <2>1. PICK gaps, enc : gaps = GapsOf(ps) /\ enc = bytes
      OBVIOUS
    <2>2. Values(gaps)
      BY ONLY <1>1, <1>2, <2>1, GapsAre, n \in Nat \ {0}
    <2>3. /\ enc \in Seq(Bytes)
          /\ \A src : Len(src) \in Nat => \A pos \in Nat : Stands(src, pos, enc)
                => readGroupVarint(src, pos, Len(gaps)) = <<gaps, pos + Len(enc)>>
      BY <2>1, <2>2, GroupVarintReads
    <2>4. Len(enc) \in Nat
      BY ONLY <2>3
    <2>5. 0 \in Nat /\ 0 + Len(enc) = Len(enc) /\ \A j \in 1 .. Len(enc) : 0 + j = j
      BY ONLY <2>4
    <2>6. Stands(enc, 0, enc)
      <3>1. Len(enc) <= Len(enc)
        BY ONLY <2>4
      <3> QED
        BY ONLY <2>5, <3>1, Zenon DEF Stands
    <2>7. readGroupVarint(enc, 0, Len(gaps)) = <<gaps, 0 + Len(enc)>>
      BY ONLY <2>3, <2>4, <2>5, <2>6, Zenon
    <2> QED
      BY ONLY <2>1, <2>5, <2>7, Zenon
  <1>5. readPForDelta(appendPForDelta(FreqsOf(ps)), 0, Len(FreqsOf(ps))) = FreqsOf(ps)
    <2>1. PICK freqs, enc : freqs = FreqsOf(ps) /\ enc = appendPForDelta(freqs)
      OBVIOUS
    <2>2. freqs \in Seq(Nat) /\ Len(freqs) = n /\ \A i \in 1 .. n : freqs[i] < Bit[MaxWidth]
      <3>1. n \in Nat
        OBVIOUS
      <3>2. FreqsOf(ps) \in Seq(Nat) /\ Len(FreqsOf(ps)) = n /\ \A i \in 1 .. n : FreqsOf(ps)[i] = ps[i][2] /\ FreqsOf(ps)[i] < Bit[MaxWidth]
        BY ONLY <1>1, <1>2, <3>1, FreqsAre
      <3> QED
        BY ONLY <2>1, <3>2
    <2>3. PICK V : V = Nat
      OBVIOUS
    <2>4. ByteSet(V) /\ 0 .. n \subseteq V
      BY ONLY <2>3 DEF ByteSet, Bytes
    <2>5. \A i \in 1 .. n : freqs[i] < Bit[MaxWidth]
      BY ONLY <2>2
    <2>6. /\ enc \in Seq(V)
          /\ \A src : Len(src) \in Nat => \A pos \in Nat : Stands(src, pos, enc) => readPForDelta(src, pos, n) = freqs
      BY ONLY <2>1, <2>2, <2>4, <2>5, n \in Nat \ {0}, PForDeltaReads
    <2>7. Len(enc) \in Nat
      BY ONLY <2>6
    <2>8. Stands(enc, 0, enc)
      <3>1. Len(enc) <= Len(enc) /\ 0 + Len(enc) = Len(enc) /\ \A j \in 1 .. Len(enc) : 0 + j = j
        BY ONLY <2>7
      <3> QED
        BY ONLY <3>1, Zenon DEF Stands
    <2>9. 0 \in Nat
      OBVIOUS
    <2>10. readPForDelta(enc, 0, n) = freqs
      BY ONLY <2>6, <2>7, <2>8, <2>9, Zenon
    <2> QED
      BY ONLY <2>1, <2>2, <2>10, Zenon
  <1> QED
    BY <1>4, <1>5

\* A block of a list is a short list, and its table tells what stands in it.
LEMMA BlockIsList ==
  ASSUME NEW ps, Codable(ps), NEW q, q \in Seq(Pairs), NEW n \in Nat, Len(q) = n, NEW lo \in Nat,
         \A x \in 1 .. n : lo + x \in 1 .. Len(ps) /\ q[x] = ps[lo + x]
  PROVE  Codable(q)
  <1>1. ASSUME NEW i \in 1 .. n, NEW j \in 1 .. n, i < j PROVE q[i][1] < q[j][1]
    <2>1. lo + i \in 1 .. Len(ps) /\ lo + j \in 1 .. Len(ps) /\ q[i] = ps[lo + i] /\ q[j] = ps[lo + j]
      BY ONLY i \in 1 .. n, j \in 1 .. n, \A x \in 1 .. n : lo + x \in 1 .. Len(ps) /\ q[x] = ps[lo + x]
    <2>2. lo + i < lo + j
      BY ONLY lo \in Nat, n \in Nat, i \in 1 .. n, j \in 1 .. n, i < j
    <2>3. ps[lo + i][1] < ps[lo + j][1]
      BY ONLY <2>1, <2>2, Codable(ps), Zenon DEF Codable
    <2> QED
      BY ONLY <2>1, <2>3, Zenon
  <1>2. ASSUME NEW i \in 1 .. n PROVE q[i][1] < Bit[MaxWidth] /\ q[i][2] < Bit[MaxWidth]
    <2>1. lo + i \in 1 .. Len(ps) /\ q[i] = ps[lo + i]
      BY ONLY i \in 1 .. n, \A x \in 1 .. n : lo + x \in 1 .. Len(ps) /\ q[x] = ps[lo + x]
    <2> QED
      BY ONLY <2>1, Codable(ps), Zenon DEF Codable
  <1> QED
    BY ONLY <1>1, <1>2, q \in Seq(Pairs), Len(q) = n DEF Codable

\* What the table says of the postings of a block.
LEMMA TableTells ==
  ASSUME NEW q, Codable(q), NEW n \in Nat \ {0}, Len(q) = n, NEW p \in ToSet(q)
  PROVE  p[1] \in encodeBlock(q).firstDoc .. encodeBlock(q).lastDoc /\ p[2] <= encodeBlock(q).maxFreq
  <1>1. q \in Seq(Pairs) /\ DOMAIN q = 1 .. n
    BY ONLY Codable(q), Len(q) = n DEF Codable
  <1>2. PICK i \in 1 .. n : p = q[i]
    BY <1>1 DEF ToSet
  <1>3. encodeBlock(q).firstDoc = q[1][1]
    BY DEF encodeBlock
  <1>4. encodeBlock(q).lastDoc = q[n][1] /\ \A j \in 1 .. n : q[j][2] <= encodeBlock(q).maxFreq
    BY ONLY <1>1, n \in Nat \ {0}, Len(q) = n, BlockTells
  <1>5. \A j \in 1 .. n : q[j] \in Pairs
    BY ONLY <1>1, Len(q) = n
  <1>6. 1 \in 1 .. n /\ n \in 1 .. n /\ i \in Nat /\ 1 <= i /\ i <= n
    BY ONLY n \in Nat \ {0}, i \in 1 .. n
  <1>7. PICK x \in Nat, y \in Nat, z \in Nat : x = q[1][1] /\ y = q[i][1] /\ z = q[n][1]
    BY ONLY <1>5, <1>6, i \in 1 .. n DEF Pairs
  <1>8. \A j, l \in 1 .. n : j < l => q[j][1] < q[l][1]
    BY ONLY Codable(q), Len(q) = n DEF Codable
  <1>9. x <= y
    <2>1. CASE i = 1
      BY ONLY <1>7, <2>1
    <2>2. CASE i # 1
      <3>1. 1 < i
        BY ONLY <1>6, <2>2
      <3> QED
        BY ONLY <1>6, <1>7, <1>8, <3>1, i \in 1 .. n
    <2> QED
      BY <2>1, <2>2
  <1>10. y <= z
    <2>1. CASE i = n
      BY ONLY <1>7, <2>1
    <2>2. CASE i # n
      <3>1. i < n
        BY ONLY <1>6, <2>2, n \in Nat \ {0}
      <3> QED
        BY ONLY <1>6, <1>7, <1>8, <3>1, i \in 1 .. n
    <2> QED
      BY <2>1, <2>2
  <1> QED
    BY ONLY <1>2, <1>3, <1>4, <1>7, <1>9, <1>10, x \in Nat, y \in Nat, z \in Nat, i \in 1 .. n

\* The L postings ps stand in m blocks: block b holds those between its cut and the one before.
CutUp(ps, L, m, cut) ==
  /\ cut[0] = 0 /\ \A b \in 0 .. m : cut[b] \in Nat
  /\ \A b \in 1 .. m : cut[b - 1] < L /\ cut[b - 1] < cut[b]
  /\ \A i \in 1 .. L : \E b \in 1 .. m : cut[b - 1] < i /\ i <= cut[b]
  /\ Encode(ps) = [b \in 1 .. m |-> encodeBlock(blockOf(ps, b))]
  /\ \A b \in 1 .. m : \E n \in Nat \ {0} :
         /\ n = (IF cut[b] <= L THEN cut[b] ELSE L) - cut[b - 1] /\ n <= BlockSize
         /\ Len(blockOf(ps, b)) = n /\ Codable(blockOf(ps, b))
         /\ \A x \in 1 .. n : cut[b - 1] + x \in 1 .. L /\ blockOf(ps, b)[x] = ps[cut[b - 1] + x]

\* The blocks of a list: block b is encoded of the postings between two cuts.
LEMMA BlocksAre ==
  ASSUME NEW ps, Encodable(ps), NEW L \in Nat, L = Len(ps)
  PROVE  \E m \in Nat : \E cut : CutUp(ps, L, m, cut)
  <1>1. ps \in Seq(Pairs)
    BY ONLY Encodable(ps), EncodableIs
  <1>2. Codable(ps) /\ DOMAIN ps = 1 .. L /\ \A i \in 1 .. L : ps[i] \in Pairs
    BY ONLY <1>1, Encodable(ps), L = Len(ps), EncodableIs
  <1>3. PICK B \in Nat \ {0} : B = BlockSize
    BY CodecAssumption
  <1>4. PICK m : m = (L + B - 1) \div B
    OBVIOUS
  <1>5. /\ m \in Nat
        /\ \A b \in 1 .. m : (b - 1) * B \in Nat /\ b * B \in Nat /\ (b - 1) * B < L /\ (b - 1) * B < b * B
        /\ \A b, c \in 1 .. m : b < c => b * B <= (c - 1) * B
        /\ \A i \in 1 .. L : \E b \in 1 .. m : (b - 1) * B < i /\ i <= b * B
    BY ONLY <1>4, L \in Nat, B \in Nat \ {0}, Cuts
  <1>6. PICK cut : cut = [b \in 0 .. m |-> b * B]
    OBVIOUS
  <1>7. \A b \in 1 .. m : /\ cut[b - 1] = (b - 1) * B /\ cut[b] = b * B
                          /\ cut[b - 1] \in Nat /\ cut[b] \in Nat /\ cut[b - 1] < L /\ cut[b - 1] < cut[b]
    <2> SUFFICES ASSUME NEW b \in 1 .. m PROVE cut[b - 1] = (b - 1) * B /\ cut[b] = b * B
      BY <1>5, Zenon
    <2>1. b \in 0 .. m /\ b - 1 \in 0 .. m
      BY ONLY <1>5, b \in 1 .. m
    <2> QED
      BY ONLY <1>6, <2>1, Zenon
  <1>8. cut[0] = 0 /\ \A b \in 0 .. m : cut[b] \in Nat
    <2>1. 0 \in 0 .. m /\ 0 * B = 0
      BY ONLY <1>5, B \in Nat \ {0}
    <2>2. cut[0] = 0
      BY ONLY <1>6, <2>1, Zenon
    <2>3. \A b \in 0 .. m : b = 0 \/ b \in 1 .. m
      BY ONLY <1>5
    <2> QED
      BY ONLY <1>7, <2>2, <2>3
  <1>9. Encode(ps) = [b \in 1 .. m |-> encodeBlock(blockOf(ps, b))]
    <2>1. ~ \E i \in 1 .. Len(ps) - 1 : ps[i + 1][1] <= ps[i][1]
      <3> SUFFICES ASSUME NEW i \in 1 .. Len(ps) - 1 PROVE ~ (ps[i + 1][1] <= ps[i][1])
        OBVIOUS
      <3>1. i \in 1 .. L /\ i + 1 \in 1 .. L /\ i < i + 1
        BY ONLY i \in 1 .. Len(ps) - 1, L = Len(ps), L \in Nat
      <3>2. PICK u, v \in Nat : u = ps[i][1] /\ v = ps[i + 1][1]
        BY ONLY <1>2, <3>1 DEF Pairs
      <3>3. u < v
        BY ONLY <1>2, <3>1, <3>2, L = Len(ps) DEF Codable
      <3> QED
        BY ONLY u \in Nat, v \in Nat, <3>2, <3>3
    <2>2. (Len(ps) + BlockSize - 1) \div BlockSize = m
      BY ONLY <1>3, <1>4, L = Len(ps), Zenon
    <2> QED
      BY ONLY <2>1, <2>2, Zenon DEF Encode
  <1>10. ASSUME NEW b \in 1 .. m
        PROVE  \E n \in Nat \ {0} :
                /\ n = (IF cut[b] <= L THEN cut[b] ELSE L) - cut[b - 1] /\ n <= BlockSize
                /\ Len(blockOf(ps, b)) = n /\ Codable(blockOf(ps, b))
                /\ \A x \in 1 .. n : cut[b - 1] + x \in 1 .. L /\ blockOf(ps, b)[x] = ps[cut[b - 1] + x]
    <2>1. PICK lo \in Nat, e \in Nat :
              /\ lo = cut[b - 1] /\ e = cut[b] /\ lo = (b - 1) * BlockSize /\ e = b * BlockSize
              /\ lo < e /\ lo < L
      BY ONLY <1>3, <1>7, b \in 1 .. m
    <2>2. PICK hi \in Nat : hi = IF e <= L THEN e ELSE L
      BY ONLY e \in Nat, L \in Nat
    <2>3. /\ lo < hi /\ hi <= L
          /\ blockOf(ps, b) \in Seq(Pairs) /\ Len(blockOf(ps, b)) = hi - lo
          /\ \A i \in 1 .. hi - lo : lo + i \in 1 .. L /\ blockOf(ps, b)[i] = ps[lo + i]
      <3>1. Len(ps) = L /\ (b - 1) * BlockSize = lo /\ b * BlockSize = e /\ lo < e /\ lo < L
        BY ONLY <2>1, L = Len(ps), Zenon
      <3>2. Len(ps) = L /\ lo < L
        BY ONLY <3>1
      <3>3. CutAt(b, lo, e)
        BY ONLY <3>1 DEF CutAt
      <3> QED
        BY ONLY <1>1, <2>2, <3>2, <3>3, L \in Nat, lo \in Nat, e \in Nat, hi \in Nat, BlockIsStretch, SMTT(30)
    <2>4. PICK n \in Nat \ {0} : n = hi - lo
      BY ONLY lo \in Nat, hi \in Nat, <2>3
    <2>5. e = lo + B
      <3>1. PICK a \in Nat : a = b - 1 /\ b = a + 1
        BY ONLY b \in 1 .. m, <1>5
      <3>2. (a + 1) * B = a * B + B
        BY ONLY a \in Nat, B \in Nat \ {0}
      <3> QED
        BY ONLY <1>3, <2>1, <3>1, <3>2
    <2>6. n <= BlockSize
      BY ONLY <1>3, <2>2, <2>4, <2>5, lo \in Nat, e \in Nat, hi \in Nat, L \in Nat, B \in Nat \ {0}
    <2>7. PICK q \in Seq(Pairs) : q = blockOf(ps, b) /\ Len(q) = n /\ \A x \in 1 .. n : lo + x \in 1 .. Len(ps) /\ q[x] = ps[lo + x]
      BY ONLY <2>3, <2>4, L = Len(ps)
    <2>8. Codable(q)
      <3>1. n \in Nat /\ Len(q) = n /\ Codable(ps)
        BY ONLY <1>2, <2>7, n \in Nat \ {0}
      <3>2. \A x \in 1 .. n : lo + x \in 1 .. Len(ps) /\ q[x] = ps[lo + x]
        BY ONLY <2>7
      <3> QED
        BY ONLY <3>1, <3>2, q \in Seq(Pairs), lo \in Nat, BlockIsList
    <2> QED
      <3>1. n = (IF cut[b] <= L THEN cut[b] ELSE L) - cut[b - 1]
        BY ONLY <2>1, <2>2, <2>4, Zenon
      <3>2. \A x \in 1 .. n : cut[b - 1] + x \in 1 .. L /\ blockOf(ps, b)[x] = ps[cut[b - 1] + x]
        BY ONLY <2>1, <2>7, L = Len(ps), Zenon
      <3> QED
        BY ONLY <2>6, <2>7, <2>8, <3>1, <3>2, n \in Nat \ {0}, Zenon
  <1> QED
    <2>1. \A b \in 1 .. m : cut[b - 1] < L /\ cut[b - 1] < cut[b]
      BY ONLY <1>7
    <2>2. \A i \in 1 .. L : \E b \in 1 .. m : cut[b - 1] < i /\ i <= cut[b]
      BY ONLY <1>5, <1>7, Zenon
    <2>3. CutUp(ps, L, m, cut)
      BY ONLY <1>8, <1>9, <1>10, <2>1, <2>2, Zenon DEF CutUp
    <2> QED
      BY ONLY <1>5, <2>3, Zenon

\* The L postings ps, cut behind the positions cut[1], .., cut[m], are the lists qs.
CutInto(ps, L, m, cut, qs) ==
  /\ cut[0] = 0 /\ \A b \in 0 .. m : cut[b] \in Nat
  /\ \A b \in 1 .. m : cut[b - 1] < L /\ cut[b - 1] < cut[b]
  /\ \A i \in 1 .. L : \E b \in 1 .. m : cut[b - 1] < i /\ i <= cut[b]
  /\ qs = [b \in 1 .. m |-> qs[b]]
  /\ \A b \in 1 .. m : \E n \in Nat \ {0} :
       /\ n = (IF cut[b] <= L THEN cut[b] ELSE L) - cut[b - 1]
       /\ qs[b] \in Seq(Pairs) /\ Len(qs[b]) = n
       /\ \A x \in 1 .. n : cut[b - 1] + x \in 1 .. L /\ qs[b][x] = ps[cut[b - 1] + x]

\* Blocks between cuts, laid one behind the other, are the postings that were cut.
LEMMA CutsLaid ==
  ASSUME NEW ps \in Seq(Pairs), NEW L \in Nat, L = Len(ps), NEW m \in Nat, NEW cut, NEW qs, CutInto(ps, L, m, cut, qs)
  PROVE  FlattenSeq(qs) = ps
  <1>1. cut[0] = 0
    BY DEF CutInto
  <1>2. \A b \in 0 .. m : cut[b] \in Nat
    BY DEF CutInto
  <1>3. \A b \in 1 .. m : cut[b - 1] < L /\ cut[b - 1] < cut[b]
    BY DEF CutInto
  <1>4. \A i \in 1 .. L : \E b \in 1 .. m : cut[b - 1] < i /\ i <= cut[b]
    BY DEF CutInto
  <1>5. \A b \in 1 .. m : \E n \in Nat \ {0} :
           /\ n = (IF cut[b] <= L THEN cut[b] ELSE L) - cut[b - 1]
           /\ qs[b] \in Seq(Pairs) /\ Len(qs[b]) = n
           /\ \A x \in 1 .. n : cut[b - 1] + x \in 1 .. L /\ qs[b][x] = ps[cut[b - 1] + x]
    BY DEF CutInto
  <1>6. qs = [b \in 1 .. m |-> qs[b]]
    BY DEF CutInto
  <1> DEFINE end(b) == IF cut[b] <= L THEN cut[b] ELSE L
  <1>7. qs \in Seq(Seq(Pairs)) /\ Len(qs) = m
    <2>1. \A b \in 1 .. m : qs[b] \in Seq(Pairs)
      BY ONLY <1>5, Zenon
    <2>2. PICK V : V = Seq(Pairs)
      OBVIOUS
    <2>3. \A b \in 1 .. m : qs[b] \in V
      BY ONLY <2>1, <2>2
    <2>4. qs \in Seq(V) /\ Len(qs) = m
      BY ONLY <2>3, <1>6, m \in Nat
    <2> QED
      BY ONLY <2>2, <2>4
  <1>8. PICK V : V = Pairs
    OBVIOUS
  <1>9. PICK flat, at : flat = FlattenSeq(qs) /\ flat \in Seq(Pairs) /\ Laid(qs, m, flat, at)
    <2>1. FlattenSeq(qs) \in Seq(V) /\ \E at : Laid(qs, Len(qs), FlattenSeq(qs), at)
      BY ONLY <1>7, <1>8, FlattenLays
    <2> QED
      BY ONLY <1>7, <1>8, <2>1, Zenon
  <1>10. /\ at[0] = 0 /\ \A i \in 0 .. m : at[i] \in Nat
        /\ \A i \in 1 .. m : at[i] = at[i - 1] + Len(qs[i])
        /\ Len(flat) = at[m]
        /\ \A r \in 1 .. m : /\ at[r] <= at[m]
                             /\ \A j \in 1 .. Len(qs[r]) : flat[at[r - 1] + j] = qs[r][j]
    BY ONLY <1>9 DEF Laid
  <1>11. \A b \in 0 .. m : at[b] = end(b)
    <2> DEFINE P == {b \in Nat : b <= m => at[b] = end(b)}
    <2>1. 0 \in P
      <3>1. end(0) = 0
        BY ONLY <1>1, L \in Nat
      <3> QED
        BY ONLY <1>10, <3>1
    <2>2. ASSUME NEW b \in Nat, b \in P PROVE b + 1 \in P
      <3> SUFFICES ASSUME b + 1 <= m PROVE at[b + 1] = end(b + 1)
        OBVIOUS
      <3>1. PICK c \in 1 .. m : c = b + 1 /\ c - 1 = b
        BY ONLY b + 1 <= m, b \in Nat, m \in Nat
      <3>2. b <= m /\ b \in 0 .. m
        BY ONLY b + 1 <= m, b \in Nat, m \in Nat
      <3>3. PICK n \in Nat \ {0} : n = end(c) - cut[c - 1] /\ Len(qs[c]) = n
        BY <1>5, <3>1, Zenon
      <3>4. cut[c - 1] = cut[b] /\ cut[b] < L /\ cut[b] \in Nat
        BY ONLY <3>1, <3>2, c \in 1 .. m, <1>2,
                <1>3
      <3>5. at[b] = cut[b]
        <4>1. at[b] = end(b)
          BY ONLY <2>2, <3>2
        <4> QED
          BY ONLY <3>4, <4>1, L \in Nat
      <3>6. at[c] = at[b] + n
        BY ONLY <1>10, <3>1, <3>3, c \in 1 .. m
      <3>7. end(c) \in Nat
        BY ONLY L \in Nat, c \in 1 .. m, m \in Nat, <1>2
      <3> HIDE DEF end
      <3>8. PICK u \in Nat, v \in Nat : u = end(c) /\ v = cut[b]
        BY ONLY <3>4, <3>7
      <3>9. at[c] = u
        <4>1. n = u - v /\ at[c] = v + n
          BY ONLY <3>3, <3>4, <3>5, <3>6, <3>8, Zenon
        <4> QED
          BY ONLY <4>1, u \in Nat, v \in Nat
      <3> QED
        BY ONLY <3>1, <3>8, <3>9, Zenon
    <2>3. P \in SUBSET Nat
      OBVIOUS
    <2> HIDE DEF P
    <2>4. Nat \subseteq P
      BY ONLY <2>1, <2>2, <2>3, NumberInduction
    <2>5. \A b \in 0 .. m : b \in P /\ b <= m
      BY ONLY <2>4, m \in Nat
    <2> QED
      BY ONLY <2>5 DEF P
  <1>12. at[m] = L
    <2>1. m \in 0 .. m /\ at[m] \in Nat
      BY ONLY <1>10, m \in Nat
    <2>2. cut[m] \in Nat /\ at[m] = IF cut[m] <= L THEN cut[m] ELSE L
      BY ONLY <1>11, <2>1, <1>2
    <2>3. at[m] <= L
      BY ONLY <2>2, L \in Nat
    <2>4. CASE L = 0
      BY ONLY <2>1, <2>3, <2>4
    <2>5. CASE L # 0
      <3>1. L \in 1 .. L
        BY ONLY <2>5, L \in Nat
      <3>2. PICK b \in 1 .. m : L <= cut[b]
        BY ONLY <3>1, <1>4
      <3>3. b \in 0 .. m
        BY ONLY b \in 1 .. m, m \in Nat
      <3>4. at[b] = L
        <4>1. cut[b] \in Nat /\ at[b] = IF cut[b] <= L THEN cut[b] ELSE L
          BY ONLY <1>11, <3>3, <1>2
        <4> QED
          BY ONLY <3>2, <4>1, L \in Nat
      <3>5. at[b] <= at[m]
        BY ONLY <1>10, b \in 1 .. m
      <3> QED
        BY ONLY <2>1, <2>3, <3>4, <3>5, L \in Nat
    <2> QED
      BY <2>4, <2>5
  <1>13. ASSUME NEW j \in 1 .. L PROVE flat[j] = ps[j]
    <2>1. PICK b \in 1 .. m : cut[b - 1] < j /\ j <= cut[b]
      BY ONLY j \in 1 .. L, <1>4
    <2>2. PICK n \in Nat \ {0} :
           /\ n = (IF cut[b] <= L THEN cut[b] ELSE L) - cut[b - 1] /\ Len(qs[b]) = n
           /\ \A x \in 1 .. n : cut[b - 1] + x \in 1 .. L /\ qs[b][x] = ps[cut[b - 1] + x]
      BY <1>5, Zenon
    <2>3. PICK a \in 0 .. m : a = b - 1
      BY ONLY b \in 1 .. m, m \in Nat
    <2>4. PICK lo \in Nat, hi \in Nat : lo = cut[a] /\ hi = cut[b] /\ lo < L
      <3>1. b \in 0 .. m
        BY ONLY b \in 1 .. m, m \in Nat
      <3> QED
        BY ONLY <2>3, <3>1, b \in 1 .. m, a \in 0 .. m, <1>2,
                <1>3
    <2>5. PICK x \in 1 .. n : x = j - lo /\ lo + x = j
      <3>1. n = (IF hi <= L THEN hi ELSE L) - lo /\ lo < j /\ j <= hi
        BY ONLY <2>1, <2>2, <2>3, <2>4, Zenon
      <3> QED
        BY ONLY <3>1, j \in 1 .. L, L \in Nat, lo \in Nat, hi \in Nat, n \in Nat \ {0}
    <2>6. at[a] = lo
      BY ONLY <1>11, <2>4, a \in 0 .. m, lo \in Nat, L \in Nat
    <2>7. flat[at[a] + x] = qs[b][x]
      BY ONLY <1>10, <2>2, <2>3, b \in 1 .. m, x \in 1 .. n
    <2>8. qs[b][x] = ps[lo + x]
      BY ONLY <2>2, <2>3, <2>4, x \in 1 .. n
    <2> QED
      BY ONLY <2>5, <2>6, <2>7, <2>8, Zenon
  <1>14. flat = [j \in 1 .. L |-> flat[j]] /\ ps = [j \in 1 .. L |-> ps[j]]
    <2>1. flat \in Seq(Pairs) /\ Len(flat) = at[m]
      BY ONLY <1>9 DEF Laid
    <2>2. flat = [j \in 1 .. L |-> flat[j]]
      BY ONLY <1>12, <2>1
    <2>3. ps = [j \in 1 .. L |-> ps[j]]
      BY ONLY ps \in Seq(Pairs), L = Len(ps)
    <2> QED
      BY ONLY <2>2, <2>3
  <1>15. flat = ps
    BY ONLY <1>13, <1>14, Zenon
  <1> QED
    BY ONLY <1>9, <1>15

\* Decoding the blocks of a list gives its postings back, and the table tells the truth of them.
LEMMA BlocksRead ==
  ASSUME NEW ps, Encodable(ps)
  PROVE  BlocksRoundTrip(ps)
  <1>1. ps \in Seq(Pairs)
    BY ONLY Encodable(ps), EncodableIs
  <1>2. PICK L \in Nat : L = Len(ps)
    BY ONLY <1>1
  <1>3. PICK m \in Nat : \E cut : CutUp(ps, L, m, cut)
    BY ONLY <1>2, Encodable(ps), BlocksAre, L \in Nat
  <1>4. PICK cut : CutUp(ps, L, m, cut)
    BY ONLY <1>3
  <1>5. PICK list : list = Encode(ps)
    OBVIOUS
  <1>6. list = [b \in 1 .. m |-> encodeBlock(blockOf(ps, b))]
    BY ONLY <1>4, <1>5 DEF CutUp
  <1>7. DOMAIN list = 1 .. m /\ \A b \in 1 .. m : list[b] = encodeBlock(blockOf(ps, b))
    BY ONLY <1>6
  <1>8. ASSUME NEW b \in 1 .. m
        PROVE  \E n \in Nat \ {0} :
                 /\ n <= BlockSize /\ Len(blockOf(ps, b)) = n /\ Codable(blockOf(ps, b))
                 /\ n = (IF cut[b] <= L THEN cut[b] ELSE L) - cut[b - 1]
                 /\ \A x \in 1 .. n : cut[b - 1] + x \in 1 .. L /\ blockOf(ps, b)[x] = ps[cut[b - 1] + x]
    BY ONLY <1>4, b \in 1 .. m, Zenon DEF CutUp
  <1>9. ASSUME NEW b \in 1 .. m
        PROVE  /\ decodeBlock(list[b]) = blockOf(ps, b)
               /\ ToSet(list[b].data) \subseteq 0 .. 255
               /\ \A p \in ToSet(decodeBlock(list[b])) :
                    p[1] \in list[b].firstDoc .. list[b].lastDoc /\ p[2] <= list[b].maxFreq
    <2>1. PICK n \in Nat \ {0}, q \in {blockOf(ps, b)} : n <= BlockSize /\ q = blockOf(ps, b) /\ Codable(q) /\ n = Len(q)
      BY ONLY <1>8, b \in 1 .. m
    <2>2. list[b] = encodeBlock(q)
      BY ONLY <1>7, <2>1, b \in 1 .. m
    <2>3. decodeBlock(encodeBlock(q)) = q /\ encodeBlock(q).data \in Seq(Bytes)
      BY ONLY <2>1, n \in Nat \ {0}, BlockReads
    <2>4. PICK data : data = encodeBlock(q).data
      OBVIOUS
    <2>5. ToSet(data) \subseteq 0 .. 255
      <3>1. data \in Seq(Bytes)
        BY ONLY <2>3, <2>4
      <3>2. \A i \in DOMAIN data : data[i] \in Bytes
        BY ONLY <3>1
      <3> QED
        BY ONLY <3>2 DEF ToSet, Bytes
    <2>6. \A p \in ToSet(q) : p[1] \in encodeBlock(q).firstDoc .. encodeBlock(q).lastDoc /\ p[2] <= encodeBlock(q).maxFreq
      <3> SUFFICES ASSUME NEW p \in ToSet(q)
                   PROVE  p[1] \in encodeBlock(q).firstDoc .. encodeBlock(q).lastDoc /\ p[2] <= encodeBlock(q).maxFreq
        OBVIOUS
      <3> QED
        BY ONLY <2>1, n \in Nat \ {0}, p \in ToSet(q), TableTells
    <2> QED
      BY ONLY <2>1, <2>2, <2>3, <2>4, <2>5, <2>6, Zenon
  <1>10. decodeAll(list) = ps
    <2>1. PICK qs : qs = [b \in 1 .. m |-> blockOf(ps, b)]
      OBVIOUS
    <2>2. decodeAll(list) = FlattenSeq(qs)
      <3>1. [i \in DOMAIN list |-> decodeBlock(list[i])] = qs
        BY ONLY <1>7, <1>9, <2>1, Zenon
      <3> QED
        BY ONLY <3>1, Zenon DEF decodeAll
    <2>3. qs = [b \in 1 .. m |-> qs[b]] /\ \A b \in 1 .. m : qs[b] = blockOf(ps, b)
      BY ONLY <2>1
    <2>4. ASSUME NEW b \in 1 .. m
          PROVE  \E n \in Nat \ {0} :
                   /\ n = (IF cut[b] <= L THEN cut[b] ELSE L) - cut[b - 1]
                   /\ qs[b] \in Seq(Pairs) /\ Len(qs[b]) = n
                   /\ \A x \in 1 .. n : cut[b - 1] + x \in 1 .. L /\ qs[b][x] = ps[cut[b - 1] + x]
      <3>1. qs[b] = blockOf(ps, b)
        BY ONLY <2>3, b \in 1 .. m
      <3>2. Codable(blockOf(ps, b)) => blockOf(ps, b) \in Seq(Pairs)
        BY ONLY Zenon DEF Codable
      <3> QED
        BY ONLY <1>8, <3>1, <3>2, b \in 1 .. m, Zenon
    <2>5. /\ cut[0] = 0 /\ \A b \in 0 .. m : cut[b] \in Nat
          /\ \A b \in 1 .. m : cut[b - 1] < L /\ cut[b - 1] < cut[b]
          /\ \A i \in 1 .. L : \E b \in 1 .. m : cut[b - 1] < i /\ i <= cut[b]
      BY ONLY <1>4, Zenon DEF CutUp
    <2>6. qs = [b \in 1 .. m |-> qs[b]]
      BY ONLY <2>3
    <2>7. FlattenSeq(qs) = ps
      <3>1. CutInto(ps, L, m, cut, qs)
        BY ONLY <2>4, <2>5, <2>6, Zenon DEF CutInto
      <3> QED
        BY ONLY <1>1, <1>2, <3>1, m \in Nat, L \in Nat, CutsLaid
    <2> QED
      BY ONLY <2>2, <2>7
  <1> QED
    <2>1. \A b \in DOMAIN list : decodeBlock(list[b]) = blockOf(ps, b)
      BY ONLY <1>7, <1>9
    <2>2. \A b \in ToSet(list) : \E i \in 1 .. m : b = list[i]
      BY ONLY <1>7 DEF ToSet
    <2>3. \A b \in ToSet(list) : \A p \in ToSet(decodeBlock(b)) : p[1] \in b.firstDoc .. b.lastDoc /\ p[2] <= b.maxFreq
      <3> SUFFICES ASSUME NEW b \in ToSet(list), NEW p \in ToSet(decodeBlock(b))
                   PROVE  p[1] \in b.firstDoc .. b.lastDoc /\ p[2] <= b.maxFreq
        OBVIOUS
      <3>1. PICK i \in 1 .. m : b = list[i]
        BY ONLY <2>2, b \in ToSet(list)
      <3>2. p \in ToSet(decodeBlock(list[i]))
        BY ONLY <3>1, p \in ToSet(decodeBlock(b)), Zenon
      <3>3. p[1] \in list[i].firstDoc .. list[i].lastDoc /\ p[2] <= list[i].maxFreq
        BY ONLY <1>9, <3>2, i \in 1 .. m, Zenon
      <3> QED
        BY ONLY <3>1, <3>3, Zenon
    <2>4. \A b \in ToSet(list) : ToSet(b.data) \subseteq 0 .. 255
      BY ONLY <1>9, <2>2, Zenon
    <2> QED
      BY ONLY <1>5, <1>10, <2>1, <2>3, <2>4, Zenon DEF BlocksRoundTrip

\* ListsRoundTrip: every list that the codec takes decodes to what was encoded (postings.go:48 and 204).
THEOREM ListsComeBack == CodecSpec => []ListsRoundTrip
  <1>1. sample \in Samples => ListsRoundTrip
    <2>1. SUFFICES ASSUME sample \in Samples PROVE ListsRoundTrip
      OBVIOUS
    <2>2. Encodable(sample)
      BY <2>1, CodecAssumption
    <2> QED
      BY ONLY <2>2, StreamsRead, BlocksRead DEF ListsRoundTrip
  <1>2. sample \in Samples /\ [UNCHANGED sample]_sample => (sample \in Samples)'
    OBVIOUS
  <1> QED
    BY <1>1, <1>2, PTL DEF CodecSpec

-----------------------------------------------------------------------------
(***************************************************************************)
(* Merging segments.                                                       *)
(***************************************************************************)

\* A sequence, of whatever it holds.
Listed(s) == s \in Seq(ToSet(s))

\* A sealed segment: its live documents are among those it was built of.
Sealed(s) ==
  /\ s = [dict |-> s.dict, lists |-> s.lists, fwd |-> s.fwd, live |-> s.live, numDocs |-> s.numDocs]
  /\ s.numDocs \in Nat /\ s.live \in SUBSET (0 .. s.numDocs - 1)

\* The inputs of a merge are distinct segments in service, and a segment that is
\* rewritten alone has dead documents.
InputsOK(ss, inputs) ==
  /\ inputs \in Seq(1 .. Len(ss))
  /\ \A i, j \in 1 .. Len(inputs) : inputs[i] = inputs[j] => i = j
  /\ Len(inputs) = 1 => LiveDocs(ss[inputs[1]]) < ss[inputs[1]].numDocs

\* The inductive invariant of building, deleting and merging.
MergeInv ==
  /\ Listed(segs) /\ \A i \in 1 .. Len(segs) : Sealed(segs[i])
  /\ Listed(builder.docs)
  /\ merging = [inputs |-> merging.inputs, done |-> merging.done, perDoc |-> merging.perDoc,
                builder |-> merging.builder]
  /\ Listed(merging.builder.docs)
  /\ InputsOK(segs, merging.inputs)
  /\ merging.done \in Nat /\ (merging.perDoc # <<>> => merging.done < Len(merging.inputs))

\* A sequence has a length, and its places are the numbers up to it.
LEMMA ListedPlaces ==
  ASSUME NEW s, Listed(s)
  PROVE  Len(s) \in Nat /\ DOMAIN s = 1 .. Len(s) /\ s = [i \in 1 .. Len(s) |-> s[i]]
  BY DEF Listed

\* What is a sequence of something is a sequence of what it holds.
LEMMA ListedFrom ==
  ASSUME NEW X, NEW s \in Seq(X)
  PROVE  Listed(s)
  <1>1. Len(s) \in Nat /\ DOMAIN s = 1 .. Len(s) /\ s = [i \in 1 .. Len(s) |-> s[i]]
    OBVIOUS
  <1>2. \A i \in 1 .. Len(s) : s[i] \in ToSet(s)
    BY <1>1 DEF ToSet
  <1>3. PICK Y : Y = ToSet(s)
    OBVIOUS
  <1>4. s \in Seq(Y)
    BY <1>1, <1>2, <1>3
  <1> QED
    BY <1>3, <1>4 DEF Listed

\* One more element behind a sequence.
LEMMA AppendListed ==
  ASSUME NEW s, Listed(s), NEW x
  PROVE  /\ Listed(Append(s, x)) /\ Len(Append(s, x)) = Len(s) + 1
         /\ \A i \in 1 .. Len(s) : Append(s, x)[i] = s[i]
         /\ Append(s, x)[Len(s) + 1] = x
  <1>1. PICK X : X = ToSet(s) \cup {x}
    OBVIOUS
  <1>2. s \in Seq(X) /\ x \in X
    <2>1. PICK Y : Y = ToSet(s)
      OBVIOUS
    <2>2. s \in Seq(Y) /\ Y \in SUBSET X /\ x \in X
      BY <1>1, <2>1 DEF Listed
    <2> QED
      BY <2>2
  <1>3. Append(s, x) \in Seq(X) /\ Len(Append(s, x)) = Len(s) + 1
    BY <1>2
  <1>4. Listed(Append(s, x))
    BY <1>3, ListedFrom
  <1> QED
    BY <1>2, <1>3, <1>4

\* The dead documents of a segment are counted by a number.
LEMMA SealedCounts ==
  ASSUME NEW s, Sealed(s)
  PROVE  /\ s.numDocs \in Nat /\ IsFiniteSet(s.live)
         /\ LiveDocs(s) \in Nat /\ LiveDocs(s) <= s.numDocs /\ s.numDocs - LiveDocs(s) \in Nat
  <1>1. PICK n : n = s.numDocs
    OBVIOUS
  <1>2. n \in Nat /\ s.live \in SUBSET (0 .. n - 1)
    BY <1>1 DEF Sealed
  <1>3. IsFiniteSet(0 .. n - 1) /\ Cardinality(0 .. n - 1) = n
    BY <1>2, FS_Interval
  <1>4. PICK T : T = 0 .. n - 1
    OBVIOUS
  <1>5. IsFiniteSet(s.live) /\ Cardinality(s.live) <= Cardinality(T)
    BY <1>2, <1>3, <1>4, FS_Subset
  <1>6. Cardinality(s.live) \in Nat
    BY <1>5, FS_CardinalityType
  <1> QED
    BY <1>1, <1>2, <1>3, <1>4, <1>5, <1>6 DEF LiveDocs

\* A segment is built with all of its documents live.
LEMMA BuildSeals ==
  ASSUME NEW b, Listed(b.docs)
  PROVE  Sealed(Build(b)) /\ LiveDocs(Build(b)) = Build(b).numDocs
  <1>1. PICK n : n = Len(b.docs)
    OBVIOUS
  <1>2. n \in Nat
    BY <1>1, ListedPlaces
  <1>3. PICK s : s = Build(b)
    OBVIOUS
  <1>4. \E d, ls, fw : s = [dict |-> d, lists |-> ls, fwd |-> fw, live |-> 0 .. n - 1, numDocs |-> n]
    BY <1>1, <1>3, Zenon DEF Build
  <1>5. PICK d, ls, fw : s = [dict |-> d, lists |-> ls, fwd |-> fw, live |-> 0 .. n - 1, numDocs |-> n]
    BY <1>4
  <1>6. s.dict = d /\ s.lists = ls /\ s.fwd = fw /\ s.live = 0 .. n - 1 /\ s.numDocs = n
    BY <1>5
  <1>7. Sealed(s)
    BY <1>2, <1>5, <1>6 DEF Sealed
  <1>8. Cardinality(0 .. n - 1) = n
    BY <1>2, FS_Interval
  <1> QED
    BY <1>3, <1>6, <1>7, <1>8 DEF LiveDocs

\* Adding a document leaves a builder's documents a sequence.
LEMMA AddDocumentLists ==
  ASSUME NEW b, Listed(b.docs), NEW x, NEW tf
  PROVE  Listed(AddDocument(b, x, tf).docs)
  <1>1. AddDocument(b, x, tf).docs = Append(b.docs, x)
    BY DEF AddDocument
  <1> QED
    BY <1>1, AppendListed

\* What the copying of an input makes of a builder at document d.
CopyStep(s, perDoc, d, x) ==
  IF d - 1 \notin s.live THEN x ELSE AddDocument(x, Get(s.fwd, d - 1), perDoc[d - 1])

\* The builder after each of n documents.
Copies(b, s, perDoc, n, at) ==
  at = [d \in 0 .. n |-> IF d = 0 THEN b ELSE CopyStep(s, perDoc, d, at[d - 1])]

\* The states of the loop exist, whatever the number of documents.
LEMMA CopiesExist ==
  ASSUME NEW b, NEW s, NEW perDoc, NEW n \in Nat
  PROVE  \E at : Copies(b, s, perDoc, n, at)
  <1> DEFINE P == {m \in Nat : \E at : Copies(b, s, perDoc, m, at)}
  <1>1. 0 \in P
    <2> DEFINE at == [d \in 0 .. 0 |-> b]
    <2>1. Copies(b, s, perDoc, 0, at)
      BY DEF Copies
    <2> QED
      BY <2>1
  <1>2. ASSUME NEW m \in Nat, m \in P PROVE m + 1 \in P
    <2>1. PICK at : Copies(b, s, perDoc, m, at)
      BY <1>2
    <2> DEFINE longer == [d \in 0 .. m + 1 |-> IF d <= m THEN at[d] ELSE CopyStep(s, perDoc, d, at[m])]
    <2>2. longer = [d \in 0 .. m + 1 |-> longer[d]]
      OBVIOUS
    <2>3. ASSUME NEW d \in 0 .. m + 1
          PROVE  longer[d] = IF d = 0 THEN b ELSE CopyStep(s, perDoc, d, longer[d - 1])
      <3>1. CASE d <= m
        <4>1. d \in 0 .. m /\ longer[d] = at[d] /\ (d # 0 => longer[d - 1] = at[d - 1])
          BY <3>1
        <4>2. at[d] = IF d = 0 THEN b ELSE CopyStep(s, perDoc, d, at[d - 1])
          BY <2>1, <4>1 DEF Copies
        <4> QED
          BY <4>1, <4>2
      <3>2. CASE d = m + 1
        <4>1. longer[d] = CopyStep(s, perDoc, d, at[m]) /\ longer[d - 1] = at[m] /\ d # 0
          BY <3>2
        <4> QED
          BY <4>1
      <3> QED
        BY <3>1, <3>2
    <2> HIDE DEF longer
    <2>4. Copies(b, s, perDoc, m + 1, longer)
      BY <2>2, <2>3 DEF Copies
    <2> QED
      BY <2>4
  <1> HIDE DEF P
  <1>3. Nat \subseteq P
    <2>1. P \in SUBSET Nat
      BY DEF P
    <2> QED
      BY <1>1, <1>2, <2>1, NumberInduction
  <1> QED
    BY <1>3 DEF P

\* Copying an input leaves the documents of the merge's builder a sequence.
LEMMA CopiedLists ==
  ASSUME NEW b, Listed(b.docs), NEW s, s.numDocs \in Nat, NEW perDoc
  PROVE  Listed(copied(b, s, perDoc).docs)
  <1>1. PICK n \in Nat : n = s.numDocs
    OBVIOUS
  <1> DEFINE at == CHOOSE at : Copies(b, s, perDoc, n, at)
  <1>2. Copies(b, s, perDoc, n, at)
    <2>1. \E f : Copies(b, s, perDoc, n, f)
      BY CopiesExist
    <2> QED
      BY <2>1
  <1>3. copied(b, s, perDoc) = at[n]
    BY <1>1, Zenon DEF copied, Copies, CopyStep
  <1> HIDE DEF at
  <1> DEFINE P == {d \in Nat : d <= n => Listed(at[d].docs)}
  <1>4. 0 \in P
    BY <1>2 DEF Copies
  <1>5. ASSUME NEW d \in Nat, d \in P PROVE d + 1 \in P
    <2> SUFFICES ASSUME d + 1 <= n PROVE Listed(at[d + 1].docs)
      OBVIOUS
    <2>1. Listed(at[d].docs)
      BY <1>5
    <2>2. at[d + 1] = CopyStep(s, perDoc, d + 1, at[d])
      BY <1>2 DEF Copies
    <2> QED
      BY <2>1, <2>2, AddDocumentLists DEF CopyStep
  <1> HIDE DEF P
  <1>6. Nat \subseteq P
    <2>1. P \in SUBSET Nat
      BY DEF P
    <2> QED
      BY <1>4, <1>5, <2>1, NumberInduction
  <1> QED
    BY <1>3, <1>6 DEF P

\* The longest run the policy may take is a prefix of the sorted segments.
LEMMA BatchIsPrefix ==
  ASSUME NEW N \in Nat, NEW sorted \in [1 .. N -> 1 .. N]
  PROVE  \E n \in 0 .. N : batch(sorted) = SubSeq(sorted, 1, n)
  <1>1. sorted \in Seq(1 .. N) /\ Len(sorted) = N
    OBVIOUS
  <1> DEFINE fits(n) == /\ n <= MaxMergeAtOnce
                        /\ \A m \in 1 .. n :
                             \/ m = 1
                             \/ SumFunction([i \in 1 .. m |-> LiveDocs(segs[sorted[i]])]) <= MaxMergedDocs
             S == {n \in 0 .. Len(sorted) : fits(n)}
  <1>2. batch(sorted) = SubSeq(sorted, 1, Max(S))
    BY DEF batch
  <1>3. 0 \in S
    BY <1>1, PolicyAssumption
  <1>4. S \in SUBSET (0 .. N)
    BY <1>1
  <1> HIDE DEF S
  <1>5. IsFiniteSet(S) /\ S \in SUBSET Int
    <2>1. IsFiniteSet(0 .. N)
      BY FS_Interval
    <2>2. PICK T : T = 0 .. N
      OBVIOUS
    <2>3. IsFiniteSet(S)
      BY <1>4, <2>1, <2>2, FS_Subset
    <2> QED
      BY <1>4, <2>3
  <1>6. Max(S) \in S
    BY <1>3, <1>5, Extremes
  <1> QED
    BY <1>2, <1>4, <1>6

\* What the policy selects may be merged.
LEMMA SelectIsOK ==
  ASSUME Listed(segs), \A i \in 1 .. Len(segs) : Sealed(segs[i]), NEW b \in Select
  PROVE  InputsOK(segs, b)
  <1> DEFINE N == Len(segs)
             dirty == {i \in DOMAIN segs : tooManyDeletes(segs[i])}
  <1>1. N \in Nat /\ DOMAIN segs = 1 .. N
    BY ListedPlaces
  <1>2. CASE dirty # {}
    <2>1. b = <<Min(dirty)>>
      BY <1>2 DEF Select
    <2>2. dirty \in SUBSET (1 .. N) /\ dirty \in SUBSET Int
      BY <1>1
    <2>3. IsFiniteSet(dirty)
      <3>1. IsFiniteSet(1 .. N)
        BY <1>1, FS_Interval
      <3>2. PICK T : T = 1 .. N
        OBVIOUS
      <3> QED
        BY <2>2, <3>1, <3>2, FS_Subset
    <2>4. PICK m : m = Min(dirty)
      OBVIOUS
    <2>5. m \in dirty
      <3> HIDE DEF dirty
      <3> QED
        BY <1>2, <2>2, <2>3, <2>4, Extremes
    <2>6. m \in 1 .. N /\ tooManyDeletes(segs[m]) /\ Sealed(segs[m])
      BY <1>1, <2>5
    <2>7. LiveDocs(segs[m]) < segs[m].numDocs
      <3>1. PICK n, l : n = segs[m].numDocs /\ l = LiveDocs(segs[m])
        OBVIOUS
      <3>2. n \in Nat /\ l \in Nat /\ l <= n
        BY <2>6, <3>1, SealedCounts
      <3>3. n # 0 /\ (n - l) * 100 >= n * DeletesPctAllowed
        BY <2>6, <3>1 DEF tooManyDeletes
      <3>4. PICK q \in Nat : q = n * DeletesPctAllowed /\ q > 0
        <4>1. PICK p \in Nat \ {0} : p = DeletesPctAllowed
          BY PolicyAssumption
        <4>2. \A x, y \in Nat \ {0} : x * y > 0 /\ x * y \in Nat
          OBVIOUS
        <4> QED
          BY <3>2, <3>3, <4>1, <4>2
      <3>5. (n - l) * 100 >= q
        BY <3>3, <3>4
      <3>6. l < n
        BY <3>2, <3>4, <3>5
      <3> QED
        BY <3>1, <3>6
    <2>8. b \in Seq(1 .. N) /\ Len(b) = 1 /\ b[1] = m
      BY <2>1, <2>4, <2>6
    <2> QED
      BY <2>7, <2>8 DEF InputsOK
  <1>3. CASE dirty = {}
    <2>1. PICK o \in [1 .. N -> 1 .. N] :
             (\A i, j \in 1 .. N : i # j => o[i] # o[j]) /\ b = batch(o) /\ Len(b) >= 2
      BY <1>1, <1>3 DEF Select
    <2>2. PICK n \in 0 .. N : b = SubSeq(o, 1, n)
      BY <1>1, <2>1, BatchIsPrefix
    <2>3. o \in Seq(1 .. N) /\ Len(o) = N
      BY <1>1
    <2>4. b \in Seq(1 .. N) /\ Len(b) = n /\ \A i \in 1 .. n : b[i] = o[i]
      BY <1>1, <2>2, <2>3
    <2> QED
      BY <2>1, <2>4 DEF InputsOK
  <1> QED
    BY <1>2, <1>3

\* A delete leaves a sealed segment with its documents and no more live ones.
LEMMA LiveShrinks ==
  ASSUME NEW s, Sealed(s), NEW id \in s.live, NEW t, t = [s EXCEPT !.live = s.live \ {id}]
  PROVE  Sealed(t) /\ t.numDocs = s.numDocs /\ LiveDocs(t) <= LiveDocs(s)
  <1>1. t = [dict |-> s.dict, lists |-> s.lists, fwd |-> s.fwd, live |-> s.live \ {id}, numDocs |-> s.numDocs]
    BY DEF Sealed
  <1>2. t.dict = s.dict /\ t.lists = s.lists /\ t.fwd = s.fwd /\ t.live = s.live \ {id} /\ t.numDocs = s.numDocs
    BY <1>1
  <1>3. Sealed(t)
    BY <1>1, <1>2 DEF Sealed
  <1>4. t.live \in SUBSET s.live /\ IsFiniteSet(s.live)
    BY <1>2, SealedCounts
  <1>5. Cardinality(t.live) <= Cardinality(s.live)
    BY <1>4, FS_Subset
  <1> QED
    BY <1>2, <1>3, <1>5 DEF LiveDocs

\* The inputs of a merge stay what they are while segments come behind them and
\* documents are deleted.
LEMMA InputsStay ==
  ASSUME NEW ss, NEW tt, NEW inputs, InputsOK(ss, inputs), Len(ss) \in Nat, Len(tt) \in Nat, Len(ss) <= Len(tt),
         \A i \in 1 .. Len(ss) : /\ Sealed(ss[i]) /\ Sealed(tt[i])
                                 /\ tt[i].numDocs = ss[i].numDocs /\ LiveDocs(tt[i]) <= LiveDocs(ss[i])
  PROVE  InputsOK(tt, inputs)
  <1>1. inputs \in Seq(1 .. Len(ss)) /\ \A i, j \in 1 .. Len(inputs) : inputs[i] = inputs[j] => i = j
    BY DEF InputsOK
  <1>2. inputs \in Seq(1 .. Len(tt))
    <2>1. PICK X, Y : X = 1 .. Len(ss) /\ Y = 1 .. Len(tt)
      OBVIOUS
    <2>2. X \in SUBSET Y /\ inputs \in Seq(X)
      BY <1>1, <2>1
    <2>3. inputs \in Seq(Y)
      BY <2>2
    <2> QED
      BY <2>1, <2>3
  <1>3. ASSUME Len(inputs) = 1 PROVE LiveDocs(tt[inputs[1]]) < tt[inputs[1]].numDocs
    <2>1. PICK i, X : i = inputs[1] /\ X = 1 .. Len(ss)
      OBVIOUS
    <2>2. i \in 1 .. Len(ss)
      <3>1. inputs \in Seq(X) /\ Len(inputs) = 1
        BY <1>1, <1>3, <2>1
      <3>2. inputs[1] \in X
        BY <3>1
      <3> QED
        BY <2>1, <3>2
    <2>3. LiveDocs(ss[i]) < ss[i].numDocs
      BY <1>3, <2>1 DEF InputsOK
    <2>4. LiveDocs(ss[i]) \in Nat /\ LiveDocs(tt[i]) \in Nat /\ ss[i].numDocs \in Nat
      BY <2>2, SealedCounts
    <2> QED
      BY <2>1, <2>2, <2>3, <2>4
  <1> QED
    BY <1>1, <1>2, <1>3 DEF InputsOK

\* The segments after a merge: those that were not merged, and the new one.
LEMMA EndMergeSegments ==
  ASSUME MergeInv, EndMerge
  PROVE  \E S \in SUBSET (1 .. Len(segs)) : \E kept :
           /\ S = (1 .. Len(segs)) \ {merging.inputs[i] : i \in 1 .. Len(merging.inputs)}
           /\ kept = ascending(S)
           /\ Listed(segs') /\ Len(segs') = Cardinality(S) + 1
           /\ \A j \in 1 .. Cardinality(S) : segs'[j] = segs[kept[j]] /\ kept[j] \in S
           /\ segs'[Cardinality(S) + 1] = Build(merging.builder)
  <1> DEFINE N == Len(segs)
             S == DOMAIN segs \ ToSet(merging.inputs)
             kept == ascending(S)
             rest == [j \in DOMAIN kept |-> segs[kept[j]]]
             s == Build(merging.builder)
  <1>1. N \in Nat /\ DOMAIN segs = 1 .. N
    BY ListedPlaces DEF MergeInv
  <1>2. S = (1 .. N) \ {merging.inputs[i] : i \in 1 .. Len(merging.inputs)}
    <2>1. DOMAIN merging.inputs = 1 .. Len(merging.inputs)
      BY DEF MergeInv, InputsOK
    <2> QED
      BY <1>1, <2>1 DEF ToSet
  <1>3. S \in SUBSET (1 .. N)
    BY <1>2
  <1>4. segs' = Append(rest, s)
    BY DEF EndMerge
  <1> HIDE DEF S
  <1>5. kept \in Seq(S) /\ Len(kept) = Cardinality(S) /\ Cardinality(S) \in Nat
    BY <1>1, <1>3, AscendingIsWhole
  <1> HIDE DEF kept
  <1>6. DOMAIN kept = 1 .. Cardinality(S) /\ \A j \in 1 .. Cardinality(S) : kept[j] \in S
    BY <1>5
  <1>7. rest \in Seq({segs[i] : i \in 1 .. N}) /\ Len(rest) = Cardinality(S)
    <2>1. PICK X, n : X = {segs[i] : i \in 1 .. N} /\ n = Cardinality(S)
      OBVIOUS
    <2>2. \A j \in 1 .. n : segs[kept[j]] \in X
      BY <1>3, <1>6, <2>1
    <2>3. rest = [j \in 1 .. n |-> segs[kept[j]]] /\ n \in Nat
      BY <1>5, <1>6, <2>1
    <2> HIDE DEF rest
    <2>4. rest \in Seq(X) /\ Len(rest) = n
      BY <2>2, <2>3
    <2> QED
      BY <2>1, <2>4
  <1>8. \A j \in 1 .. Cardinality(S) : rest[j] = segs[kept[j]]
    BY <1>6
  <1> HIDE DEF rest, s
  <1>9. Listed(rest)
    BY <1>7, ListedFrom
  <1>10. /\ Listed(segs') /\ Len(segs') = Cardinality(S) + 1
         /\ \A j \in 1 .. Cardinality(S) : segs'[j] = segs[kept[j]]
         /\ segs'[Cardinality(S) + 1] = s
    BY <1>4, <1>7, <1>8, <1>9, AppendListed
  <1> QED
    BY <1>2, <1>3, <1>6, <1>10 DEF kept, s

\* No merge is under way at first and after a merge.
LEMMA NoInputs ==
  ASSUME NEW ss
  PROVE  /\ InputsOK(ss, NoMerge.inputs) /\ Listed(NoMerge.builder.docs) /\ Listed(NewBuilder.docs)
         /\ NoMerge = [inputs |-> NoMerge.inputs, done |-> NoMerge.done, perDoc |-> NoMerge.perDoc,
                       builder |-> NoMerge.builder]
         /\ NoMerge.inputs = <<>>
  <1>1. NoMerge.inputs = <<>> /\ NoMerge.builder.docs = <<>> /\ NewBuilder.docs = <<>>
    BY DEF NoMerge, NewBuilder
  <1>2. Listed(<<>>)
    BY ListedFrom, EmptySeq
  <1>3. InputsOK(ss, <<>>)
    <2>1. <<>> \in Seq(1 .. Len(ss)) /\ Len(<<>>) = 0
      OBVIOUS
    <2> QED
      BY <2>1 DEF InputsOK
  <1> QED
    BY <1>1, <1>2, <1>3 DEF NoMerge

\* Every step of building, deleting and merging keeps the invariant.
LEMMA MergeStep ==
  ASSUME MergeInv, [SegmentNext]_segmentVars
  PROVE  MergeInv'
  <1> DEFINE N == Len(segs)
  <1>1. /\ Listed(segs) /\ (\A i \in 1 .. N : Sealed(segs[i])) /\ Listed(builder.docs)
        /\ merging = [inputs |-> merging.inputs, done |-> merging.done, perDoc |-> merging.perDoc,
                      builder |-> merging.builder]
        /\ Listed(merging.builder.docs) /\ InputsOK(segs, merging.inputs)
        /\ merging.done \in Nat /\ (merging.perDoc # <<>> => merging.done < Len(merging.inputs))
    BY DEF MergeInv
  <1>2. N \in Nat /\ DOMAIN segs = 1 .. N /\ segs = [i \in 1 .. N |-> segs[i]]
    BY <1>1, ListedPlaces
  <1>3. ASSUME NEW p \in Pages, Index(p) PROVE MergeInv'
    <2>1. Listed(builder'.docs)
      BY <1>1, <1>3, AddDocumentLists DEF Index
    <2> QED
      BY <1>1, <1>3, <2>1 DEF MergeInv, Index
  <1>4. CASE SealSegment
    <2>1. PICK s : s = Build(builder)
      OBVIOUS
    <2>2. Sealed(s) /\ segs' = Append(segs, s) /\ builder' = NewBuilder /\ merging' = merging
      BY <1>1, <1>4, <2>1, BuildSeals DEF SealSegment
    <2>3. /\ Listed(segs') /\ Len(segs') = N + 1 /\ segs'[N + 1] = s
          /\ \A i \in 1 .. N : segs'[i] = segs[i]
      BY <1>1, <2>2, AppendListed
    <2>4. \A i \in 1 .. N + 1 : Sealed(segs'[i])
      BY <1>1, <1>2, <2>2, <2>3
    <2>5. InputsOK(segs', merging.inputs)
      <3>1. \A i \in 1 .. N : /\ Sealed(segs[i]) /\ Sealed(segs'[i]) /\ segs'[i].numDocs = segs[i].numDocs
                              /\ LiveDocs(segs'[i]) <= LiveDocs(segs[i])
        BY <1>1, <2>3, SealedCounts
      <3>2. Len(segs') \in Nat /\ N <= Len(segs')
        BY <1>2, <2>3
      <3> QED
        BY <1>1, <1>2, <3>1, <3>2, InputsStay
    <2>6. Listed(builder'.docs)
      BY <2>2, NoInputs
    <2> QED
      BY <1>1, <2>2, <2>3, <2>4, <2>5, <2>6 DEF MergeInv
  <1>5. ASSUME NEW i \in DOMAIN segs, NEW id \in segs[i].live, Delete(i, id) PROVE MergeInv'
    <2>1. PICK t : t = [segs[i] EXCEPT !.live = segs[i].live \ {id}]
      OBVIOUS
    <2>2. segs' = [segs EXCEPT ![i] = t] /\ builder' = builder /\ merging' = merging
      BY <1>5, <2>1 DEF Delete
    <2>3. Sealed(t) /\ t.numDocs = segs[i].numDocs /\ LiveDocs(t) <= LiveDocs(segs[i])
      BY <1>1, <1>2, <2>1, LiveShrinks
    <2>4. segs' = [j \in 1 .. N |-> IF j = i THEN t ELSE segs[j]]
      BY <1>2, <2>2
    <2>5. Listed(segs') /\ Len(segs') = N
      <3>1. PICK X : X = {segs[j] : j \in 1 .. N} \cup {t}
        OBVIOUS
      <3>2. segs' \in Seq(X) /\ Len(segs') = N
        BY <1>2, <2>4, <3>1
      <3> QED
        BY <3>2, ListedFrom
    <2>6. \A j \in 1 .. N : /\ Sealed(segs[j]) /\ Sealed(segs'[j]) /\ segs'[j].numDocs = segs[j].numDocs
                            /\ LiveDocs(segs'[j]) <= LiveDocs(segs[j])
      <3> SUFFICES ASSUME NEW j \in 1 .. N
                   PROVE  /\ Sealed(segs[j]) /\ Sealed(segs'[j]) /\ segs'[j].numDocs = segs[j].numDocs
                          /\ LiveDocs(segs'[j]) <= LiveDocs(segs[j])
        OBVIOUS
      <3>1. CASE j = i
        BY <1>1, <2>3, <2>4, <3>1
      <3>2. CASE j # i
        <4>1. segs'[j] = segs[j] /\ Sealed(segs[j])
          BY <1>1, <2>4, <3>2
        <4>2. LiveDocs(segs[j]) <= LiveDocs(segs[j])
          BY <4>1, SealedCounts
        <4> QED
          BY <4>1, <4>2
      <3> QED
        BY <3>1, <3>2
    <2>7. InputsOK(segs', merging.inputs)
      <3>1. Len(segs') \in Nat /\ N <= Len(segs')
        BY <1>2, <2>5
      <3> QED
        BY <1>1, <1>2, <2>6, <3>1, InputsStay
    <2> QED
      BY <1>1, <2>2, <2>5, <2>6, <2>7 DEF MergeInv
  <1>6. CASE StartMerge
    <2>1. PICK b \in Select : merging' = [NoMerge EXCEPT !.inputs = b]
      BY <1>6 DEF StartMerge
    <2>2. merging' = [inputs |-> b, done |-> 0, perDoc |-> <<>>, builder |-> NewBuilder]
      BY <2>1 DEF NoMerge
    <2>3. InputsOK(segs, b)
      BY <1>1, SelectIsOK
    <2>4. /\ merging'.inputs = b /\ merging'.builder = NewBuilder /\ Listed(NewBuilder.docs)
          /\ merging'.done = 0 /\ merging'.perDoc = <<>>
      BY <2>2, NoInputs
    <2>5. segs' = segs /\ builder' = builder
      BY <1>6 DEF StartMerge
    <2>6. merging' = [inputs |-> merging'.inputs, done |-> merging'.done, perDoc |-> merging'.perDoc,
                      builder |-> merging'.builder]
      BY <2>2
    <2> QED
      BY <1>1, <2>3, <2>4, <2>5, <2>6 DEF MergeInv
  <1>7. CASE MergeCollect
    <2>1. PICK x : merging' = [merging EXCEPT !.perDoc = x]
      BY <1>7, Zenon DEF MergeCollect
    <2>2. merging' = [inputs |-> merging.inputs, done |-> merging.done, perDoc |-> x, builder |-> merging.builder]
      BY <1>1, <2>1
    <2>3. /\ merging'.inputs = merging.inputs /\ merging'.builder = merging.builder /\ merging'.done = merging.done
          /\ merging' = [inputs |-> merging'.inputs, done |-> merging'.done, perDoc |-> merging'.perDoc,
                         builder |-> merging'.builder]
      BY <2>2
    <2>4. segs' = segs /\ builder' = builder /\ merging.done < Len(merging.inputs)
      BY <1>7 DEF MergeCollect
    <2> QED
      BY <1>1, <2>3, <2>4 DEF MergeInv
  <1>8. CASE MergeCopy
    <2>1. PICK at, x, n : /\ at = merging.inputs[merging.done + 1]
                          /\ x = copied(merging.builder, segs[at], merging.perDoc[1]) /\ n = merging.done + 1
      OBVIOUS
    <2>2. merging' = [merging EXCEPT !.done = n, !.perDoc = <<>>, !.builder = x]
      BY <1>8, <2>1 DEF MergeCopy
    <2>3. merging' = [inputs |-> merging.inputs, done |-> n, perDoc |-> <<>>, builder |-> x]
      BY <1>1, <2>2
    <2>4. /\ merging'.inputs = merging.inputs /\ merging'.builder = x /\ merging'.done = n /\ merging'.perDoc = <<>>
          /\ merging' = [inputs |-> merging'.inputs, done |-> merging'.done, perDoc |-> merging'.perDoc,
                         builder |-> merging'.builder]
      BY <2>3
    <2>5. segs' = segs /\ builder' = builder
      BY <1>8 DEF MergeCopy
    <2>6. n \in 1 .. Len(merging.inputs) /\ n \in Nat
      <3>1. merging.perDoc # <<>> /\ Len(merging.inputs) \in Nat
        BY <1>1, <1>8 DEF MergeCopy, InputsOK
      <3> QED
        BY <1>1, <2>1, <3>1
    <2>7. at \in 1 .. N
      <3>1. PICK X : X = 1 .. N
        OBVIOUS
      <3>2. merging.inputs \in Seq(X)
        BY <1>1, <3>1 DEF InputsOK
      <3> QED
        BY <2>1, <2>6, <3>1, <3>2
    <2>8. Listed(x.docs)
      <3>1. segs[at].numDocs \in Nat
        BY <1>1, <2>7, SealedCounts
      <3> QED
        BY <1>1, <2>1, <3>1, CopiedLists
    <2> QED
      BY <1>1, <2>4, <2>5, <2>6, <2>8 DEF MergeInv
  <1>9. CASE EndMerge
    <2>1. PICK S \in SUBSET (1 .. N) : \E kept :
            /\ Listed(segs') /\ Len(segs') = Cardinality(S) + 1
            /\ \A j \in 1 .. Cardinality(S) : segs'[j] = segs[kept[j]] /\ kept[j] \in S
            /\ segs'[Cardinality(S) + 1] = Build(merging.builder)
      BY <1>9, EndMergeSegments
    <2>2. PICK kept :
            /\ Listed(segs') /\ Len(segs') = Cardinality(S) + 1
            /\ \A j \in 1 .. Cardinality(S) : segs'[j] = segs[kept[j]] /\ kept[j] \in S
            /\ segs'[Cardinality(S) + 1] = Build(merging.builder)
      BY <2>1
    <2>3. Cardinality(S) \in Nat
      BY <1>2, AscendingIsWhole
    <2>4. Sealed(Build(merging.builder))
      BY <1>1, BuildSeals
    <2>5. \A j \in 1 .. Cardinality(S) + 1 : Sealed(segs'[j])
      BY <1>1, <2>2, <2>3, <2>4
    <2>6. merging' = NoMerge /\ builder' = builder /\ NoMerge.done = 0 /\ NoMerge.perDoc = <<>>
      BY <1>9 DEF EndMerge, NoMerge
    <2> QED
      BY <1>1, <2>2, <2>5, <2>6, NoInputs DEF MergeInv
  <1>10. CASE UNCHANGED segmentVars
    BY <1>1, <1>10 DEF MergeInv, segmentVars
  <1> QED
    BY <1>3, <1>4, <1>5, <1>6, <1>7, <1>8, <1>9, <1>10 DEF SegmentNext

\* The bookkeeping of segments and merges holds through indexing, deleting and merging
\* (segment.go and policy.go): a merge works on distinct segments in service, and one
\* that rewrites a single segment has dead documents to drop.
THEOREM MergeCorrect == SegmentSpec => []MergeInv
  <1>1. SegmentInit => MergeInv
    <2> SUFFICES ASSUME SegmentInit PROVE MergeInv
      OBVIOUS
    <2>1. segs = <<>> /\ builder = NewBuilder /\ merging = NoMerge
      BY DEF SegmentInit
    <2>2. Listed(<<>>) /\ Len(<<>>) = 0
      BY ListedFrom, EmptySeq
    <2>3. NoMerge.done = 0 /\ NoMerge.perDoc = <<>>
      BY DEF NoMerge
    <2> QED
      BY <2>1, <2>2, <2>3, NoInputs DEF MergeInv
  <1>2. MergeInv /\ [SegmentNext]_segmentVars => MergeInv'
    BY MergeStep
  <1> QED
    BY <1>1, <1>2, PTL DEF SegmentSpec

\* The dead documents of a sequence of segments, one by one and together.
DeadIn(ss) == [i \in DOMAIN ss |-> ss[i].numDocs - LiveDocs(ss[i])]

\* Their number is a weight.
LEMMA DeadWeight ==
  ASSUME NEW ss, Listed(ss), \A i \in 1 .. Len(ss) : Sealed(ss[i])
  PROVE  /\ SumFunction(DeadIn(ss)) = Weight(DeadIn(ss), 1 .. Len(ss))
         /\ IsFiniteSet(1 .. Len(ss))
         /\ \A i \in 1 .. Len(ss) : DeadIn(ss)[i] = ss[i].numDocs - LiveDocs(ss[i]) /\ DeadIn(ss)[i] \in Nat
  <1>1. Len(ss) \in Nat /\ DOMAIN ss = 1 .. Len(ss)
    BY ListedPlaces
  <1>2. ASSUME NEW i \in 1 .. Len(ss)
        PROVE  DeadIn(ss)[i] = ss[i].numDocs - LiveDocs(ss[i]) /\ DeadIn(ss)[i] \in Nat
    BY <1>1, SealedCounts DEF DeadIn
  <1>3. PICK S : S = 1 .. Len(ss)
    OBVIOUS
  <1>4. IsFiniteSet(S)
    BY <1>1, <1>3, FS_Interval
  <1>5. DOMAIN DeadIn(ss) = S
    BY <1>1, <1>3 DEF DeadIn
  <1>6. SumFunction(DeadIn(ss)) = Weight(DeadIn(ss), S)
    BY <1>2, <1>3, <1>4, <1>5, SumIsItsWeight
  <1> QED
    BY <1>2, <1>3, <1>4, <1>6

\* A merge of several segments leaves fewer of them.
LEMMA FewerSegments ==
  ASSUME MergeInv, EndMerge, Len(merging.inputs) >= 2
  PROVE  Len(segs') < Len(segs)
  <1> DEFINE N == Len(segs)
             a == merging.inputs[1]
             b == merging.inputs[2]
  <1>1. N \in Nat
    BY ListedPlaces DEF MergeInv
  <1>2. PICK S \in SUBSET (1 .. N) :
          /\ S = (1 .. N) \ {merging.inputs[i] : i \in 1 .. Len(merging.inputs)}
          /\ Len(segs') = Cardinality(S) + 1
    BY EndMergeSegments
  <1>3. Len(merging.inputs) \in Nat /\ a \in 1 .. N /\ b \in 1 .. N /\ a # b
    <2>1. PICK X : X = 1 .. N
      OBVIOUS
    <2>2. /\ merging.inputs \in Seq(X) /\ Len(merging.inputs) \in Nat
          /\ \A i, j \in 1 .. Len(merging.inputs) : merging.inputs[i] = merging.inputs[j] => i = j
      BY <2>1 DEF MergeInv, InputsOK
    <2>3. 1 \in 1 .. Len(merging.inputs) /\ 2 \in 1 .. Len(merging.inputs)
      BY <2>2
    <2>4. a \in X /\ b \in X /\ a # b
      BY <2>2, <2>3
    <2> QED
      BY <2>1, <2>2, <2>4
  <1>4. a \notin S /\ b \notin S
    <2>1. 1 \in 1 .. Len(merging.inputs) /\ 2 \in 1 .. Len(merging.inputs)
      BY <1>3
    <2> QED
      BY <1>2, <2>1
  <1> HIDE DEF a, b, N
  <1>5. PICK T : T = 1 .. N
    OBVIOUS
  <1>6. IsFiniteSet(T) /\ Cardinality(T) = N
    <2>1. IsFiniteSet(1 .. N) /\ Cardinality(1 .. N) = N
      BY <1>1, FS_Interval, SMTT(30)
    <2> QED
      BY <1>5, <2>1
  <1>7. IsFiniteSet(T \ {a}) /\ Cardinality(T \ {a}) = N - 1
    BY <1>3, <1>5, <1>6, FS_RemoveElement
  <1>8. IsFiniteSet((T \ {a}) \ {b}) /\ Cardinality((T \ {a}) \ {b}) = N - 1 - 1
    <2>1. b \in T \ {a}
      BY <1>3, <1>5
    <2> QED
      BY <1>7, <2>1, FS_RemoveElement
  <1>9. S \in SUBSET ((T \ {a}) \ {b})
    BY <1>4, <1>5
  <1>10. Cardinality(S) <= N - 2 /\ Cardinality(S) \in Nat
    <2>1. PICK U : U = (T \ {a}) \ {b}
      OBVIOUS
    <2>2. Cardinality(S) <= Cardinality(U) /\ IsFiniteSet(S)
      BY <1>8, <1>9, <2>1, FS_Subset
    <2>3. Cardinality(S) \in Nat
      BY <2>2, FS_CardinalityType
    <2> QED
      BY <1>1, <1>8, <2>1, <2>2, <2>3
  <1> QED
    BY <1>1, <1>2, <1>10 DEF N

\* A segment that is rewritten alone loses its dead documents.
LEMMA FewerDead ==
  ASSUME MergeInv, MergeInv', EndMerge, Len(merging.inputs) = 1
  PROVE  SumFunction(DeadIn(segs')) < SumFunction(DeadIn(segs))
  <1> DEFINE N == Len(segs)
             a == merging.inputs[1]
             f == DeadIn(segs)
             g == DeadIn(segs')
  <1>1. N \in Nat
    BY ListedPlaces DEF MergeInv
  <1>2. PICK S \in SUBSET (1 .. N) : \E kept :
          /\ S = (1 .. N) \ {merging.inputs[i] : i \in 1 .. Len(merging.inputs)}
          /\ kept = ascending(S)
          /\ Listed(segs') /\ Len(segs') = Cardinality(S) + 1
          /\ \A j \in 1 .. Cardinality(S) : segs'[j] = segs[kept[j]] /\ kept[j] \in S
          /\ segs'[Cardinality(S) + 1] = Build(merging.builder)
    BY EndMergeSegments
  <1>3. PICK kept :
          /\ S = (1 .. N) \ {merging.inputs[i] : i \in 1 .. Len(merging.inputs)}
          /\ kept = ascending(S)
          /\ Listed(segs') /\ Len(segs') = Cardinality(S) + 1
          /\ \A j \in 1 .. Cardinality(S) : segs'[j] = segs[kept[j]] /\ kept[j] \in S
          /\ segs'[Cardinality(S) + 1] = Build(merging.builder)
    BY <1>2
  <1> DEFINE c == Cardinality(S)
  <1>4. a \in 1 .. N /\ LiveDocs(segs[a]) < segs[a].numDocs
    <2>1. PICK X : X = 1 .. N
      OBVIOUS
    <2>2. merging.inputs \in Seq(X) /\ LiveDocs(segs[a]) < segs[a].numDocs
      BY <2>1 DEF MergeInv, InputsOK
    <2> QED
      BY <2>1, <2>2
  <1>5. S = (1 .. N) \ {a} /\ a \notin S /\ 1 .. N = S \cup {a}
    <2>1. {merging.inputs[i] : i \in 1 .. Len(merging.inputs)} = {a}
      OBVIOUS
    <2> QED
      BY <1>3, <1>4, <2>1
  <1> HIDE DEF a, f, g, N, c
  <1>6. /\ IsFiniteSet(S) /\ c \in Nat /\ kept \in Seq(S) /\ Len(kept) = c
        /\ \A i, j \in 1 .. c : kept[i] = kept[j] => i = j
        /\ \A x \in S : \E i \in 1 .. c : kept[i] = x
    <2>1. S \in SUBSET (1 .. N) /\ kept = ascending(S)
      BY <1>3
    <2>2. /\ IsFiniteSet(S) /\ Cardinality(S) \in Nat
          /\ ascending(S) \in Seq(S) /\ Len(ascending(S)) = Cardinality(S)
          /\ \A i, j \in 1 .. Cardinality(S) : ascending(S)[i] = ascending(S)[j] => i = j
          /\ \A x \in S : \E i \in 1 .. Cardinality(S) : ascending(S)[i] = x
      BY <1>1, <2>1, AscendingIsWhole
    <2> QED
      BY <2>1, <2>2 DEF c
  <1>7. /\ SumFunction(f) = Weight(f, 1 .. N)
        /\ \A i \in 1 .. N : f[i] = segs[i].numDocs - LiveDocs(segs[i]) /\ f[i] \in Nat
    BY DeadWeight DEF MergeInv, f, N
  <1>8. /\ SumFunction(g) = Weight(g, 1 .. c + 1)
        /\ \A i \in 1 .. c + 1 : g[i] = segs'[i].numDocs - LiveDocs(segs'[i]) /\ g[i] \in Nat
    <2>1. Listed(segs') /\ \A i \in 1 .. Len(segs') : Sealed(segs'[i])
      BY DEF MergeInv
    <2>2. /\ SumFunction(g) = Weight(g, 1 .. Len(segs'))
          /\ \A i \in 1 .. Len(segs') : g[i] = segs'[i].numDocs - LiveDocs(segs'[i]) /\ g[i] \in Nat
      BY <2>1, DeadWeight DEF g
    <2> QED
      BY <1>3, <2>2 DEF c
  <1>9. f[a] \in Nat /\ f[a] > 0
    <2>1. Sealed(segs[a])
      BY <1>4 DEF MergeInv, N
    <2>2. LiveDocs(segs[a]) \in Nat /\ segs[a].numDocs \in Nat
      BY <2>1, SealedCounts
    <2> QED
      BY <1>4, <1>7, <2>2
  <1>10. g[c + 1] = 0
    <2>1. PICK s : s = Build(merging.builder)
      OBVIOUS
    <2>2. Sealed(s) /\ LiveDocs(s) = s.numDocs
      BY <2>1, BuildSeals DEF MergeInv
    <2>3. s.numDocs \in Nat
      BY <2>2, SealedCounts
    <2>4. c + 1 \in 1 .. c + 1 /\ segs'[c + 1] = s
      BY <1>3, <1>6, <2>1 DEF c
    <2> QED
      BY <1>8, <2>2, <2>3, <2>4
  <1>11. Weight(f, 1 .. N) = f[a] + Weight(f, S) /\ Weight(f, S) \in Nat
    <2>1. IsFiniteSet(1 .. N)
      BY <1>1, FS_Interval
    <2>2. PICK T : T = 1 .. N
      OBVIOUS
    <2>3. /\ \A U \in SUBSET T : Weight(f, U) \in Nat
          /\ \A U \in SUBSET T : \A x \in T : x \notin U => Weight(f, U \cup {x}) = f[x] + Weight(f, U)
      <3>1. IsFiniteSet(T) /\ \A x \in T : f[x] \in Nat
        BY <1>7, <2>1, <2>2
      <3> QED
        BY <3>1, WeightAdds
    <2>4. Weight(f, S \cup {a}) = f[a] + Weight(f, S) /\ Weight(f, S) \in Nat
      BY <1>4, <1>5, <2>2, <2>3
    <2> QED
      BY <1>5, <2>4
  <1>12. Weight(g, 1 .. c + 1) = Weight(g, 1 .. c)
    <2>1. PICK T, U : T = 1 .. c + 1 /\ U = 1 .. c
      OBVIOUS
    <2>2. IsFiniteSet(T)
      BY <1>6, <2>1, FS_Interval
    <2>3. /\ \A V \in SUBSET T : Weight(g, V) \in Nat
          /\ \A V \in SUBSET T : \A x \in T : x \notin V => Weight(g, V \cup {x}) = g[x] + Weight(g, V)
      <3>1. IsFiniteSet(T) /\ \A x \in T : g[x] \in Nat
        BY <1>8, <2>1, <2>2
      <3> QED
        BY <3>1, WeightAdds
    <2>4. U \in SUBSET T /\ c + 1 \in T /\ c + 1 \notin U /\ T = U \cup {c + 1}
      BY <1>6, <2>1
    <2>5. Weight(g, U \cup {c + 1}) = Weight(g, U)
      <3>1. Weight(g, U \cup {c + 1}) = g[c + 1] + Weight(g, U) /\ Weight(g, U) \in Nat
        BY <2>3, <2>4
      <3> QED
        BY <1>10, <3>1
    <2> QED
      BY <2>1, <2>4, <2>5
  <1>13. Weight(f, S) = Weight(g, 1 .. c)
    <2>1. PICK U : U = 1 .. c
      OBVIOUS
    <2>2. IsFiniteSet(U)
      BY <1>6, <2>1, FS_Interval
    <2>3. \A j \in U : g[j] \in Nat
      BY <1>6, <1>8, <2>1
    <2>4. kept \in [U -> S] /\ \A i, j \in U : kept[i] = kept[j] => i = j
      BY <1>6, <2>1
    <2>5. \A j \in U : f[kept[j]] = g[j]
      <3> SUFFICES ASSUME NEW j \in 1 .. c PROVE f[kept[j]] = g[j]
        BY <2>1
      <3>1. segs'[j] = segs[kept[j]] /\ kept[j] \in 1 .. N /\ j \in 1 .. c + 1
        BY <1>3, <1>5, <1>6 DEF c
      <3>2. g[j] = segs'[j].numDocs - LiveDocs(segs'[j])
        BY <1>8, <3>1
      <3>3. f[kept[j]] = segs[kept[j]].numDocs - LiveDocs(segs[kept[j]])
        BY <1>7, <3>1
      <3> QED
        BY <3>1, <3>2, <3>3
    <2>6. \A y \in S : (\A j \in U : kept[j] # y) => f[y] = 0
      BY <1>6, <2>1
    <2>7. Weight(f, S) = Weight(g, U)
      <3> HIDE DEF c
      <3> QED
        BY ONLY <2>2, <2>3, <2>4, <2>5, <2>6, WeightCarries
    <2> QED
      BY <2>1, <2>7
  <1>14. SumFunction(g) = Weight(f, S) /\ SumFunction(f) = f[a] + Weight(f, S)
    BY <1>7, <1>8, <1>11, <1>12, <1>13
  <1>15. SumFunction(g) < SumFunction(f)
    BY <1>9, <1>11, <1>14
  <1> QED
    BY <1>15 DEF f, g

\* A finished merge has fewer segments or fewer dead documents than it found, whatever was
\* indexed and deleted while it ran (Select and Merge).
THEOREM MergesGain == SegmentSpec => MergeGains
  <1>1. MergeInv /\ MergeInv' /\ [SegmentNext]_segmentVars
        => [merging.inputs # <<>> /\ merging'.inputs = <<>>
              => Len(segs') < Len(segs) \/ Dead' < Dead]_segmentVars
    <2> SUFFICES ASSUME MergeInv, MergeInv', SegmentNext, merging.inputs # <<>>, merging'.inputs = <<>>
                 PROVE  Len(segs') < Len(segs) \/ Dead' < Dead
      OBVIOUS
    <2>1. Dead = SumFunction(DeadIn(segs)) /\ Dead' = SumFunction(DeadIn(segs'))
      BY DEF Dead, DeadIn
    <2>2. CASE EndMerge
      <3>1. Len(merging.inputs) \in Nat /\ Len(merging.inputs) # 0
        BY DEF MergeInv, InputsOK
      <3>2. CASE Len(merging.inputs) = 1
        <4>1. SumFunction(DeadIn(segs')) < SumFunction(DeadIn(segs))
          BY <2>2, <3>2, FewerDead
        <4> QED
          BY <2>1, <4>1
      <3>3. CASE Len(merging.inputs) >= 2
        BY <2>2, <3>3, FewerSegments
      <3>4. Len(merging.inputs) = 1 \/ Len(merging.inputs) >= 2
        <4>1. \A n \in Nat : n # 0 => n = 1 \/ n >= 2
          OBVIOUS
        <4> QED
          BY <3>1, <4>1, Zenon
      <3> QED
        BY <3>2, <3>3, <3>4, Zenon
    <2>3. CASE ~EndMerge
      <3>1. ASSUME merging' = merging PROVE FALSE
        BY <3>1
      <3>2. CASE StartMerge
        BY <3>2 DEF StartMerge
      <3>3. CASE MergeCollect \/ MergeCopy
        <4>1. \E x, y, z : merging' = [merging EXCEPT !.done = x, !.perDoc = y, !.builder = z]
          <5>1. merging = [inputs |-> merging.inputs, done |-> merging.done, perDoc |-> merging.perDoc,
                           builder |-> merging.builder]
            BY DEF MergeInv
          <5>2. CASE MergeCopy
            BY <5>2, Zenon DEF MergeCopy
          <5>3. CASE MergeCollect
            <6>1. PICK y : merging' = [merging EXCEPT !.perDoc = y]
              BY <5>3, Zenon DEF MergeCollect
            <6>2. merging' = [merging EXCEPT !.done = merging.done, !.perDoc = y, !.builder = merging.builder]
              BY <5>1, <6>1
            <6> QED
              BY <6>2
          <5> QED
            BY <3>3, <5>2, <5>3
        <4>2. merging'.inputs = merging.inputs
          BY <4>1 DEF MergeInv
        <4> QED
          BY <4>2
      <3> QED
        BY <2>3, <3>1, <3>2, <3>3 DEF SegmentNext, Index, SealSegment, Delete
    <2> QED
      BY <2>2, <2>3
  <1> QED
    BY <1>1, MergeCorrect, PTL DEF SegmentSpec, MergeGains

-----------------------------------------------------------------------------
(***************************************************************************)
(* Block-Max WAND.                                                         *)
(***************************************************************************)

\* The table and the blocks of a list agree with the postings it was built from.
ListOK(list, ps) ==
  /\ Len(list) \in Nat /\ DOMAIN list = 1 .. Len(list)
  /\ \A b \in 1 .. Len(list) :
       /\ list[b].count \in Nat \ {0}
       /\ \A i \in 1 .. list[b].count : decodeBlock(list[b])[i] \in ToSet(ps)
       /\ \A i, j \in 1 .. list[b].count : i < j => decodeBlock(list[b])[i][1] < decodeBlock(list[b])[j][1]
       /\ list[b].lastDoc = decodeBlock(list[b])[list[b].count][1]
       /\ \A i \in 1 .. list[b].count : decodeBlock(list[b])[i][2] <= list[b].maxFreq
       /\ \E i \in 1 .. list[b].count : decodeBlock(list[b])[i][2] = list[b].maxFreq
  /\ \A b, c \in 1 .. Len(list) : b < c =>
       \A i \in 1 .. list[c].count : list[b].lastDoc < decodeBlock(list[c])[i][1]
  /\ \A p \in ToSet(ps) : \E b \in 1 .. Len(list) : \E i \in 1 .. list[b].count : p = decodeBlock(list[b])[i]

\* A cursor stands on document d, in a decoded block that the shallow pointer has not passed.
CursorOn(list, c, d) ==
  /\ c = [blockIdx |-> c.blockIdx, inBlock |-> c.inBlock, docs |-> c.docs, decoded |-> TRUE,
          shallowIdx |-> c.shallowIdx]
  /\ c.blockIdx \in 1 .. Len(list) /\ c.shallowIdx \in 1 .. c.blockIdx
  /\ c.docs = decodeBlock(list[c.blockIdx])
  /\ c.inBlock \in 1 .. list[c.blockIdx].count
  /\ c.docs[c.inBlock][1] = d

\* The documents of the terms that score at all.
Docs == UNION {{given[t][i][1] : i \in DOMAIN given[t]} : t \in weighty}

\* Term t has document d.
Holds(t, d) == \E p \in ToSet(given[t]) : p[1] = d

\* The loop still has d before it: no term has moved past it.
Awaited(d) == \A t \in QueryTerms : Holds(t, d) => ~done[t] /\ doc[t] <= d

\* All of a full heap is better than x.
Beaten(S, x) == Cardinality(S) = k /\ \A h \in S : better(h, x)

\* Nothing can change about d: its hit is in the heap, or all of a full heap is better.
Decided(d) == hitOf(d) \in top \/ Beaten(top, hitOf(d))

\* The bound of the terms that stand at or before d.
LiveBound(d) == SumFunction([t \in {u \in QueryTerms : ~done[u] /\ doc[u] <= d} |-> maxScore[t]])

\* What a call holds fixed.
CallOK ==
  /\ given \in [QueryTerms -> PostingLists] /\ k \in Nat \ {0}
  /\ lists = [t \in QueryTerms |-> Encode(given[t])]
  /\ maxScore = [t \in QueryTerms |-> IF lists[t] = <<>> THEN 0 ELSE Scorer[t][MaxFreq(lists[t])]]

\* Every live term stands on its document.
CursorsOK ==
  /\ done \in [QueryTerms -> BOOLEAN] /\ DOMAIN doc = QueryTerms /\ DOMAIN cursor = QueryTerms
  /\ \A t \in QueryTerms : ~done[t] => CursorOn(lists[t], cursor[t], doc[t])

\* The heap holds hits behind every live term, and the threshold is its root's score.
HeapOK ==
  /\ IsFiniteSet(top) /\ Cardinality(top) <= k
  /\ \A h \in top : \E d \in Docs : h = hitOf(d)
  /\ \A h \in top, t \in QueryTerms : ~done[t] => h.doc < doc[t]
  /\ threshold = IF Cardinality(top) = k THEN rootScore(top) ELSE 0

\* A document is still before the loop, or decided and out of reach of every pivot.
CoverOK == \A d \in Docs : Awaited(d) \/ (Decided(d) /\ LiveBound(d) <= threshold)

\* The inductive invariant of the loop.
WandInv == IF returned THEN WandIsTopK ELSE CallOK /\ CursorsOK /\ HeapOK /\ CoverOK

\* The list that Encode builds of postings that read back.
LEMMA ListIsOK ==
  ASSUME NEW ps, ps \in Seq(Pairs), \A i, j \in DOMAIN ps : i < j => ps[i][1] < ps[j][1],
         BlocksRoundTrip(ps)
  PROVE  ListOK(Encode(ps), ps) /\ (Encode(ps) = <<>> <=> ps = <<>>)
  <1> DEFINE list == Encode(ps)
             q(b) == blockOf(ps, b)
  <1>1. PICK L \in Nat : L = Len(ps) /\ DOMAIN ps = 1 .. L
    OBVIOUS
  <1>2. BlockSize \in Nat \ {0}
    BY CodecAssumption
  <1>3. PICK m : m = (L + BlockSize - 1) \div BlockSize
    OBVIOUS
  <1>4. /\ m \in Nat
        /\ \A b \in 1 .. m : /\ (b - 1) * BlockSize \in Nat /\ b * BlockSize \in Nat
                             /\ (b - 1) * BlockSize < L /\ (b - 1) * BlockSize < b * BlockSize
        /\ \A b, c \in 1 .. m : b < c => b * BlockSize <= (c - 1) * BlockSize
        /\ \A i \in 1 .. L : \E b \in 1 .. m : (b - 1) * BlockSize < i /\ i <= b * BlockSize
    BY <1>2, <1>3, Cuts
  <1>5. list = [b \in 1 .. m |-> encodeBlock(q(b))]
    <2>1. ~ \E i \in 1 .. Len(ps) - 1 : ps[i + 1][1] <= ps[i][1]
      <3> SUFFICES ASSUME NEW i \in 1 .. Len(ps) - 1 PROVE ~ (ps[i + 1][1] <= ps[i][1])
        OBVIOUS
      <3>1. i \in DOMAIN ps /\ i + 1 \in DOMAIN ps /\ i < i + 1
        BY <1>1
      <3>2. PICK u, v \in Nat : u = ps[i][1] /\ v = ps[i + 1][1]
        BY <3>1 DEF Pairs
      <3>3. u < v
        BY <3>1, <3>2
      <3> QED
        BY ONLY u \in Nat, v \in Nat, <3>2, <3>3
    <2> QED
      BY <1>1, <1>3, <2>1 DEF Encode
  <1>6. Len(list) = m /\ DOMAIN list = 1 .. m /\ \A b \in 1 .. m : list[b] = encodeBlock(q(b))
    BY <1>4, <1>5
  <1>7. \A b \in 1 .. m : decodeBlock(list[b]) = q(b)
    BY <1>6 DEF BlocksRoundTrip
  <1> HIDE DEF q, list
  <1>8. ASSUME NEW b \in 1 .. m
        PROVE  \E n \in Nat \ {0}, lo \in Nat :
                 /\ lo = (b - 1) * BlockSize
                 /\ lo < L /\ n = (IF b * BlockSize <= L THEN b * BlockSize ELSE L) - lo
                 /\ q(b) \in Seq(Pairs) /\ Len(q(b)) = n
                 /\ \A i \in 1 .. n : lo + i \in 1 .. L /\ q(b)[i] = ps[lo + i]
    <2>1. PICK lo \in Nat, e \in Nat : lo = (b - 1) * BlockSize /\ e = b * BlockSize /\ lo < e /\ lo < Len(ps)
      BY <1>1, <1>4
    <2>2. PICK hi \in Nat : hi = IF e <= L THEN e ELSE L
      OBVIOUS
    <2>3. /\ lo < hi /\ hi <= L
          /\ blockOf(ps, b) \in Seq(Pairs) /\ Len(blockOf(ps, b)) = hi - lo
          /\ \A i \in 1 .. hi - lo : lo + i \in 1 .. L /\ blockOf(ps, b)[i] = ps[lo + i]
      <3>1. Len(ps) = L /\ lo < L /\ ps \in Seq(Pairs)
        BY <1>1, <2>1
      <3>2. CutAt(b, lo, e)
        BY ONLY <2>1 DEF CutAt
      <3> QED
        BY ONLY <2>2, <3>1, <3>2, L \in Nat, lo \in Nat, e \in Nat, hi \in Nat, BlockIsStretch
    <2>4. PICK n \in Nat \ {0} : n = hi - lo
      BY ONLY lo \in Nat, hi \in Nat, <2>3
    <2> QED
      BY ONLY n \in Nat \ {0}, lo \in Nat, <1>1, <2>1, <2>2, <2>3, <2>4 DEF q
  <1>9. ASSUME NEW b \in 1 .. m
        PROVE  /\ list[b].count = Len(q(b)) /\ list[b].count \in Nat \ {0}
               /\ list[b].lastDoc = q(b)[list[b].count][1]
               /\ \A i \in 1 .. list[b].count : q(b)[i][2] <= list[b].maxFreq
               /\ \E i \in 1 .. list[b].count : q(b)[i][2] = list[b].maxFreq
    <2>1. q(b) \in Seq(Pairs) /\ Len(q(b)) \in Nat \ {0}
      BY <1>8
    <2>2. PICK r : r = q(b) /\ r \in Seq(Pairs) /\ list[b] = encodeBlock(r)
      BY <1>6, <2>1
    <2>3. PICK n \in Nat \ {0} : n = Len(r)
      BY <2>1, <2>2
    <2>4. /\ list[b].count = n /\ list[b].lastDoc = r[n][1]
          /\ \A i \in 1 .. n : r[i][2] <= list[b].maxFreq
          /\ \E i \in 1 .. n : r[i][2] = list[b].maxFreq
      BY ONLY n \in Nat \ {0}, <2>2, <2>3, BlockTells
    <2> QED
      BY ONLY n \in Nat \ {0}, <2>2, <2>3, <2>4
  <1>10. ASSUME NEW b \in 1 .. m, NEW i \in 1 .. list[b].count, NEW j \in 1 .. list[b].count, i < j
         PROVE  q(b)[i][1] < q(b)[j][1]
    <2>1. PICK n \in Nat \ {0}, lo \in Nat :
                 Len(q(b)) = n /\ \A x \in 1 .. n : lo + x \in 1 .. L /\ q(b)[x] = ps[lo + x]
      BY <1>8
    <2>2. i \in 1 .. n /\ j \in 1 .. n
      BY <1>9, <2>1
    <2>3. lo + i \in DOMAIN ps /\ lo + j \in DOMAIN ps /\ lo + i < lo + j
      BY ONLY <1>1, <1>10, <2>1, <2>2
    <2> QED
      BY <2>1, <2>2, <2>3
  <1>11. ASSUME NEW b \in 1 .. m, NEW i \in 1 .. list[b].count PROVE q(b)[i] \in ToSet(ps)
    <2>1. PICK n \in Nat \ {0}, lo \in Nat :
                 Len(q(b)) = n /\ \A x \in 1 .. n : lo + x \in 1 .. L /\ q(b)[x] = ps[lo + x]
      BY <1>8
    <2>2. i \in 1 .. n
      BY <1>9, <2>1
    <2>3. lo + i \in DOMAIN ps /\ q(b)[i] = ps[lo + i]
      BY <1>1, <2>1, <2>2
    <2> QED
      BY <2>3 DEF ToSet
  <1>12. ASSUME NEW b \in 1 .. m, NEW c \in 1 .. m, b < c, NEW i \in 1 .. list[c].count
         PROVE  list[b].lastDoc < q(c)[i][1]
    <2>1. PICK n \in Nat \ {0}, lo \in Nat :
            /\ n = (IF b * BlockSize <= L THEN b * BlockSize ELSE L) - lo
            /\ Len(q(b)) = n /\ \A x \in 1 .. n : lo + x \in 1 .. L /\ q(b)[x] = ps[lo + x]
      BY <1>8
    <2>2. PICK n2 \in Nat \ {0}, lo2 \in Nat :
            /\ lo2 = (c - 1) * BlockSize
            /\ Len(q(c)) = n2 /\ \A x \in 1 .. n2 : lo2 + x \in 1 .. L /\ q(c)[x] = ps[lo2 + x]
      BY <1>8
    <2>3. PICK e \in Nat : e = b * BlockSize /\ e <= lo2
      BY <1>4, <1>12, <2>2
    <2>4. n \in 1 .. n /\ lo + n <= e
      BY ONLY n \in Nat \ {0}, L \in Nat, e \in Nat, lo \in Nat, <2>1, <2>3
    <2>5. i \in 1 .. n2 /\ list[b].lastDoc = ps[lo + n][1]
      <3>1. list[b].count = n /\ list[b].lastDoc = q(b)[list[b].count][1] /\ list[c].count = n2
        BY ONLY b \in 1 .. m, c \in 1 .. m, <1>9, <2>1, <2>2
      <3> QED
        BY ONLY i \in 1 .. list[c].count, <2>1, <2>4, <3>1
    <2>6. lo + n \in DOMAIN ps /\ lo2 + i \in DOMAIN ps /\ lo + n < lo2 + i /\ q(c)[i] = ps[lo2 + i]
      <3>1. lo + n \in 1 .. L
        BY ONLY <2>1, <2>4
      <3>2. lo2 + i \in 1 .. L /\ q(c)[i] = ps[lo2 + i]
        BY ONLY <2>2, <2>5
      <3>3. lo + n <= e /\ e <= lo2 /\ i \in 1 .. n2
        BY ONLY <2>3, <2>4, <2>5
      <3>4. lo + n < lo2 + i
        BY ONLY n \in Nat \ {0}, lo \in Nat, lo2 \in Nat, e \in Nat, n2 \in Nat \ {0}, <3>3
      <3> QED
        BY ONLY <1>1, <3>1, <3>2, <3>4
    <2>7. ps[lo + n][1] < ps[lo2 + i][1]
      BY <2>6
    <2> QED
      BY <2>5, <2>6, <2>7
  <1>13. ASSUME NEW p \in ToSet(ps) PROVE \E b \in 1 .. m : \E i \in 1 .. list[b].count : p = q(b)[i]
    <2>1. PICK j \in 1 .. L : p = ps[j]
      BY <1>1 DEF ToSet
    <2>2. PICK b \in 1 .. m : (b - 1) * BlockSize < j /\ j <= b * BlockSize
      BY <1>4
    <2>3. PICK n \in Nat \ {0}, lo \in Nat :
            /\ lo = (b - 1) * BlockSize /\ n = (IF b * BlockSize <= L THEN b * BlockSize ELSE L) - lo
            /\ Len(q(b)) = n /\ \A x \in 1 .. n : lo + x \in 1 .. L /\ q(b)[x] = ps[lo + x]
      BY <1>8
    <2>4. PICK e \in Nat : e = b * BlockSize
      BY <1>4
    <2>5. j - lo \in 1 .. n /\ lo + (j - lo) = j
      BY ONLY n \in Nat \ {0}, lo \in Nat, e \in Nat, L \in Nat, j \in 1 .. L, <2>2, <2>3, <2>4
    <2>6. p = q(b)[j - lo] /\ j - lo \in 1 .. list[b].count
      BY <1>9, <2>1, <2>3, <2>5
    <2> QED
      BY <2>6
  <1>14. ListOK(list, ps)
    <2>1. ASSUME NEW b \in 1 .. m
          PROVE  /\ list[b].count \in Nat \ {0}
                 /\ \A i \in 1 .. list[b].count : decodeBlock(list[b])[i] \in ToSet(ps)
                 /\ \A i, j \in 1 .. list[b].count : i < j => decodeBlock(list[b])[i][1] < decodeBlock(list[b])[j][1]
                 /\ list[b].lastDoc = decodeBlock(list[b])[list[b].count][1]
                 /\ \A i \in 1 .. list[b].count : decodeBlock(list[b])[i][2] <= list[b].maxFreq
                 /\ \E i \in 1 .. list[b].count : decodeBlock(list[b])[i][2] = list[b].maxFreq
      <3>1. decodeBlock(list[b]) = q(b)
        BY <1>7
      <3> QED
        BY ONLY b \in 1 .. m, <1>9, <1>10, <1>11, <3>1
    <2>2. \A b, c \in 1 .. m : b < c => \A i \in 1 .. list[c].count : list[b].lastDoc < decodeBlock(list[c])[i][1]
      BY ONLY <1>7, <1>12
    <2>3. \A p \in ToSet(ps) : \E b \in 1 .. m : \E i \in 1 .. list[b].count : p = decodeBlock(list[b])[i]
      BY ONLY <1>7, <1>13
    <2> QED
      BY ONLY <1>4, <1>6, <2>1, <2>2, <2>3 DEF ListOK
  <1>15. list = <<>> <=> ps = <<>>
    <2>1. ASSUME ps # <<>> PROVE m # 0
      <3>1. 1 \in 1 .. L
        BY <1>1, <2>1
      <3> QED
        BY <1>4, <3>1
    <2>2. ASSUME m # 0 PROVE L # 0
      <3>1. 1 \in 1 .. m
        BY <1>4, <2>2
      <3> QED
        BY <1>4, <3>1
    <2>3. ps = <<>> <=> L = 0
      BY <1>1
    <2>4. list = <<>> <=> m = 0
      <3>1. list = [b \in 1 .. m |-> list[b]]
        BY <1>5, <1>6
      <3> QED
        BY <1>4, <1>6, <3>1
    <2> QED
      BY <2>1, <2>2, <2>3, <2>4
  <1> QED
    BY <1>14, <1>15 DEF list

\* Documents and frequencies of a list are numbers, and a block ends with its largest document.
LEMMA ListNumbers ==
  ASSUME NEW ps \in Seq(Pairs), NEW list, ListOK(list, ps), NEW b \in 1 .. Len(list)
  PROVE  /\ list[b].count \in Nat \ {0} /\ list[b].lastDoc \in Nat /\ list[b].maxFreq \in Nat
         /\ \A i \in 1 .. list[b].count : /\ decodeBlock(list[b])[i] \in Pairs
                                          /\ decodeBlock(list[b])[i][1] \in Nat
                                          /\ decodeBlock(list[b])[i][2] \in Nat
                                          /\ decodeBlock(list[b])[i][1] <= list[b].lastDoc
         /\ \A i, j \in 1 .. list[b].count : i <= j => decodeBlock(list[b])[i][1] <= decodeBlock(list[b])[j][1]
  <1> DEFINE q == decodeBlock(list[b])
  <1>1. ToSet(ps) \in SUBSET Pairs
    BY DEF ToSet
  <1>2. PICK n \in Nat \ {0} : n = list[b].count
    BY DEF ListOK
  <1>3. \A i \in 1 .. n : q[i] \in ToSet(ps)
    BY <1>2 DEF ListOK
  <1>4. \A i, j \in 1 .. n : i < j => q[i][1] < q[j][1]
    BY <1>2 DEF ListOK
  <1>5. list[b].lastDoc = q[n][1] /\ \E i \in 1 .. n : q[i][2] = list[b].maxFreq
    BY <1>2 DEF ListOK
  <1> HIDE DEF q
  <1>6. \A i \in 1 .. n : q[i] \in Pairs /\ q[i][1] \in Nat /\ q[i][2] \in Nat
    <2>1. \A x \in Pairs : x[1] \in Nat /\ x[2] \in Nat
      BY DEF Pairs
    <2> QED
      BY <1>1, <1>3, <2>1
  <1>7. \A i, j \in 1 .. n : i <= j => q[i][1] <= q[j][1]
    <2> SUFFICES ASSUME NEW i \in 1 .. n, NEW j \in 1 .. n, i <= j PROVE q[i][1] <= q[j][1]
      OBVIOUS
    <2>1. PICK u, v \in Nat : u = q[i][1] /\ v = q[j][1]
      BY <1>6
    <2>2. i < j => u < v
      BY <1>4, <2>1
    <2>3. i = j => u = v
      BY <2>1
    <2>4. u <= v
      BY ONLY u \in Nat, v \in Nat, i \in 1 .. n, j \in 1 .. n, i <= j, <2>2, <2>3
    <2> QED
      BY <2>1, <2>4
  <1>8. n \in 1 .. n /\ \A i \in 1 .. n : i <= n
    OBVIOUS
  <1> QED
    BY <1>2, <1>5, <1>6, <1>7, <1>8 DEF q

\* The larger of two numbers.
LEMMA MaxOfTwo ==
  ASSUME NEW x \in Int, NEW y \in Int
  PROVE  Max({x, y}) = IF x <= y THEN y ELSE x
  <1> DEFINE z == IF x <= y THEN y ELSE x
  <1>1. z \in {x, y} /\ \A w \in {x, y} : z >= w
    OBVIOUS
  <1>2. \A v \in {x, y} : (\A w \in {x, y} : v >= w) => v = z
    OBVIOUS
  <1> HIDE DEF z
  <1>3. Max({x, y}) = z
    BY <1>1, <1>2 DEF Max
  <1> QED
    BY <1>3 DEF z

\* What entering a block leaves of a cursor.
LEMMA EnterBlockIs ==
  ASSUME NEW list, NEW b, b <= Len(list), NEW c,
         c = [blockIdx |-> c.blockIdx, inBlock |-> c.inBlock, docs |-> c.docs, decoded |-> c.decoded,
              shallowIdx |-> c.shallowIdx]
  PROVE  enterBlock(list, c, b) = [blockIdx |-> b, inBlock |-> 1, docs |-> decodeBlock(list[b]), decoded |-> TRUE,
                                   shallowIdx |-> c.shallowIdx]
  <1>1. PICK q : q = decodeBlock(list[b])
    OBVIOUS
  <1>2. PICK r : r = [c EXCEPT !.blockIdx = b, !.inBlock = 1, !.decoded = TRUE, !.docs = q]
    OBVIOUS
  <1>3. enterBlock(list, c, b) = r
    BY <1>1, <1>2 DEF enterBlock
  <1>4. /\ r.blockIdx = b /\ r.inBlock = 1 /\ r.docs = q /\ r.decoded = TRUE /\ r.shallowIdx = c.shallowIdx
        /\ DOMAIN r = {"blockIdx", "inBlock", "docs", "decoded", "shallowIdx"} /\ r = [f \in DOMAIN r |-> r[f]]
    <2>1. PICK x1, x2, x3, x4, x5 :
                  c = [blockIdx |-> x1, inBlock |-> x2, docs |-> x3, decoded |-> x4, shallowIdx |-> x5]
      OBVIOUS
    <2> QED
      BY ONLY <1>2, <2>1
  <1>5. r = [blockIdx |-> r.blockIdx, inBlock |-> r.inBlock, docs |-> r.docs, decoded |-> r.decoded,
             shallowIdx |-> r.shallowIdx]
    BY <1>4
  <1>6. r = [blockIdx |-> b, inBlock |-> 1, docs |-> q, decoded |-> TRUE, shallowIdx |-> c.shallowIdx]
    BY ONLY <1>4, <1>5
  <1> QED
    BY <1>1, <1>3, <1>6

\* A cursor from which nothing at target or beyond has been passed.
Started(list, c, target) ==
  /\ c = [blockIdx |-> c.blockIdx, inBlock |-> c.inBlock, docs |-> c.docs, decoded |-> c.decoded,
          shallowIdx |-> c.shallowIdx]
  /\ c.blockIdx \in 0 .. Len(list) /\ c.decoded \in BOOLEAN
  /\ c.shallowIdx \in Nat \ {0} /\ (c.shallowIdx = 1 \/ c.shallowIdx <= c.blockIdx)
  /\ \A b \in 1 .. Len(list) : b < c.blockIdx => list[b].lastDoc < target
  /\ c.decoded => /\ c.blockIdx \in 1 .. Len(list) /\ c.docs = decodeBlock(list[c.blockIdx])
                  /\ c.inBlock \in 1 .. list[c.blockIdx].count
                  /\ \A i \in 1 .. list[c.blockIdx].count : i < c.inBlock => c.docs[i][1] < target

\* NextGEQ lands on the first posting at or past the target, or past the end when there is none.
LEMMA NextGEQLands ==
  ASSUME NEW ps \in Seq(Pairs), NEW list, ListOK(list, ps), NEW target \in Nat, NEW c, Started(list, c, target)
  PROVE  \/ /\ PastEnd(list, NextGEQ(list, c, target))
            /\ \A p \in ToSet(ps) : p[1] < target
         \/ /\ ~PastEnd(list, NextGEQ(list, c, target))
            /\ CursorOn(list, NextGEQ(list, c, target), Doc(NextGEQ(list, c, target)))
            /\ Doc(NextGEQ(list, c, target)) >= target
            /\ \A p \in ToSet(ps) : p[1] >= target => p[1] >= Doc(NextGEQ(list, c, target))
  <1> DEFINE from == Max({c.blockIdx, 1})
             reach == {b \in from .. Len(list) : list[b].lastDoc >= target}
             in(b) == IF c.decoded /\ b = c.blockIdx THEN c ELSE enterBlock(list, c, b)
             goal(r) == \/ PastEnd(list, r) /\ \A p \in ToSet(ps) : p[1] < target
                        \/ /\ ~PastEnd(list, r) /\ CursorOn(list, r, Doc(r)) /\ Doc(r) >= target
                           /\ \A p \in ToSet(ps) : p[1] >= target => p[1] >= Doc(r)
  <1>1. PICK L \in Nat : L = Len(list)
    BY DEF ListOK
  <1>2. /\ from \in 1 .. L + 1 /\ c.blockIdx <= from /\ (c.blockIdx = 0 \/ c.blockIdx = from)
        /\ \A b \in 1 .. L : b < from => b < c.blockIdx
    <2>1. PICK x \in Int : x = c.blockIdx /\ x \in 0 .. L
      BY <1>1 DEF Started
    <2>2. from = IF x <= 1 THEN 1 ELSE x
      BY <2>1, MaxOfTwo
    <2> HIDE DEF from
    <2> QED
      BY <2>1, <2>2
  <1>3. \A b \in 1 .. L : b < from => list[b].lastDoc < target
    BY <1>1, <1>2 DEF Started
  <1>4. ASSUME NEW p \in ToSet(ps)
        PROVE  /\ p[1] \in Nat
               /\ \E b \in 1 .. L : \E i \in 1 .. list[b].count :
                    p = decodeBlock(list[b])[i] /\ p[1] <= list[b].lastDoc /\ list[b].lastDoc \in Nat
    <2>1. PICK b \in 1 .. L : \E i \in 1 .. list[b].count : p = decodeBlock(list[b])[i]
      BY <1>1 DEF ListOK
    <2>2. PICK i \in 1 .. list[b].count : p = decodeBlock(list[b])[i]
      BY <2>1
    <2>3. p[1] \in Nat /\ p[1] <= list[b].lastDoc /\ list[b].lastDoc \in Nat
      BY <1>1, <2>2, ListNumbers
    <2> QED
      BY <2>2, <2>3
  <1>5. CASE reach = {}
    <2>1. NextGEQ(list, c, target) = [c EXCEPT !.blockIdx = Len(list) + 1, !.decoded = FALSE]
      BY <1>5 DEF NextGEQ
    <2>2. PastEnd(list, NextGEQ(list, c, target))
      <3>1. NextGEQ(list, c, target).blockIdx = L + 1
        BY <1>1, <2>1 DEF Started
      <3> QED
        BY <1>1, <3>1 DEF PastEnd
    <2>3. ASSUME NEW p \in ToSet(ps) PROVE p[1] < target
      <3>1. PICK b \in 1 .. L : p[1] <= list[b].lastDoc /\ list[b].lastDoc \in Nat
        BY <1>4
      <3>2. b < from \/ b \in from .. L
        BY <1>2
      <3>3. list[b].lastDoc < target
        <4>1. CASE b < from
          BY <1>3, <4>1
        <4>2. CASE b \in from .. L
          <5>1. ~ (list[b].lastDoc >= target)
            BY <1>1, <1>5, <4>2
          <5> QED
            BY ONLY target \in Nat, <3>1, <5>1
        <4> QED
          BY <3>2, <4>1, <4>2
      <3> QED
        BY <1>4, <3>1, <3>3
    <2> QED
      BY <2>2, <2>3
  <1>6. CASE reach # {}
    <2> DEFINE B == Min(reach)
               at == in(B)
               n == list[B].count
               q == decodeBlock(list[B])
               s == at.inBlock
               seen == {i \in s .. n : at.docs[i][1] >= target}
               J == Min(seen)
    <2>1. B \in reach /\ \A b \in reach : B <= b
      <3>1. IsFiniteSet(from .. L) /\ reach \in SUBSET (from .. L) /\ reach \in SUBSET Int
        BY <1>1, <1>2, FS_Interval
      <3>2. IsFiniteSet(reach)
        BY <3>1, FS_Subset
      <3> HIDE DEF reach
      <3> QED
        BY <1>6, <3>1, <3>2, Extremes
    <2>2. B \in 1 .. L /\ from <= B /\ list[B].lastDoc >= target
      BY <1>1, <1>2, <2>1
    <2>3. \A b \in 1 .. L : b < B => list[b].lastDoc < target
      <3> SUFFICES ASSUME NEW b \in 1 .. L, b < B PROVE list[b].lastDoc < target
        OBVIOUS
      <3>1. CASE b < from
        BY <1>3, <3>1
      <3>2. CASE from <= b
        <4>1. b \notin reach
          <5> HIDE DEF reach
          <5>1. ~ (B <= b)
            BY <2>2
          <5> QED
            BY <2>1, <5>1
        <4>2. list[b].lastDoc \in Nat
          BY <1>1, ListNumbers
        <4> QED
          BY <1>1, <1>2, <3>2, <4>1, <4>2
      <3> QED
        BY <1>2, <3>1, <3>2
    <2>4. NextGEQ(list, c, target) = [at EXCEPT !.inBlock = Min({i \in at.inBlock .. list[at.blockIdx].count : at.docs[i][1] >= target})]
      BY <1>6 DEF NextGEQ
    <2> HIDE DEF B, reach, from
    <2>5. n \in Nat \ {0} /\ list[B].lastDoc \in Nat /\ list[B].lastDoc = q[n][1]
      BY <1>1, <2>2, ListNumbers DEF ListOK
    <2>6. /\ \A i \in 1 .. n : q[i][1] \in Nat /\ q[i][1] <= list[B].lastDoc
          /\ \A i, j \in 1 .. n : i <= j => q[i][1] <= q[j][1]
      BY <1>1, <2>2, ListNumbers
    <2>7. /\ at = [blockIdx |-> B, inBlock |-> s, docs |-> q, decoded |-> TRUE, shallowIdx |-> c.shallowIdx]
          /\ s \in 1 .. n /\ \A i \in 1 .. n : i < s => q[i][1] < target
      <3>1. CASE c.decoded /\ B = c.blockIdx
        <4>1. at = c
          BY <3>1
        <4> QED
          BY <3>1, <4>1 DEF Started
      <3>2. CASE ~(c.decoded /\ B = c.blockIdx)
        <4>1. at = enterBlock(list, c, B)
          BY <3>2
        <4>2. at = [blockIdx |-> B, inBlock |-> 1, docs |-> q, decoded |-> TRUE, shallowIdx |-> c.shallowIdx]
          <5>1. c = [blockIdx |-> c.blockIdx, inBlock |-> c.inBlock, docs |-> c.docs, decoded |-> c.decoded,
                     shallowIdx |-> c.shallowIdx]
            BY DEF Started
          <5>2. B <= Len(list)
            BY <1>1, <2>2
          <5>3. enterBlock(list, c, B) = [blockIdx |-> B, inBlock |-> 1, docs |-> decodeBlock(list[B]), decoded |-> TRUE,
                                              shallowIdx |-> c.shallowIdx]
            BY ONLY <5>1, <5>2, EnterBlockIs, Zenon
          <5> HIDE DEF at, q
          <5> QED
            BY ONLY <4>1, <5>3 DEF q
        <4> HIDE DEF at
        <4> QED
          BY <2>5, <4>2
      <3> QED
        BY <3>1, <3>2
    <2> HIDE DEF at, n, q
    <2>8. seen = {i \in s .. n : q[i][1] >= target} /\ at.blockIdx = B
      BY <2>7
    <2>9. J \in seen /\ \A i \in seen : J <= i
      <3>1. n \in seen
        BY <2>2, <2>5, <2>7, <2>8
      <3>2. IsFiniteSet(s .. n) /\ seen \in SUBSET (s .. n) /\ seen \in SUBSET Int
        BY <2>5, <2>7, FS_Interval
      <3>3. IsFiniteSet(seen)
        BY <3>2, FS_Subset
      <3> HIDE DEF seen
      <3> QED
        BY <3>1, <3>2, <3>3, Extremes
    <2>10. PICK r : r = [blockIdx |-> B, inBlock |-> J, docs |-> q, decoded |-> TRUE, shallowIdx |-> c.shallowIdx]
      OBVIOUS
    <2>11. NextGEQ(list, c, target) = r
      <3>1. NextGEQ(list, c, target) = [at EXCEPT !.inBlock = J]
        BY <2>4, <2>8 DEF n
      <3> HIDE DEF J, s
      <3> QED
        BY <2>7, <2>10, <3>1
    <2> HIDE DEF J
    <2>12. J \in 1 .. n /\ s <= J /\ q[J][1] >= target /\ q[J][1] \in Nat
      BY <2>5, <2>6, <2>7, <2>8, <2>9
    <2>13. Doc(r) = q[J][1]
      BY <2>10 DEF Doc
    <2>14. CursorOn(list, r, Doc(r))
      <3>1. c.shallowIdx \in 1 .. B
        BY <1>1, <1>2, <2>2 DEF Started
      <3> QED
        BY <1>1, <2>2, <2>10, <2>12, <2>13, <3>1 DEF CursorOn, n, q
    <2>15. ~PastEnd(list, r)
      BY <1>1, <2>2, <2>10 DEF PastEnd
    <2>16. ASSUME NEW p \in ToSet(ps), p[1] >= target PROVE p[1] >= q[J][1]
      <3>1. PICK b \in 1 .. L : \E i \in 1 .. list[b].count :
                    p = decodeBlock(list[b])[i] /\ p[1] <= list[b].lastDoc /\ list[b].lastDoc \in Nat
        BY <1>4
      <3>2. PICK i \in 1 .. list[b].count :
                    p = decodeBlock(list[b])[i] /\ p[1] <= list[b].lastDoc /\ list[b].lastDoc \in Nat
        BY <3>1
      <3>3. p[1] \in Nat
        BY <1>4
      <3>4. CASE b < B
        <4>1. list[b].lastDoc < target
          BY <2>3, <3>4
        <4> QED
          BY <2>16, <3>2, <3>3, <4>1
      <3>5. CASE b = B
        <4>1. i \in 1 .. n /\ p = q[i]
          BY <3>2, <3>5 DEF n, q
        <4>2. ~(i < s)
          BY <2>7, <2>16, <3>3, <4>1
        <4>3. i \in seen
          BY <2>5, <2>7, <2>8, <2>16, <4>1, <4>2
        <4>4. J <= i
          BY <2>9, <4>3
        <4> QED
          BY <2>6, <2>12, <4>1, <4>4
      <3>6. CASE B < b
        <4>1. list[B].lastDoc < p[1]
          BY <1>1, <2>2, <3>2, <3>6 DEF ListOK
        <4> QED
          BY <2>5, <2>6, <2>12, <3>3, <4>1
      <3> QED
        BY <2>2, <3>4, <3>5, <3>6
    <2> QED
      BY <2>11, <2>12, <2>13, <2>14, <2>15, <2>16
  <1> QED
    BY <1>5, <1>6

\* A block's largest document and frequency, and those of the whole list, are of its postings.
LEMMA BoundsAreReal ==
  ASSUME NEW ps \in Seq(Pairs), NEW list, ListOK(list, ps)
  PROVE  /\ \A b \in 1 .. Len(list) : \E p \in ToSet(ps) : p[2] = list[b].maxFreq
         /\ \A b \in 1 .. Len(list) : \E p \in ToSet(ps) : p[1] = list[b].lastDoc
         /\ Len(list) # 0 => \E p \in ToSet(ps) : p[2] = MaxFreq(list)
         /\ \A p \in ToSet(ps) : p[1] \in Nat /\ p[2] \in Nat /\ p[2] <= MaxFreq(list) /\ MaxFreq(list) \in Nat
  <1>1. PICK L \in Nat : L = Len(list) /\ DOMAIN list = 1 .. L
    BY DEF ListOK
  <1>2. ASSUME NEW b \in 1 .. L
        PROVE  \E p \in ToSet(ps) : p[2] = list[b].maxFreq
    BY <1>1 DEF ListOK
  <1>3. ASSUME NEW b \in 1 .. L
        PROVE  \E p \in ToSet(ps) : p[1] = list[b].lastDoc
    <2>1. PICK n \in Nat \ {0} : n = list[b].count
      BY <1>1 DEF ListOK
    <2>2. n \in 1 .. n /\ decodeBlock(list[b])[n] \in ToSet(ps) /\ decodeBlock(list[b])[n][1] = list[b].lastDoc
      BY <1>1, <2>1 DEF ListOK
    <2> QED
      BY <2>2
  <1>4. PICK vs : vs = [b \in DOMAIN list |-> list[b].maxFreq]
    OBVIOUS
  <1>5. MaxFreq(list) = maxOf(vs)
    BY <1>4 DEF MaxFreq
  <1>6. vs \in [1 .. L -> Nat] /\ \A b \in 1 .. L : vs[b] = list[b].maxFreq
    BY <1>1, <1>4, ListNumbers
  <1>7. ASSUME L # 0
        PROVE  /\ MaxFreq(list) \in Nat /\ \A b \in 1 .. L : list[b].maxFreq <= MaxFreq(list)
               /\ \E b \in 1 .. L : list[b].maxFreq = MaxFreq(list)
    <2>1. L \in Nat \ {0}
      BY <1>7
    <2>2. /\ maxOf(vs) \in Nat /\ \A i \in 1 .. L : vs[i] <= maxOf(vs)
          /\ \E i \in 1 .. L : vs[i] = maxOf(vs)
      BY <1>6, <2>1, MaxOfIsReached
    <2> QED
      BY <1>5, <1>6, <2>2
  <1>8. ASSUME NEW p \in ToSet(ps)
        PROVE  p[1] \in Nat /\ p[2] \in Nat /\ p[2] <= MaxFreq(list) /\ MaxFreq(list) \in Nat
    <2>1. PICK b \in 1 .. L : \E i \in 1 .. list[b].count : p = decodeBlock(list[b])[i]
      BY <1>1 DEF ListOK
    <2>2. PICK i \in 1 .. list[b].count : p = decodeBlock(list[b])[i]
      BY <2>1
    <2>3. p[2] <= list[b].maxFreq
      BY <1>1, <2>2 DEF ListOK
    <2>4. p[1] \in Nat /\ p[2] \in Nat /\ list[b].maxFreq \in Nat
      BY <1>1, <2>2, ListNumbers
    <2>5. list[b].maxFreq <= MaxFreq(list) /\ MaxFreq(list) \in Nat
      BY <1>7
    <2> QED
      BY <2>3, <2>4, <2>5
  <1> QED
    BY <1>1, <1>2, <1>3, <1>7, <1>8

\* A cursor on a document stands on its posting, and beyond the documents of the blocks before.
LEMMA OnPosting ==
  ASSUME NEW ps \in Seq(Pairs), NEW list, ListOK(list, ps), NEW c, NEW d, CursorOn(list, c, d)
  PROVE  /\ d \in Nat /\ c.docs[c.inBlock] \in ToSet(ps) /\ c.docs[c.inBlock][1] = d
         /\ Doc(c) = d /\ Freq(c) = c.docs[c.inBlock][2]
         /\ list[c.blockIdx].lastDoc \in Nat /\ d <= list[c.blockIdx].lastDoc
         /\ \A b \in 1 .. Len(list) : b < c.blockIdx => list[b].lastDoc < d
         /\ \A p \in ToSet(ps) : d <= p[1] /\ p[1] <= list[c.blockIdx].lastDoc => p[2] <= list[c.blockIdx].maxFreq
  <1>0. PICK L \in Nat : L = Len(list)
    BY DEF ListOK
  <1>1. PICK B \in 1 .. L : L = Len(list) /\ B = c.blockIdx
    BY <1>0 DEF CursorOn
  <1>2. PICK J : J = c.inBlock
    OBVIOUS
  <1>3. J \in 1 .. list[B].count /\ c.docs = decodeBlock(list[B]) /\ c.docs[J][1] = d
    BY <1>1, <1>2 DEF CursorOn
  <1>4. c.docs[J] \in ToSet(ps)
    BY <1>1, <1>3 DEF ListOK
  <1>5. d \in Nat /\ list[B].lastDoc \in Nat /\ d <= list[B].lastDoc
    BY <1>1, <1>3, ListNumbers
  <1>6. \A b \in 1 .. L : b < B => list[b].lastDoc < d
    BY <1>1, <1>3 DEF ListOK
  <1>7. ASSUME NEW p \in ToSet(ps), d <= p[1], p[1] <= list[B].lastDoc
        PROVE  p[2] <= list[B].maxFreq
    <2>1. PICK b \in 1 .. L : \E i \in 1 .. list[b].count : p = decodeBlock(list[b])[i]
      BY <1>1 DEF ListOK
    <2>2. PICK i \in 1 .. list[b].count : p = decodeBlock(list[b])[i]
      BY <2>1
    <2>3. p[1] \in Nat /\ p[1] <= list[b].lastDoc /\ list[b].lastDoc \in Nat
      BY <1>1, <2>2, ListNumbers
    <2>4. ~(b < B)
      <3>1. ASSUME b < B PROVE FALSE
        <4>1. list[b].lastDoc < d
          BY <1>6, <3>1
        <4> QED
          BY ONLY <1>5, <1>7, <2>3, <4>1
      <3> QED
        BY <3>1
    <2>5. ~(B < b)
      <3>1. ASSUME B < b PROVE FALSE
        <4>1. list[B].lastDoc < p[1]
          BY <1>1, <2>2, <3>1 DEF ListOK
        <4> QED
          BY ONLY <1>5, <1>7, <2>3, <4>1
      <3> QED
        BY <3>1
    <2>6. b = B
      BY <2>4, <2>5
    <2> QED
      BY <1>1, <2>2, <2>6 DEF ListOK
  <1> QED
    BY <1>1, <1>2, <1>3, <1>4, <1>5, <1>6, <1>7 DEF Doc, Freq

\* AdvanceShallow to the document a cursor stands on moves its shallow pointer to the block it is in.
LEMMA ShallowIsHere ==
  ASSUME NEW ps \in Seq(Pairs), NEW list, ListOK(list, ps), NEW c, NEW d, CursorOn(list, c, d)
  PROVE  /\ CursorOn(list, AdvanceShallow(list, c, d), d)
         /\ AdvanceShallow(list, c, d).shallowIdx = AdvanceShallow(list, c, d).blockIdx
  <1> DEFINE S == {b \in c.shallowIdx .. Len(list) : list[b].lastDoc >= d} \cup {Len(list)}
  <1>0. PICK L \in Nat : L = Len(list)
    BY DEF ListOK
  <1>1. PICK B \in 1 .. L : L = Len(list) /\ B = c.blockIdx
    BY <1>0 DEF CursorOn
  <1>2. c.shallowIdx \in 1 .. B
    BY <1>1 DEF CursorOn
  <1>3. /\ d \in Nat /\ list[B].lastDoc \in Nat /\ d <= list[B].lastDoc
        /\ \A b \in 1 .. L : b < B => list[b].lastDoc < d
    BY <1>1, OnPosting
  <1>4. B \in S
    BY <1>1, <1>2, <1>3
  <1>5. \A b \in S : B <= b /\ b \in Int
    <2> SUFFICES ASSUME NEW b \in S PROVE B <= b /\ b \in Int
      OBVIOUS
    <2>1. b \in 1 .. L
      BY <1>1, <1>2
    <2>2. CASE b = L
      BY <2>2
    <2>3. CASE list[b].lastDoc >= d
      <3>1. ASSUME b < B PROVE FALSE
        <4>1. list[b].lastDoc < d /\ list[b].lastDoc \in Nat
          BY <1>1, <1>3, <2>1, <3>1, ListNumbers
        <4> QED
          BY <1>3, <2>3, <4>1
      <3> QED
        BY <2>1, <3>1
    <2> QED
      BY <1>1, <2>2, <2>3
  <1>6. AdvanceShallow(list, c, d) = [c EXCEPT !.shallowIdx = Min(S)]
    BY DEF AdvanceShallow
  <1> HIDE DEF S
  <1>7. Min(S) = B
    <2>1. B \in S /\ \A b \in S : B =< b
      BY <1>4, <1>5
    <2>2. \A z \in S : (\A w \in S : z =< w) => z = B
      BY <1>4, <1>5
    <2> QED
      BY <2>1, <2>2 DEF Min
  <1>8. PICK r : r = [c EXCEPT !.shallowIdx = B]
    OBVIOUS
  <1>9. PICK x1, x2, x3, x4, x5 :
            c = [blockIdx |-> x1, inBlock |-> x2, docs |-> x3, decoded |-> x4, shallowIdx |-> x5]
    BY DEF CursorOn
  <1>10. /\ r = [blockIdx |-> r.blockIdx, inBlock |-> r.inBlock, docs |-> r.docs, decoded |-> r.decoded,
                 shallowIdx |-> r.shallowIdx]
         /\ r.blockIdx = c.blockIdx /\ r.inBlock = c.inBlock /\ r.docs = c.docs /\ r.decoded = c.decoded
         /\ r.shallowIdx = B
    BY <1>8, <1>9
  <1>11. c.decoded = TRUE
    BY DEF CursorOn
  <1>12. CursorOn(list, r, d)
    <2>1. /\ r.blockIdx \in 1 .. Len(list) /\ r.shallowIdx \in 1 .. r.blockIdx
          /\ r.docs = decodeBlock(list[r.blockIdx])
          /\ r.inBlock \in 1 .. list[r.blockIdx].count
          /\ r.docs[r.inBlock][1] = d
      BY <1>1, <1>10 DEF CursorOn
    <2>2. r = [blockIdx |-> r.blockIdx, inBlock |-> r.inBlock, docs |-> r.docs, decoded |-> TRUE,
               shallowIdx |-> r.shallowIdx]
      BY <1>10, <1>11
    <2> QED
      BY ONLY <2>1, <2>2 DEF CursorOn
  <1>13. AdvanceShallow(list, c, d) = r
    BY <1>6, <1>7, <1>8
  <1> QED
    BY <1>1, <1>10, <1>12, <1>13

\* What is known of a term's postings.
LEMMA TermsAreOK ==
  ASSUME CallOK, NEW t \in QueryTerms
  PROVE  /\ given[t] \in Seq(Pairs) /\ ListOK(lists[t], given[t]) /\ (lists[t] = <<>> <=> given[t] = <<>>)
         /\ \A p \in ToSet(given[t]) : p \in Pairs /\ p[1] \in Nat /\ p[1] < LastDocID /\ p[2] \in DOMAIN Scorer[t]
         /\ \A p, r \in ToSet(given[t]) : p[1] = r[1] => p = r
         /\ \A f \in DOMAIN Scorer[t] : f \in Nat /\ Scorer[t][f] \in Nat
         /\ \A f, g \in DOMAIN Scorer[t] : f <= g => Scorer[t][f] <= Scorer[t][g]
  <1>1. PICK ps : ps = given[t] /\ ps \in PostingLists
    BY DEF CallOK
  <1>2. /\ ps \in Seq(Pairs) /\ \A i, j \in DOMAIN ps : i < j => ps[i][1] < ps[j][1]
        /\ Encodable(ps)
        /\ \A i \in DOMAIN ps : ps[i][1] < LastDocID
        /\ \A i \in DOMAIN ps : ps[i][2] \in DOMAIN Scorer[t]
    BY <1>1, WandAssumption, EncodableIs
  <1>3. lists[t] = Encode(ps)
    BY <1>1 DEF CallOK
  <1>4. ListOK(Encode(ps), ps) /\ (Encode(ps) = <<>> <=> ps = <<>>)
    BY <1>2, BlocksRead, ListIsOK
  <1>5. \A p \in ToSet(ps) : p \in Pairs /\ p[1] \in Nat /\ p[1] < LastDocID /\ p[2] \in DOMAIN Scorer[t]
    <2>1. ToSet(ps) \in SUBSET Pairs /\ \A p \in ToSet(ps) : \E i \in DOMAIN ps : p = ps[i]
      BY <1>2 DEF ToSet
    <2>2. \A x \in Pairs : x[1] \in Nat
      BY DEF Pairs
    <2> QED
      BY <1>2, <2>1, <2>2
  <1>6. ASSUME NEW p \in ToSet(ps), NEW r \in ToSet(ps), p[1] = r[1] PROVE p = r
    <2>1. PICK i \in DOMAIN ps, j \in DOMAIN ps : p = ps[i] /\ r = ps[j]
      BY DEF ToSet
    <2>2. i \in Int /\ j \in Int
      BY <1>2
    <2>3. p[1] \in Nat /\ r[1] \in Nat
      BY <1>5
    <2>4. ~(i < j) /\ ~(j < i)
      BY <1>2, <1>6, <2>1, <2>3
    <2>5. i = j
      BY <2>2, <2>4
    <2> QED
      BY <2>1, <2>5
  <1>7. \A f \in DOMAIN Scorer[t] : f \in Nat /\ Scorer[t][f] \in Nat
    <2>1. PICK X : X = Nat
      OBVIOUS
    <2>2. Scorer[t] \in Seq(X)
      BY <2>1, WandAssumption
    <2> QED
      BY <2>1, <2>2
  <1>8. \A f, g \in DOMAIN Scorer[t] : f <= g => Scorer[t][f] <= Scorer[t][g]
    BY WandAssumption
  <1> QED
    BY <1>1, <1>2, <1>3, <1>4, <1>5, <1>6, <1>7, <1>8

\* What a term contributes to a document.
LEMMA Contributes ==
  ASSUME CallOK, NEW t \in QueryTerms
  PROVE  /\ \A p \in ToSet(given[t]) : contribution(t, p[1]) = Scorer[t][p[2]] /\ contribution(t, p[1]) \in Nat
         /\ \A d : ~Holds(t, d) => contribution(t, d) = 0
         /\ \A d : contribution(t, d) \in Nat /\ contribution(t, d) <= maxScore[t]
         /\ maxScore[t] \in Nat
         /\ t \in weighty <=> 0 < maxScore[t]
  <1> DEFINE ps == given[t]
             at(d) == {i \in DOMAIN ps : ps[i][1] = d}
  <1>1. /\ ps \in Seq(Pairs) /\ ListOK(lists[t], ps) /\ (lists[t] = <<>> <=> ps = <<>>)
        /\ \A p \in ToSet(ps) : p \in Pairs /\ p[1] \in Nat /\ p[1] < LastDocID /\ p[2] \in DOMAIN Scorer[t]
        /\ \A p, r \in ToSet(ps) : p[1] = r[1] => p = r
        /\ \A f \in DOMAIN Scorer[t] : f \in Nat /\ Scorer[t][f] \in Nat
        /\ \A f, g \in DOMAIN Scorer[t] : f <= g => Scorer[t][f] <= Scorer[t][g]
    BY TermsAreOK
  <1>2. \A d : contribution(t, d) = IF at(d) = {} THEN 0 ELSE Scorer[t][ps[CHOOSE i \in at(d) : TRUE][2]]
    BY DEF contribution
  <1>3. maxScore[t] = IF lists[t] = <<>> THEN 0 ELSE Scorer[t][MaxFreq(lists[t])]
    BY DEF CallOK
  <1> HIDE DEF ps
  <1>4. ASSUME NEW p \in ToSet(ps)
        PROVE  contribution(t, p[1]) = Scorer[t][p[2]] /\ contribution(t, p[1]) \in Nat
    <2>1. PICK i \in DOMAIN ps : p = ps[i]
      BY DEF ToSet
    <2>2. PICK j : j = CHOOSE x \in at(p[1]) : TRUE
      OBVIOUS
    <2>3. j \in at(p[1]) /\ at(p[1]) # {}
      BY <2>1, <2>2
    <2>4. ps[j] \in ToSet(ps) /\ ps[j][1] = p[1]
      BY <2>3 DEF ToSet
    <2>5. ps[j] = p
      BY <1>1, <2>4
    <2>6. contribution(t, p[1]) = Scorer[t][ps[j][2]]
      BY <1>2, <2>2, <2>3
    <2> QED
      BY <1>1, <2>5, <2>6
  <1>5. ASSUME NEW d, ~ \E p \in ToSet(ps) : p[1] = d PROVE contribution(t, d) = 0
    <2>1. at(d) = {}
      BY <1>5 DEF ToSet
    <2> QED
      BY <1>2, <2>1
  <1>6. lists[t] # <<>> => Len(lists[t]) # 0
    <2>1. Len(lists[t]) = 0 => ps = <<>>
      <3>1. ASSUME Len(lists[t]) = 0 PROVE ToSet(ps) = {}
        BY <1>1, <3>1 DEF ListOK
      <3>2. ToSet(ps) = {} => ps = <<>>
        BY <1>1 DEF ToSet
      <3> QED
        BY <3>1, <3>2
    <2> QED
      BY <1>1, <2>1
  <1>7. /\ maxScore[t] \in Nat /\ \A p \in ToSet(ps) : Scorer[t][p[2]] <= maxScore[t]
        /\ maxScore[t] = 0 \/ \E p \in ToSet(ps) : Scorer[t][p[2]] = maxScore[t]
    <2>1. CASE lists[t] = <<>>
      <3>1. ToSet(ps) = {}
        BY <1>1, <2>1 DEF ToSet
      <3> QED
        BY <1>3, <2>1, <3>1
    <2>2. CASE lists[t] # <<>>
      <3>1. PICK p \in ToSet(ps) : p[2] = MaxFreq(lists[t])
        BY <1>1, <1>6, <2>2, BoundsAreReal
      <3>2. MaxFreq(lists[t]) \in DOMAIN Scorer[t] /\ maxScore[t] = Scorer[t][MaxFreq(lists[t])]
        BY <1>1, <1>3, <2>2, <3>1
      <3>3. \A r \in ToSet(ps) : r[2] <= MaxFreq(lists[t]) /\ r[2] \in DOMAIN Scorer[t]
        BY <1>1, BoundsAreReal
      <3>4. maxScore[t] \in Nat /\ \A r \in ToSet(ps) : Scorer[t][r[2]] <= maxScore[t]
        BY <1>1, <3>2, <3>3
      <3>5. Scorer[t][p[2]] = maxScore[t]
        BY <3>1, <3>2
      <3> QED
        BY <3>4, <3>5
    <2> QED
      BY <2>1, <2>2
  <1>8. ASSUME NEW d PROVE contribution(t, d) \in Nat /\ contribution(t, d) <= maxScore[t]
    <2>1. CASE \E p \in ToSet(ps) : p[1] = d
      <3>1. PICK p \in ToSet(ps) : p[1] = d
        BY <2>1
      <3>2. contribution(t, d) = Scorer[t][p[2]] /\ contribution(t, d) \in Nat
        BY <1>4, <3>1
      <3> QED
        BY <1>7, <3>2
    <2>2. CASE ~ \E p \in ToSet(ps) : p[1] = d
      BY <1>5, <1>7, <2>2
    <2> QED
      BY <2>1, <2>2
  <1>9. t \in weighty <=> 0 < maxScore[t]
    <2>1. t \in weighty <=> \E p \in ToSet(ps) : Scorer[t][p[2]] > 0
      BY DEF weighty, ToSet, ps
    <2>2. \A p \in ToSet(ps) : Scorer[t][p[2]] \in Nat
      BY <1>1
    <2> QED
      BY <1>7, <2>1, <2>2
  <1> QED
    BY <1>4, <1>5, <1>7, <1>8, <1>9 DEF Holds, ps

\* A list of the live terms by document.
InDocOrder(live, Lv) ==
  /\ Len(live) \in Nat /\ DOMAIN live = 1 .. Len(live)
  /\ \A i \in 1 .. Len(live) : live[i] \in Lv
  /\ \A i, j \in 1 .. Len(live) : live[i] = live[j] => i = j
  /\ \A i, j \in 1 .. Len(live) : i <= j => doc[live[i]] <= doc[live[j]]
  /\ \A t \in Lv : \E i \in 1 .. Len(live) : live[i] = t

\* liveSorted is one.
LEMMA LiveInOrder ==
  ASSUME \A t \in QueryTerms : ~done[t] => doc[t] \in Nat
  PROVE  InDocOrder(liveSorted, {t \in QueryTerms : ~done[t]})
  <1> DEFINE Lv == {t \in QueryTerms : ~done[t]}
             before(t) == {u \in Lv : doc[u] < doc[t] \/ (doc[u] = doc[t] /\ u < t)}
             R == {p \in Lv \X Lv : doc[p[1]] < doc[p[2]] \/ (doc[p[1]] = doc[p[2]] /\ p[1] < p[2])}
  <1>1. IsFiniteSet(Lv) /\ Lv \in SUBSET Nat
    <2>1. Lv \in SUBSET QueryTerms
      OBVIOUS
    <2> HIDE DEF Lv
    <2> QED
      BY <2>1, WandAssumption, FS_Subset
  <1>2. \A t \in Lv : doc[t] \in Nat
    OBVIOUS
  <1>3. liveSorted = [i \in 1 .. Cardinality(Lv) |-> CHOOSE t \in Lv : Cardinality(before(t)) = i - 1]
    BY DEF liveSorted
  <1> HIDE DEF Lv
  <1>4. StrictOrder(Lv, R)
    <2>1. \A x, y : <<x, y>> \in R <=> x \in Lv /\ y \in Lv /\ (doc[x] < doc[y] \/ (doc[x] = doc[y] /\ x < y))
      OBVIOUS
    <2>2. \A x \in Lv : x \in Nat /\ doc[x] \in Nat
      BY <1>1, <1>2
    <2> HIDE DEF R
    <2> QED
      BY <2>1, <2>2 DEF StrictOrder
  <1>5. \A t \in Lv : before(t) = Ahead(Lv, R, t)
    BY DEF Ahead
  <1>6. \A x, y \in Lv : <<x, y>> \in R => doc[x] <= doc[y]
    BY <1>2
  <1> HIDE DEF R
  <1>7. liveSorted = InOrder(Lv, R)
    <2> DEFINE a(i) == CHOOSE t \in Lv : Cardinality(before(t)) = i - 1
               b(i) == CHOOSE t \in Lv : Cardinality(Ahead(Lv, R, t)) = i - 1
    <2>1. ASSUME NEW i PROVE a(i) = b(i)
      <3> DEFINE A(t) == t \in Lv /\ Cardinality(before(t)) = i - 1
                 B(t) == t \in Lv /\ Cardinality(Ahead(Lv, R, t)) = i - 1
      <3>1. \A t : A(t) <=> B(t)
        <4> HIDE DEF before
        <4> QED
          BY <1>5
      <3>2. (CHOOSE t : A(t)) = (CHOOSE t : B(t))
        <4> HIDE DEF A, B
        <4> QED
          BY <3>1, Zenon
      <3> QED
        BY <3>2
    <2>2. liveSorted = [i \in 1 .. Cardinality(Lv) |-> a(i)]
      BY <1>3
    <2>3. InOrder(Lv, R) = [i \in 1 .. Cardinality(Lv) |-> b(i)]
      BY DEF InOrder
    <2> HIDE DEF a, b
    <2> QED
      BY <2>1, <2>2, <2>3
  <1>8. PICK o, c : o = InOrder(Lv, R) /\ c = Cardinality(Lv)
    OBVIOUS
  <1>9. /\ o \in Seq(Lv) /\ Len(o) = c /\ c \in Nat
        /\ \A i \in 1 .. c : o[i] \in Lv
        /\ \A i, j \in 1 .. c : o[i] = o[j] => i = j
        /\ \A i, j \in 1 .. c : i < j => <<o[i], o[j]>> \in R
        /\ \A x \in Lv : \E i \in 1 .. c : o[i] = x
    <2>1. /\ InOrder(Lv, R) \in Seq(Lv) /\ Len(InOrder(Lv, R)) = Cardinality(Lv) /\ Cardinality(Lv) \in Nat
          /\ \A i \in 1 .. Cardinality(Lv) : InOrder(Lv, R)[i] \in Lv
          /\ \A i \in 1 .. Cardinality(Lv) : Cardinality(Ahead(Lv, R, InOrder(Lv, R)[i])) = i - 1
          /\ \A i, j \in 1 .. Cardinality(Lv) : InOrder(Lv, R)[i] = InOrder(Lv, R)[j] => i = j
          /\ \A i, j \in 1 .. Cardinality(Lv) : i < j => <<InOrder(Lv, R)[i], InOrder(Lv, R)[j]>> \in R
          /\ \A x \in Lv : \E i \in 1 .. Cardinality(Lv) : InOrder(Lv, R)[i] = x
      BY <1>1, <1>4, OrderIsWhole
    <2> QED
      BY <1>8, <2>1
  <1>10. \A i, j \in 1 .. c : i <= j => doc[o[i]] <= doc[o[j]]
    <2> SUFFICES ASSUME NEW i \in 1 .. c, NEW j \in 1 .. c, i <= j PROVE doc[o[i]] <= doc[o[j]]
      OBVIOUS
    <2>1. CASE i = j
      <3>1. doc[o[i]] \in Nat
        BY <1>2, <1>9
      <3> QED
        BY <2>1, <3>1
    <2>2. CASE i < j
      BY <1>6, <1>9, <2>2
    <2> QED
      BY <1>9, <2>1, <2>2
  <1>11. DOMAIN o = 1 .. c
    BY <1>9
  <1>12. InDocOrder(o, Lv)
    BY <1>9, <1>10, <1>11 DEF InDocOrder
  <1> QED
    BY <1>7, <1>8, <1>12 DEF Lv

\* The bound of the first i terms is the weight of their set.
LEMMA PrefixWeight ==
  ASSUME NEW Lv, NEW live, InDocOrder(live, Lv), NEW i \in 1 .. Len(live), \A t \in Lv : maxScore[t] \in Nat
  PROVE  SumFunction([j \in 1 .. i |-> maxScore[live[j]]]) = Weight(maxScore, {live[j] : j \in 1 .. i})
  <1>1. i \in Nat /\ \A j \in 1 .. i : j \in 1 .. Len(live)
    BY DEF InDocOrder
  <1>2. PICK S : S = 1 .. i
    OBVIOUS
  <1>3. IsFiniteSet(S)
    BY <1>1, <1>2, FS_Interval
  <1>4. PICK f : f = [j \in S |-> maxScore[live[j]]]
    OBVIOUS
  <1>5. PICK T : T = {live[j] : j \in S}
    OBVIOUS
  <1>6. PICK b : b = [j \in S |-> live[j]]
    OBVIOUS
  <1>7. DOMAIN f = S /\ \A x \in S : f[x] \in Nat /\ f[x] = maxScore[live[x]]
    BY <1>1, <1>2, <1>4 DEF InDocOrder
  <1>8. b \in [S -> T] /\ \A x, y \in S : b[x] = b[y] => x = y
    BY <1>1, <1>2, <1>5, <1>6 DEF InDocOrder
  <1>9. /\ \A x \in S : maxScore[b[x]] = f[x]
        /\ \A y \in T : (\A x \in S : b[x] # y) => maxScore[y] = 0
    BY <1>5, <1>6, <1>7
  <1>10. Weight(maxScore, T) = Weight(f, S)
    BY <1>3, <1>7, <1>8, <1>9, WeightCarries
  <1>11. SumFunction(f) = Weight(f, S)
    BY <1>3, <1>7, SumIsItsWeight
  <1> QED
    BY <1>2, <1>4, <1>5, <1>10, <1>11

\* The terms that stand at or before d.
Standing(d) == {u \in QueryTerms : ~done[u] /\ doc[u] <= d}

\* Their bound is the weight of their set, and counts only.
LEMMA LiveBoundIs ==
  ASSUME \A t \in QueryTerms : maxScore[t] \in Nat, NEW d
  PROVE  LiveBound(d) = Weight(maxScore, Standing(d)) /\ LiveBound(d) \in Nat /\ IsFiniteSet(Standing(d))
  <1>1. PICK S : S = Standing(d)
    OBVIOUS
  <1>2. S \in SUBSET QueryTerms
    BY <1>1 DEF Standing
  <1>3. IsFiniteSet(S)
    BY <1>2, WandAssumption, FS_Subset
  <1>4. PICK f : f = [t \in S |-> maxScore[t]]
    OBVIOUS
  <1>5. DOMAIN f = S /\ \A t \in S : f[t] \in Nat /\ f[t] = maxScore[t]
    BY <1>2, <1>4
  <1>6. SumFunction(f) = Weight(f, S) /\ SumFunction(f) \in Nat
    BY <1>3, <1>5, SumIsItsWeight
  <1>7. Weight(f, S) = Weight(maxScore, S)
    BY <1>5, SameWeight
  <1>8. LiveBound(d) = SumFunction(f)
    BY <1>1, <1>4 DEF LiveBound, Standing
  <1> QED
    BY <1>1, <1>3, <1>6, <1>7, <1>8

\* Before the pivot no document can beat the threshold, and at the pivot one may.
LEMMA PivotTells ==
  ASSUME \A t \in QueryTerms : maxScore[t] \in Nat, \A t \in QueryTerms : ~done[t] => doc[t] \in Nat,
         threshold \in Nat, NEW live, live = liveSorted, NEW pivot, pivot = findPivot(live)
  PROVE  /\ pivot = 0 => \A d \in Nat : LiveBound(d) <= threshold
         /\ pivot # 0 =>
              /\ pivot \in DOMAIN live /\ 1 \in DOMAIN live
              /\ \A i \in DOMAIN live : live[i] \in QueryTerms /\ ~done[live[i]]
              /\ \A t \in QueryTerms : ~done[t] => doc[live[1]] <= doc[t]
              /\ \A d \in Nat : d < doc[live[pivot]] => LiveBound(d) <= threshold
              /\ ~(LiveBound(doc[live[pivot]]) <= threshold)
  <1> DEFINE Lv == {t \in QueryTerms : ~done[t]}
             sum(i) == SumFunction([j \in 1 .. i |-> maxScore[live[j]]])
             first(i) == {live[j] : j \in 1 .. i}
             over == {i \in DOMAIN live : sum(i) > threshold}
  <1>1. InDocOrder(live, Lv)
    BY LiveInOrder
  <1>2. PICK N \in Nat : N = Len(live) /\ DOMAIN live = 1 .. N
    BY <1>1 DEF InDocOrder
  <1>3. /\ \A i \in 1 .. N : live[i] \in QueryTerms /\ ~done[live[i]] /\ doc[live[i]] \in Nat
        /\ \A i, j \in 1 .. N : i <= j => doc[live[i]] <= doc[live[j]]
        /\ \A t \in QueryTerms : ~done[t] => \E i \in 1 .. N : live[i] = t
    BY <1>1, <1>2 DEF InDocOrder
  <1>4. pivot = IF over = {} THEN 0 ELSE Min(over)
    BY DEF findPivot
  <1>5. ASSUME NEW i \in 1 .. N
        PROVE  sum(i) = Weight(maxScore, first(i)) /\ IsFiniteSet(first(i)) /\ Weight(maxScore, first(i)) \in Nat
               /\ first(i) \in SUBSET QueryTerms
    <2>1. \A t \in Lv : maxScore[t] \in Nat
      OBVIOUS
    <2>2. sum(i) = Weight(maxScore, first(i))
      <3> HIDE DEF Lv
      <3> QED
        BY <1>1, <1>2, <2>1, PrefixWeight
    <2>3. first(i) \in SUBSET QueryTerms
      BY <1>3
    <2>4. IsFiniteSet(first(i))
      <3> HIDE DEF first
      <3> QED
        BY <2>3, WandAssumption, FS_Subset
    <2>5. Weight(maxScore, first(i)) \in Nat
      <3> HIDE DEF first
      <3>1. \A x \in first(i) : maxScore[x] \in Nat
        BY <2>3
      <3>2. first(i) \in SUBSET first(i)
        OBVIOUS
      <3> QED
        BY <2>4, <3>1, <3>2, WeightAdds
    <2> QED
      BY <2>2, <2>3, <2>4, <2>5
  <1> HIDE DEF sum, Lv
  <1>6. ASSUME NEW i \in 1 .. N, NEW d, Standing(d) \in SUBSET first(i), sum(i) <= threshold
        PROVE  LiveBound(d) <= threshold
    <2> HIDE DEF first
    <2>1. LiveBound(d) = Weight(maxScore, Standing(d)) /\ LiveBound(d) \in Nat
      BY LiveBoundIs
    <2>2. \A x \in first(i) : maxScore[x] \in Nat
      BY <1>5
    <2>3. Weight(maxScore, Standing(d)) <= Weight(maxScore, first(i))
      <3>1. /\ \A x \in Standing(d) : maxScore[x] \in Nat /\ maxScore[x] <= maxScore[x]
            /\ IsFiniteSet(first(i))
        BY <1>5, <1>6, <2>2
      <3> QED
        BY <1>6, <2>2, <3>1, WeightMonotone
    <2> QED
      BY <1>5, <1>6, <2>1, <2>3
  <1>7. ASSUME NEW d, Standing(d) = {} PROVE LiveBound(d) <= threshold
    <2>1. LiveBound(d) = Weight(maxScore, {}) /\ LiveBound(d) \in Nat
      BY <1>7, LiveBoundIs
    <2>2. IsFiniteSet({}) /\ \A x \in {} : maxScore[x] \in Nat
      BY FS_EmptySet
    <2>3. Weight(maxScore, {}) = 0
      BY <2>2, WeightAdds
    <2> QED
      BY <2>1, <2>3
  <1>8. ASSUME over = {}, NEW d \in Nat PROVE LiveBound(d) <= threshold
    <2>1. CASE N = 0
      <3>1. Standing(d) = {}
        BY <1>3, <2>1 DEF Standing
      <3> QED
        BY <1>7, <3>1
    <2>2. CASE N # 0
      <3>1. N \in 1 .. N
        BY <2>2
      <3>2. ~(sum(N) > threshold) /\ sum(N) \in Nat
        BY <1>2, <1>5, <1>8, <3>1
      <3>3. Standing(d) \in SUBSET first(N)
        BY <1>3 DEF Standing
      <3> QED
        BY <1>6, <3>1, <3>2, <3>3
    <2> QED
      BY <2>1, <2>2
  <1>9. ASSUME over # {}
        PROVE  /\ pivot \in 1 .. N
               /\ sum(pivot) > threshold
               /\ \A i \in 1 .. N : i < pivot => sum(i) <= threshold
    <2>1. IsFiniteSet(1 .. N) /\ over \in SUBSET (1 .. N) /\ over \in SUBSET Int
      BY <1>2, FS_Interval
    <2>2. IsFiniteSet(over)
      BY <2>1, FS_Subset
    <2>3. pivot = Min(over)
      BY <1>4, <1>9
    <2>4. pivot \in over /\ \A i \in over : pivot <= i
      <3> HIDE DEF over
      <3> QED
        BY <1>9, <2>1, <2>2, <2>3, Extremes
    <2>5. pivot \in 1 .. N /\ sum(pivot) > threshold
      BY <1>2, <2>4
    <2>6. ASSUME NEW i \in 1 .. N, i < pivot PROVE sum(i) <= threshold
      <3>1. i \notin over
        BY <2>4, <2>5, <2>6
      <3>2. ~(sum(i) > threshold)
        BY <1>2, <3>1
      <3>3. sum(i) \in Nat
        BY <1>5
      <3> QED
        BY <3>2, <3>3
    <2> QED
      BY <2>5, <2>6
  <1> HIDE DEF over
  <1>10. ASSUME over # {}, NEW d \in Nat, d < doc[live[pivot]] PROVE LiveBound(d) <= threshold
    <2>1. pivot \in 1 .. N
      BY <1>9, <1>10
    <2>2. ASSUME NEW i \in 1 .. N, pivot <= i PROVE ~(doc[live[i]] <= d)
      <3>1. doc[live[pivot]] <= doc[live[i]]
        BY <1>3, <2>1, <2>2
      <3> QED
        BY <1>3, <1>10, <2>1, <3>1
    <2>3. CASE pivot = 1
      <3>1. Standing(d) = {}
        BY <1>3, <2>2, <2>3 DEF Standing
      <3> QED
        BY <1>7, <3>1
    <2>4. CASE pivot # 1
      <3>1. PICK m \in 1 .. N : m = pivot - 1
        BY <2>1, <2>4
      <3>2. sum(m) <= threshold
        BY <1>9, <1>10, <2>1, <3>1
      <3>3. Standing(d) \in SUBSET first(m)
        <4> SUFFICES ASSUME NEW u \in Standing(d) PROVE u \in first(m)
          OBVIOUS
        <4>1. PICK i \in 1 .. N : live[i] = u /\ doc[u] <= d
          BY <1>3 DEF Standing
        <4>2. ~(pivot <= i)
          BY <2>2, <4>1
        <4>3. i \in 1 .. m
          BY <2>1, <3>1, <4>2
        <4> QED
          BY <4>1, <4>3
      <3> QED
        BY <1>6, <3>2, <3>3
    <2> QED
      BY <2>3, <2>4
  <1>11. ASSUME over # {} PROVE ~(LiveBound(doc[live[pivot]]) <= threshold)
    <2>1. pivot \in 1 .. N /\ sum(pivot) > threshold
      BY <1>9, <1>11
    <2>2. PICK D : D = doc[live[pivot]]
      OBVIOUS
    <2>3. first(pivot) \in SUBSET Standing(D)
      <3> SUFFICES ASSUME NEW j \in 1 .. pivot PROVE live[j] \in Standing(D)
        OBVIOUS
      <3>1. j \in 1 .. N /\ j <= pivot
        BY <2>1
      <3> QED
        BY <1>3, <2>1, <2>2, <3>1 DEF Standing
    <2>4. LiveBound(D) = Weight(maxScore, Standing(D)) /\ LiveBound(D) \in Nat /\ IsFiniteSet(Standing(D))
      BY LiveBoundIs
    <2>5. Weight(maxScore, first(pivot)) <= Weight(maxScore, Standing(D))
      <3> HIDE DEF first
      <3>1. \A x \in Standing(D) : maxScore[x] \in Nat
        BY DEF Standing
      <3>2. \A x \in first(pivot) : maxScore[x] \in Nat /\ maxScore[x] <= maxScore[x]
        BY <2>3, <3>1
      <3> QED
        BY <2>3, <2>4, <3>1, <3>2, WeightMonotone
    <2>6. sum(pivot) = Weight(maxScore, first(pivot)) /\ sum(pivot) \in Nat
      BY <1>5, <2>1
    <2> HIDE DEF first
    <2>7. threshold < LiveBound(D)
      BY <2>1, <2>4, <2>5, <2>6
    <2> QED
      BY <2>2, <2>4, <2>7
  <1>12. ASSUME pivot # 0 PROVE over # {}
    BY <1>4, <1>12
  <1>13. ASSUME pivot = 0 PROVE over = {}
    BY <1>9, <1>13
  <1>14. ASSUME pivot # 0
         PROVE  pivot \in 1 .. N /\ 1 \in 1 .. N /\ \A t \in QueryTerms : ~done[t] => doc[live[1]] <= doc[t]
    <2>1. pivot \in 1 .. N
      BY <1>9, <1>12, <1>14
    <2>2. 1 \in 1 .. N /\ \A i \in 1 .. N : 1 <= i
      BY <2>1
    <2> QED
      BY <1>3, <2>1, <2>2
  <1> QED
    BY <1>2, <1>3, <1>8, <1>10, <1>11, <1>12, <1>13, <1>14

\* A cursor that stands before the target has passed nothing at or beyond it.
LEMMA StartedHere ==
  ASSUME NEW ps \in Seq(Pairs), NEW list, ListOK(list, ps), NEW c, NEW d, CursorOn(list, c, d),
         NEW target \in Nat, d < target
  PROVE  Started(list, c, target)
  <1>1. PICK L \in Nat : L = Len(list)
    BY DEF ListOK
  <1>2. PICK B \in 1 .. L : B = c.blockIdx
    BY <1>1 DEF CursorOn
  <1>3. d \in Nat /\ \A b \in 1 .. L : b < B => list[b].lastDoc < d
    BY <1>1, <1>2, OnPosting
  <1>4. \A b \in 1 .. L : b < B => list[b].lastDoc < target
    <2> SUFFICES ASSUME NEW b \in 1 .. L, b < B PROVE list[b].lastDoc < target
      OBVIOUS
    <2>1. list[b].lastDoc \in Nat
      BY <1>1, ListNumbers
    <2> QED
      BY <1>3, <2>1
  <1>5. PICK J : J = c.inBlock
    OBVIOUS
  <1>6. J \in 1 .. list[B].count /\ c.docs = decodeBlock(list[B]) /\ c.docs[J][1] = d /\ list[B].count \in Nat
    BY <1>1, <1>2, <1>5, ListNumbers DEF CursorOn
  <1>7. \A i \in 1 .. list[B].count : i < J => c.docs[i][1] < target
    <2> SUFFICES ASSUME NEW i \in 1 .. list[B].count, i < J PROVE c.docs[i][1] < target
      OBVIOUS
    <2>1. c.docs[i][1] \in Nat
      BY <1>1, <1>2, <1>6, ListNumbers
    <2>2. \A x, y \in 1 .. list[B].count : x <= y => c.docs[x][1] <= c.docs[y][1]
      BY <1>1, <1>2, <1>6, ListNumbers
    <2>3. i <= J
      BY <1>6
    <2>4. c.docs[i][1] <= d
      BY <1>6, <2>2, <2>3
    <2> QED
      BY <1>3, <2>1, <2>4
  <1>8. /\ c = [blockIdx |-> c.blockIdx, inBlock |-> c.inBlock, docs |-> c.docs, decoded |-> TRUE,
                shallowIdx |-> c.shallowIdx]
        /\ c.shallowIdx \in 1 .. B
    BY <1>2 DEF CursorOn
  <1>9. c.decoded = TRUE
    BY <1>8
  <1>10. /\ c = [blockIdx |-> c.blockIdx, inBlock |-> c.inBlock, docs |-> c.docs, decoded |-> c.decoded,
                 shallowIdx |-> c.shallowIdx]
         /\ c.decoded \in BOOLEAN
    BY <1>8, <1>9
  <1>11. c.blockIdx \in 0 .. Len(list) /\ c.shallowIdx \in Nat \ {0} /\ c.shallowIdx <= c.blockIdx
    BY <1>1, <1>2, <1>8
  <1> QED
    BY ONLY <1>1, <1>2, <1>4, <1>5, <1>6, <1>7, <1>10, <1>11 DEF Started

\* What a move to target does to the terms: none is passed over a document of its own from the
\* target on.
Moves(target) ==
  \A t \in QueryTerms :
    /\ ~done'[t] => ~done[t] /\ doc'[t] \in Nat /\ doc[t] <= doc'[t]
    /\ \A d \in Nat : Holds(t, d) /\ ~done[t] /\ doc[t] <= d /\ target <= d => ~done'[t] /\ doc'[t] <= d

\* The step advance is such a move, and leaves every live term on its document.
LEMMA AdvanceMoves ==
  ASSUME CallOK, CursorsOK, NEW ts \in SUBSET QueryTerms, NEW cs, NEW target \in Nat,
         \A t \in QueryTerms : ~done[t] => CursorOn(lists[t], cs[t], doc[t]),
         \A t \in ts : ~done[t] /\ doc[t] < target,
         advance(ts, cs, target), lists' = lists
  PROVE  /\ CursorsOK' /\ Moves(target)
         /\ \A t \in ts : ~done'[t] => target <= doc'[t]
         /\ \A t \in QueryTerms \ ts : done'[t] = done[t] /\ doc'[t] = doc[t]
  <1>1. /\ cursor' = [t \in QueryTerms |-> IF t \in ts THEN NextGEQ(lists[t], cs[t], target) ELSE cs[t]]
        /\ done' = [t \in QueryTerms |-> done[t] \/ (t \in ts /\ PastEnd(lists[t], cursor'[t]))]
        /\ doc' = [t \in QueryTerms |-> IF t \in ts /\ ~done'[t] THEN Doc(cursor'[t]) ELSE doc[t]]
    BY DEF advance
  <1>2. \A t \in QueryTerms : ~done[t] => doc[t] \in Nat
    <2> SUFFICES ASSUME NEW t \in QueryTerms, ~done[t] PROVE doc[t] \in Nat
      OBVIOUS
    <2>1. given[t] \in Seq(Pairs) /\ ListOK(lists[t], given[t]) /\ CursorOn(lists[t], cs[t], doc[t])
      BY TermsAreOK
    <2> QED
      BY <2>1, OnPosting
  <1>3. ASSUME NEW t \in QueryTerms \ ts
        PROVE  /\ cursor'[t] = cs[t] /\ done'[t] = done[t] /\ doc'[t] = doc[t]
               /\ ~done'[t] => CursorOn(lists[t], cursor'[t], doc'[t])
    <2>1. cursor'[t] = cs[t] /\ done'[t] = done[t] /\ doc'[t] = doc[t]
      BY <1>1 DEF CursorsOK
    <2> QED
      BY <2>1
  <1>4. ASSUME NEW t \in ts
        PROVE  /\ ~done'[t] => CursorOn(lists[t], cursor'[t], doc'[t]) /\ doc'[t] \in Nat /\ target <= doc'[t]
               /\ \A d \in Nat : Holds(t, d) /\ target <= d => ~done'[t] /\ doc'[t] <= d
    <2>1. PICK c : c = NextGEQ(lists[t], cs[t], target)
      OBVIOUS
    <2>2. /\ cursor'[t] = c /\ done'[t] = PastEnd(lists[t], c)
          /\ ~done'[t] => doc'[t] = Doc(c)
      <3>1. cursor'[t] = c /\ done'[t] = (done[t] \/ PastEnd(lists[t], cursor'[t]))
        BY <1>1, <2>1
      <3>2. ~done'[t] => doc'[t] = Doc(c)
        BY <1>1, <3>1
      <3>3. ~done[t]
        OBVIOUS
      <3>4. PastEnd(lists[t], c) \in BOOLEAN
        BY DEF PastEnd
      <3>5. done'[t] = PastEnd(lists[t], c)
        BY <3>1, <3>3, <3>4
      <3> QED
        BY <3>1, <3>2, <3>5
    <2>3. given[t] \in Seq(Pairs) /\ ListOK(lists[t], given[t]) /\ CursorOn(lists[t], cs[t], doc[t]) /\ doc[t] < target
      BY TermsAreOK
    <2>4. Started(lists[t], cs[t], target)
      BY <2>3, StartedHere
    <2>5. \/ PastEnd(lists[t], c) /\ \A p \in ToSet(given[t]) : p[1] < target
          \/ /\ ~PastEnd(lists[t], c) /\ CursorOn(lists[t], c, Doc(c)) /\ Doc(c) >= target
             /\ \A p \in ToSet(given[t]) : p[1] >= target => p[1] >= Doc(c)
      BY <2>1, <2>3, <2>4, NextGEQLands
    <2>6. CASE PastEnd(lists[t], c) /\ \A p \in ToSet(given[t]) : p[1] < target
      <3>1. \A d \in Nat : Holds(t, d) => ~(target <= d)
        BY <2>6 DEF Holds
      <3> QED
        BY <2>2, <2>6, <3>1
    <2>7. CASE /\ ~PastEnd(lists[t], c) /\ CursorOn(lists[t], c, Doc(c)) /\ Doc(c) >= target
               /\ \A p \in ToSet(given[t]) : p[1] >= target => p[1] >= Doc(c)
      <3>1. Doc(c) \in Nat
        BY <2>3, <2>7, OnPosting
      <3>2. ~done'[t] /\ doc'[t] = Doc(c)
        BY <2>2, <2>7
      <3>3. \A d \in Nat : Holds(t, d) /\ target <= d => Doc(c) <= d
        BY <2>7, <3>1 DEF Holds
      <3> QED
        BY <2>2, <2>7, <3>1, <3>2, <3>3
    <2> QED
      BY <2>5, <2>6, <2>7
  <1>5. CursorsOK'
    <2>1. done' \in [QueryTerms -> BOOLEAN] /\ DOMAIN doc' = QueryTerms /\ DOMAIN cursor' = QueryTerms
      <3>1. \A t \in QueryTerms : (done[t] \/ (t \in ts /\ PastEnd(lists[t], cursor'[t]))) \in BOOLEAN
        OBVIOUS
      <3> QED
        BY <1>1, <3>1
    <2>2. \A t \in QueryTerms : ~done'[t] => CursorOn(lists'[t], cursor'[t], doc'[t])
      BY <1>3, <1>4
    <2> QED
      BY <2>1, <2>2 DEF CursorsOK
  <1>6. Moves(target)
    <2>1. ASSUME NEW t \in QueryTerms \ ts
          PROVE  /\ ~done'[t] => ~done[t] /\ doc'[t] \in Nat /\ doc[t] <= doc'[t]
                 /\ \A d \in Nat : Holds(t, d) /\ ~done[t] /\ doc[t] <= d /\ target <= d => ~done'[t] /\ doc'[t] <= d
      <3>1. done'[t] = done[t] /\ doc'[t] = doc[t]
        BY <1>3
      <3>2. ~done[t] => doc[t] \in Nat /\ doc[t] <= doc[t]
        BY <1>2
      <3> QED
        BY <3>1, <3>2
    <2>2. ASSUME NEW t \in ts
          PROVE  /\ ~done'[t] => ~done[t] /\ doc'[t] \in Nat /\ doc[t] <= doc'[t]
                 /\ \A d \in Nat : Holds(t, d) /\ ~done[t] /\ doc[t] <= d /\ target <= d => ~done'[t] /\ doc'[t] <= d
      <3>1. ~done[t] /\ doc[t] \in Nat /\ doc[t] < target
        BY <1>2
      <3>2. ~done'[t] => doc'[t] \in Nat /\ target <= doc'[t]
        BY <1>4
      <3>3. ~done'[t] => doc[t] <= doc'[t]
        BY ONLY target \in Nat, <3>1, <3>2
      <3> QED
        BY <1>4, <3>1, <3>2, <3>3
    <2> QED
      BY <2>1, <2>2 DEF Moves
  <1> QED
    BY <1>3, <1>4, <1>5, <1>6

\* The bounds of a set of terms add up to its weight.
LEMMA BoundsOf ==
  ASSUME NEW S \in SUBSET QueryTerms, NEW m, \A t \in S : m[t] \in Nat
  PROVE  SumFunction([t \in S |-> m[t]]) = Weight(m, S) /\ Weight(m, S) \in Nat /\ IsFiniteSet(S)
  <1>1. IsFiniteSet(S)
    BY WandAssumption, FS_Subset
  <1>2. PICK f : f = [t \in S |-> m[t]]
    OBVIOUS
  <1>3. DOMAIN f = S /\ \A t \in S : f[t] \in Nat /\ f[t] = m[t]
    BY <1>2
  <1>4. SumFunction(f) = Weight(f, S) /\ SumFunction(f) \in Nat
    BY <1>1, <1>3, SumIsItsWeight
  <1>5. Weight(f, S) = Weight(m, S)
    BY <1>3, SameWeight
  <1> QED
    BY <1>1, <1>2, <1>4, <1>5

\* A move never raises the bound at a document, and takes it away where no term stands any more.
LEMMA BoundShrinks ==
  ASSUME \A t \in QueryTerms : maxScore[t] \in Nat, maxScore' = maxScore, NEW target, Moves(target), NEW d \in Nat,
         \A t \in QueryTerms : ~done[t] => doc[t] \in Nat
  PROVE  /\ LiveBound(d)' \in Nat /\ LiveBound(d)' <= LiveBound(d)
         /\ (\A t \in QueryTerms : ~done'[t] => d < doc'[t]) => LiveBound(d)' = 0
  <1>1. PICK S, T : S = {u \in QueryTerms : ~done'[u] /\ doc'[u] <= d} /\ T = Standing(d)
    OBVIOUS
  <1>2. S \in SUBSET QueryTerms /\ T \in SUBSET QueryTerms
    BY <1>1 DEF Standing
  <1>3. S \in SUBSET T
    <2> SUFFICES ASSUME NEW t \in QueryTerms, ~done'[t], doc'[t] <= d PROVE t \in T
      BY <1>1
    <2>1. ~done[t] /\ doc'[t] \in Nat /\ doc[t] <= doc'[t]
      BY DEF Moves
    <2>2. doc[t] <= d
      BY <2>1
    <2> QED
      BY <1>1, <2>1, <2>2 DEF Standing
  <1>4. LiveBound(d)' = Weight(maxScore, S)
    <2>1. LiveBound(d)' = SumFunction([t \in S |-> maxScore'[t]])
      BY <1>1 DEF LiveBound
    <2>2. SumFunction([t \in S |-> maxScore[t]]) = Weight(maxScore, S)
      BY <1>2, BoundsOf
    <2> QED
      BY <2>1, <2>2
  <1>5. LiveBound(d) = Weight(maxScore, T) /\ LiveBound(d) \in Nat /\ IsFiniteSet(T)
    BY <1>1, LiveBoundIs
  <1>6. Weight(maxScore, S) <= Weight(maxScore, T) /\ Weight(maxScore, S) \in Nat
    <2>1. /\ \A x \in T : maxScore[x] \in Nat
          /\ \A x \in S : maxScore[x] \in Nat /\ maxScore[x] <= maxScore[x]
      BY <1>2
    <2> QED
      BY <1>3, <1>5, <2>1, WeightMonotone
  <1>7. ASSUME \A t \in QueryTerms : ~done'[t] => d < doc'[t] PROVE LiveBound(d)' = 0
    <2>1. S = {}
      <3> SUFFICES ASSUME NEW t \in QueryTerms, ~done'[t], doc'[t] <= d PROVE FALSE
        BY <1>1
      <3>1. doc'[t] \in Nat /\ d < doc'[t]
        BY <1>7 DEF Moves
      <3> QED
        BY <3>1
    <2>2. IsFiniteSet({}) /\ \A x \in {} : maxScore[x] \in Nat
      BY FS_EmptySet
    <2>3. Weight(maxScore, {}) = 0
      BY <2>2, WeightAdds
    <2> QED
      BY <1>4, <2>1, <2>3
  <1> QED
    BY <1>4, <1>5, <1>6, <1>7

\* A hit is a document with its score.
Hit(h) == h = [doc |-> h.doc, score |-> h.score] /\ h.doc \in Nat /\ h.score \in Nat

\* Hits of different documents.
HitSet(S) == IsFiniteSet(S) /\ (\A h \in S : Hit(h)) /\ \A g, h \in S : g.doc = h.doc => g = h

\* The score of the root is the least of the heap.
LEMMA RootScoreIs ==
  ASSUME NEW S, HitSet(S), S # {}
  PROVE  rootScore(S) \in Nat /\ (\A h \in S : rootScore(S) <= h.score) /\ \E h \in S : h.score = rootScore(S)
  <1>1. PICK T : T = {h.score : h \in S}
    OBVIOUS
  <1>2. T \in SUBSET Int /\ T \in SUBSET Nat /\ T # {}
    BY <1>1 DEF HitSet, Hit
  <1>3. IsFiniteSet(T)
    <2>1. PICK f : f = [h \in S |-> h.score]
      OBVIOUS
    <2>2. f \in Surjection(S, T)
      BY <1>1, <2>1 DEF Surjection
    <2> QED
      BY <2>2, FS_Surjection DEF HitSet
  <1>4. rootScore(S) = Min(T)
    BY <1>1 DEF rootScore
  <1>5. Min(T) \in T /\ \A y \in T : Min(T) <= y
    BY <1>2, <1>3, Extremes
  <1> QED
    BY <1>1, <1>2, <1>4, <1>5

\* Of two hits of different documents one is better, and better is transitive.
LEMMA BetterIsOrder ==
  /\ \A g, h : Hit(g) /\ Hit(h) /\ g.doc # h.doc => better(g, h) \/ better(h, g)
  /\ \A g, h : Hit(g) /\ Hit(h) => ~(better(g, h) /\ better(h, g))
  /\ \A f, g, h : Hit(f) /\ Hit(g) /\ Hit(h) /\ better(f, g) /\ better(g, h) => better(f, h)
  /\ \A g, h : Hit(g) /\ Hit(h) /\ better(g, h) => h.score <= g.score
  <1>1. ASSUME NEW g, NEW h, Hit(g), Hit(h)
        PROVE  /\ g.doc # h.doc => better(g, h) \/ better(h, g)
               /\ ~(better(g, h) /\ better(h, g))
               /\ better(g, h) => h.score <= g.score
    BY <1>1 DEF Hit, better
  <1>2. ASSUME NEW f, NEW g, NEW h, Hit(f), Hit(g), Hit(h), better(f, g), better(g, h)
        PROVE  better(f, h)
    BY <1>2 DEF Hit, better
  <1> QED
    BY <1>1, <1>2

\* A heap that is not empty has a root.
LEMMA RootExists ==
  ASSUME NEW S, HitSet(S), S # {}
  PROVE  \E h \in S : \A g \in S \ {h} : better(g, h)
  <1> DEFINE R == {p \in S \X S : better(p[1], p[2])}
             c == Cardinality(S)
  <1>1. \A x, y : <<x, y>> \in R <=> x \in S /\ y \in S /\ better(x, y)
    OBVIOUS
  <1> HIDE DEF R
  <1>2. \A x \in S : Hit(x)
    BY DEF HitSet
  <1>3. StrictOrder(S, R)
    <2>1. ASSUME NEW x \in S PROVE <<x, x>> \notin R
      BY <1>1, <1>2, BetterIsOrder
    <2>2. ASSUME NEW x \in S, NEW y \in S, x # y PROVE <<x, y>> \in R \/ <<y, x>> \in R
      <3>1. x.doc # y.doc
        BY <2>2 DEF HitSet
      <3> QED
        BY <1>1, <1>2, <3>1, BetterIsOrder
    <2>3. ASSUME NEW x \in S, NEW y \in S, NEW z \in S, <<x, y>> \in R, <<y, z>> \in R PROVE <<x, z>> \in R
      BY <1>1, <1>2, <2>3, BetterIsOrder
    <2> QED
      BY <2>1, <2>2, <2>3 DEF StrictOrder
  <1>4. IsFiniteSet(S) /\ c \in Nat /\ c # 0
    BY FS_CardinalityType, FS_EmptySet DEF HitSet
  <1>5. PICK h \in S : Cardinality(Ahead(S, R, h)) = c - 1
    <2>1. c - 1 \in 0 .. c - 1
      BY <1>4
    <2> QED
      BY <1>3, <1>4, <2>1, RankIsTaken
  <1>6. ASSUME NEW g \in S, g # h PROVE better(g, h)
    <2>1. <<h, g>> \notin R
      <3>1. ASSUME <<h, g>> \in R PROVE FALSE
        <4>1. Cardinality(Ahead(S, R, h)) < Cardinality(Ahead(S, R, g)) /\ Cardinality(Ahead(S, R, g)) \in 0 .. c - 1
          BY <1>3, <1>4, <3>1, RankGrows
        <4> QED
          BY <1>4, <1>5, <4>1
      <3> QED
        BY <3>1
    <2>2. <<g, h>> \in R
      BY <1>3, <1>6, <2>1 DEF StrictOrder
    <2> QED
      BY <1>1, <2>2
  <1> QED
    BY <1>6

\* Pushing a hit of a later document: the heap keeps its best, and its threshold never falls.
LEMMA PushKeepsBest ==
  ASSUME k \in Nat \ {0}, HitSet(top), Cardinality(top) <= k,
         threshold = IF Cardinality(top) = k THEN rootScore(top) ELSE 0,
         NEW hit, Hit(hit), \A h \in top : h.doc < hit.doc,
         NEW S, S = pushTop(hit),
         NEW th, th = IF Cardinality(S) = k THEN rootScore(S) ELSE threshold
  PROVE  /\ HitSet(S) /\ Cardinality(S) <= k /\ \A h \in S : h \in top \/ h = hit
         /\ th = (IF Cardinality(S) = k THEN rootScore(S) ELSE 0)
         /\ th \in Nat /\ threshold \in Nat /\ threshold <= th
         /\ \A h \in top : h \in S \/ Beaten(S, h)
         /\ hit \in S \/ Beaten(S, hit)
         /\ \A x : Hit(x) /\ Beaten(top, x) => Beaten(S, x)
  <1>1. IsFiniteSet(top) /\ Cardinality(top) \in Nat
    BY FS_CardinalityType DEF HitSet
  <1>2. /\ \A h \in top : Hit(h) /\ h # hit /\ h.doc # hit.doc
        /\ hit \notin top
    BY DEF HitSet, Hit
  <1>3. IsFiniteSet(top \cup {hit}) /\ Cardinality(top \cup {hit}) = Cardinality(top) + 1
    BY <1>1, <1>2, FS_AddElement
  <1>4. Cardinality(top) = k => top # {}
    BY FS_EmptySet
  <1>5. CASE Cardinality(top) < k
    <2>1. S = top \cup {hit}
      BY <1>5 DEF pushTop
    <2>2. HitSet(S)
      BY <1>2, <1>3, <2>1 DEF HitSet
    <2>3. Cardinality(S) <= k /\ Cardinality(S) \in Nat
      BY <1>1, <1>3, <1>5, <2>1
    <2>4. Cardinality(top) # k /\ threshold = 0
      BY <1>1, <1>5
    <2>5. S # {}
      BY <2>1
    <2>6. rootScore(S) \in Nat
      BY <2>2, <2>5, RootScoreIs
    <2>7. th \in Nat /\ th = (IF Cardinality(S) = k THEN rootScore(S) ELSE 0)
      BY <2>4, <2>6
    <2>8. hit \in S /\ \A h \in S : h \in top \/ h = hit
      BY <2>1
    <2>9. \A h \in top : h \in S
      BY <2>1
    <2> QED
      BY <2>2, <2>3, <2>4, <2>7, <2>8, <2>9 DEF Beaten
  <1>6. CASE ~(Cardinality(top) < k)
    <2>1. Cardinality(top) = k /\ top # {}
      BY <1>1, <1>4, <1>6
    <2>2. PICK root : root = CHOOSE h \in top : \A g \in top \ {h} : better(g, h)
      OBVIOUS
    <2>3. root \in top /\ \A g \in top \ {root} : better(g, root)
      <3>1. \E h \in top : \A g \in top \ {h} : better(g, h)
        BY <2>1, RootExists
      <3> QED
        BY <2>2, <3>1
    <2>4. S = IF better(hit, root) THEN (top \ {root}) \cup {hit} ELSE top
      BY <1>6, <2>2 DEF pushTop
    <2>5. rootScore(top) \in Nat /\ \A h \in top : rootScore(top) <= h.score
      BY <2>1, RootScoreIs
    <2>6. threshold = rootScore(top)
      BY <2>1
    <2>7. CASE better(hit, root)
      <3>1. S = (top \ {root}) \cup {hit}
        BY <2>4, <2>7
      <3>2. IsFiniteSet(top \ {root}) /\ Cardinality(top \ {root}) = k - 1
        BY <1>1, <2>1, <2>3, FS_RemoveElement
      <3>3. IsFiniteSet(S) /\ Cardinality(S) = k
        <4>1. hit \notin top \ {root}
          BY <1>2
        <4>2. Cardinality(S) = (k - 1) + 1 /\ IsFiniteSet(S)
          BY <3>1, <3>2, <4>1, FS_AddElement
        <4> QED
          BY <4>2
      <3>4. HitSet(S)
        BY <1>2, <3>1, <3>3 DEF HitSet
      <3>5. \A h \in S : better(h, root)
        BY <2>3, <2>7, <3>1
      <3>6. Beaten(S, root)
        BY <3>3, <3>5 DEF Beaten
      <3>7. S # {}
        BY <3>1
      <3>8. PICK h \in S : h.score = rootScore(S)
        BY <3>4, <3>7, RootScoreIs
      <3>9. rootScore(S) \in Nat
        BY <3>4, <3>7, RootScoreIs
      <3>10. th = rootScore(S)
        BY <3>3
      <3>11. rootScore(top) <= rootScore(S)
        <4>1. Hit(h) /\ Hit(root) /\ better(h, root)
          BY <1>2, <2>3, <3>4, <3>5 DEF HitSet
        <4>2. root.score <= h.score
          BY <4>1, BetterIsOrder
        <4>3. rootScore(top) <= root.score
          BY <2>3, <2>5
        <4> QED
          BY <2>5, <3>8, <4>1, <4>2, <4>3 DEF Hit
      <3>12. \A g \in top : g \in S \/ g = root
        BY <3>1
      <3>13. ASSUME NEW x, Hit(x), Beaten(top, x) PROVE Beaten(S, x)
        <4>1. better(root, x) /\ Hit(root)
          BY <1>2, <2>3, <3>13 DEF Beaten
        <4>2. \A g \in S : Hit(g) /\ better(g, root)
          BY <3>4, <3>5 DEF HitSet
        <4>3. \A g \in S : better(g, x)
          BY <3>13, <4>1, <4>2, BetterIsOrder
        <4> QED
          BY <3>3, <4>3 DEF Beaten
      <3>14. hit \in S /\ \A g \in S : g \in top \/ g = hit
        BY <3>1
      <3>15. Cardinality(S) <= k
        BY <3>3
      <3> QED
        BY ONLY <2>5, <2>6, <3>3, <3>4, <3>6, <3>9, <3>10, <3>11, <3>12, <3>13, <3>14, <3>15
    <2>8. CASE ~better(hit, root)
      <3>1. S = top
        BY <2>4, <2>8
      <3>2. better(root, hit)
        BY <1>2, <2>3, <2>8, BetterIsOrder
      <3>3. \A g \in top : better(g, hit)
        <4> SUFFICES ASSUME NEW g \in top, g # root PROVE better(g, hit)
          BY <3>2
        <4>1. better(g, root) /\ Hit(g) /\ Hit(root)
          BY <1>2, <2>3
        <4> QED
          BY <3>2, <4>1, BetterIsOrder
      <3>4. Beaten(S, hit)
        BY <2>1, <3>1, <3>3 DEF Beaten
      <3>5. th = rootScore(top)
        BY <2>1, <3>1
      <3> QED
        BY <2>1, <2>5, <2>6, <3>1, <3>4, <3>5
    <2> QED
      BY <2>7, <2>8
  <1> QED
    BY <1>5, <1>6

\* The documents of the terms that score are those that some term with a bound above zero has.
LEMMA DocsAreHeld ==
  ASSUME CallOK
  PROVE  \A d : d \in Docs <=> \E t \in QueryTerms : Holds(t, d) /\ 0 < maxScore[t]
  <1>1. ASSUME NEW t \in QueryTerms, NEW d
        PROVE  d \in {given[t][i][1] : i \in DOMAIN given[t]} <=> Holds(t, d)
    BY DEF Holds, ToSet
  <1>2. \A t : t \in weighty <=> t \in QueryTerms /\ 0 < maxScore[t]
    <2>1. weighty \in SUBSET QueryTerms
      BY DEF weighty
    <2> QED
      BY <2>1, Contributes
  <1> QED
    BY <1>1, <1>2 DEF Docs

\* The score of a document is what any set of terms gives that holds all that have it.
LEMMA ScoreOf ==
  ASSUME CallOK, NEW d, NEW S \in SUBSET QueryTerms, NEW m,
         \A t \in S : m[t] = contribution(t, d), \A t \in QueryTerms \ S : ~Holds(t, d)
  PROVE  hitOf(d).doc = d /\ hitOf(d).score = Weight(m, S) /\ hitOf(d).score \in Nat
         /\ hitOf(d) = [doc |-> d, score |-> Weight(m, S)]
  <1>1. PICK c : c = [t \in QueryTerms |-> contribution(t, d)]
    OBVIOUS
  <1>2. DOMAIN c = QueryTerms /\ \A t \in QueryTerms : c[t] = contribution(t, d) /\ c[t] \in Nat
    BY <1>1, Contributes
  <1>3. SumFunction(c) = Weight(c, QueryTerms) /\ SumFunction(c) \in Nat
    BY <1>2, WandAssumption, SumIsItsWeight
  <1>4. IsFiniteSet(S)
    BY WandAssumption, FS_Subset
  <1>5. PICK b : b = [t \in S |-> t]
    OBVIOUS
  <1>6. /\ b \in [S -> QueryTerms] /\ \A x, y \in S : b[x] = b[y] => x = y
        /\ \A x \in S : c[b[x]] = c[x] /\ c[x] \in Nat
        /\ \A y \in QueryTerms : (\A x \in S : b[x] # y) => c[y] = 0
    <2>1. \A t \in QueryTerms \ S : c[t] = 0
      BY <1>2, Contributes
    <2> QED
      BY <1>2, <1>5, <2>1
  <1>7. Weight(c, QueryTerms) = Weight(c, S)
    BY <1>4, <1>6, WeightCarries
  <1>8. Weight(c, S) = Weight(m, S)
    <2>1. \A t \in S : c[t] = m[t]
      BY <1>2
    <2> QED
      BY <2>1, SameWeight
  <1>9. hitOf(d) = [doc |-> d, score |-> SumFunction(c)]
    BY <1>1 DEF hitOf
  <1> QED
    BY <1>3, <1>7, <1>8, <1>9

\* No document scores more than bounds on what those terms give it.
LEMMA ScoreBound ==
  ASSUME CallOK, NEW d, NEW S \in SUBSET QueryTerms, NEW m,
         \A t \in S : m[t] \in Nat /\ contribution(t, d) <= m[t], \A t \in QueryTerms \ S : ~Holds(t, d)
  PROVE  hitOf(d).score <= Weight(m, S)
  <1>1. PICK c : c = [t \in S |-> contribution(t, d)]
    OBVIOUS
  <1>2. \A t \in S : c[t] = contribution(t, d) /\ c[t] \in Nat /\ c[t] <= m[t]
    BY <1>1, Contributes
  <1>3. hitOf(d).score = Weight(c, S)
    BY <1>2, ScoreOf
  <1>4. IsFiniteSet(S)
    BY WandAssumption, FS_Subset
  <1>5. Weight(c, S) <= Weight(m, S)
    BY <1>2, <1>4, WeightMonotone
  <1> QED
    BY <1>3, <1>5

\* The hit of a document that some term has.
LEMMA HeldIsHit ==
  ASSUME CallOK, NEW t \in QueryTerms, NEW d, Holds(t, d)
  PROVE  Hit(hitOf(d)) /\ hitOf(d).doc = d /\ d \in Nat /\ d < LastDocID
  <1>1. PICK p \in ToSet(given[t]) : p[1] = d
    BY DEF Holds
  <1>2. d \in Nat /\ d < LastDocID
    BY <1>1, TermsAreOK
  <1>3. PICK c : c = [u \in QueryTerms |-> contribution(u, d)]
    OBVIOUS
  <1>4. hitOf(d).doc = d /\ hitOf(d).score \in Nat
        /\ hitOf(d) = [doc |-> d, score |-> Weight(c, QueryTerms)]
    <2>1. QueryTerms \in SUBSET QueryTerms /\ \A u \in QueryTerms : c[u] = contribution(u, d)
      BY <1>3
    <2> QED
      BY <2>1, ScoreOf
  <1> QED
    BY <1>2, <1>4 DEF Hit

\* The hit of a document that the answer is about.
LEMMA HitsAreHits ==
  ASSUME CallOK, NEW d \in Docs
  PROVE  Hit(hitOf(d)) /\ hitOf(d).doc = d /\ d \in Nat /\ d < LastDocID
  BY DocsAreHeld, HeldIsHit

\* The heap is a set of hits of different documents, and the threshold a number none of them is below.
LEMMA HeapIsHits ==
  ASSUME CallOK, HeapOK
  PROVE  /\ HitSet(top) /\ threshold \in Nat
         /\ Cardinality(top) = k => \A h \in top : threshold <= h.score
         /\ Cardinality(top) # k => threshold = 0
  <1>1. HitSet(top)
    <2>1. \A h \in top : \E d \in Docs : h = hitOf(d) /\ Hit(h) /\ h.doc = d
      BY HitsAreHits DEF HeapOK
    <2>2. ASSUME NEW g \in top, NEW h \in top, g.doc = h.doc PROVE g = h
      <3>1. g = hitOf(g.doc) /\ h = hitOf(h.doc)
        BY <2>1
      <3> QED
        BY <2>2, <3>1
    <2> QED
      BY <2>1, <2>2 DEF HitSet, HeapOK
  <1>2. Cardinality(top) = k => top # {}
    BY FS_EmptySet DEF CallOK
  <1>3. Cardinality(top) = k => rootScore(top) \in Nat /\ \A h \in top : rootScore(top) <= h.score
    BY <1>1, <1>2, RootScoreIs
  <1> QED
    BY <1>1, <1>3 DEF HeapOK

\* A live term stands on a document of its own, with the contribution the cursor reads.
LEMMA LiveTermsStand ==
  ASSUME CallOK, CursorsOK, NEW t \in QueryTerms, ~done[t]
  PROVE  /\ Holds(t, doc[t]) /\ doc[t] \in Nat /\ doc[t] < LastDocID
         /\ contribution(t, doc[t]) = Scorer[t][Freq(cursor[t])]
  <1>1. given[t] \in Seq(Pairs) /\ ListOK(lists[t], given[t]) /\ CursorOn(lists[t], cursor[t], doc[t])
    BY TermsAreOK DEF CursorsOK
  <1>2. PICK p \in ToSet(given[t]) : p[1] = doc[t] /\ Freq(cursor[t]) = p[2]
    BY <1>1, OnPosting
  <1>3. Holds(t, doc[t])
    BY <1>2 DEF Holds
  <1>4. contribution(t, p[1]) = Scorer[t][p[2]]
    BY Contributes
  <1>5. doc[t] \in Nat /\ doc[t] < LastDocID
    BY <1>3, HeldIsHit
  <1> QED
    BY <1>2, <1>3, <1>4, <1>5

\* An awaited document that cannot beat the threshold is decided already.
LEMMA OutOfReach ==
  ASSUME CallOK, CursorsOK, HeapOK, NEW d \in Docs, Awaited(d), hitOf(d).score <= threshold, 0 < threshold
  PROVE  Decided(d)
  <1>1. Hit(hitOf(d)) /\ hitOf(d).doc = d /\ d \in Nat /\ hitOf(d).score \in Nat
    BY HitsAreHits DEF Hit
  <1>2. /\ HitSet(top) /\ threshold \in Nat
        /\ Cardinality(top) = k => \A h \in top : threshold <= h.score
        /\ Cardinality(top) # k => threshold = 0
    BY HeapIsHits
  <1>3. Cardinality(top) = k /\ \A h \in top : threshold <= h.score
    <2>1. threshold # 0
      BY <1>2
    <2> QED
      BY <1>2, <2>1
  <1>4. PICK t \in QueryTerms : ~done[t] /\ doc[t] <= d
    BY DocsAreHeld DEF Awaited
  <1>5. doc[t] \in Nat
    BY <1>4, LiveTermsStand
  <1>6. ASSUME NEW h \in top PROVE better(h, hitOf(d))
    <2>1. Hit(h) /\ h.doc < doc[t] /\ threshold <= h.score
      BY <1>2, <1>3, <1>4 DEF HitSet, HeapOK
    <2>2. PICK s, x \in Nat : s = hitOf(d).score /\ x = h.score /\ h.doc \in Nat
      BY <1>1, <2>1 DEF Hit
    <2>3. s <= x /\ h.doc < d
      BY <1>1, <1>2, <1>4, <1>5, <2>1, <2>2
    <2>4. x > s \/ (x = s /\ h.doc < d)
      BY <2>2, <2>3
    <2> QED
      BY <1>1, <2>2, <2>4 DEF better
  <1> QED
    BY <1>3, <1>6 DEF Decided, Beaten

\* An awaited document scores no more than the terms that stand at or before it allow.
LEMMA AwaitedBound ==
  ASSUME CallOK, NEW d, Awaited(d)
  PROVE  hitOf(d).score <= LiveBound(d)
  <1>1. Standing(d) \in SUBSET QueryTerms /\ \A t \in QueryTerms \ Standing(d) : ~Holds(t, d)
    BY DEF Standing, Awaited
  <1>2. \A t \in Standing(d) : maxScore[t] \in Nat /\ contribution(t, d) <= maxScore[t]
    BY <1>1, Contributes
  <1>3. hitOf(d).score <= Weight(maxScore, Standing(d))
    BY <1>1, <1>2, ScoreBound
  <1>4. LiveBound(d) = Weight(maxScore, Standing(d))
    BY LiveBoundIs, Contributes
  <1> QED
    BY <1>3, <1>4

\* An awaited document of a term that scores has a bound above zero.
LEMMA AwaitedCounts ==
  ASSUME CallOK, NEW d \in Docs, Awaited(d)
  PROVE  0 < LiveBound(d)
  <1>1. PICK t \in QueryTerms : Holds(t, d) /\ 0 < maxScore[t]
    BY DocsAreHeld
  <1>2. \A u \in QueryTerms : maxScore[u] \in Nat
    BY Contributes
  <1>3. PICK S, T : S = {t} /\ T = Standing(d)
    OBVIOUS
  <1>4. S \in SUBSET T /\ T \in SUBSET QueryTerms
    BY <1>1, <1>3 DEF Awaited, Standing
  <1>5. LiveBound(d) = Weight(maxScore, T) /\ LiveBound(d) \in Nat /\ IsFiniteSet(T)
    BY <1>2, <1>3, LiveBoundIs
  <1>6. Weight(maxScore, S) <= Weight(maxScore, T)
    <2>1. /\ \A u \in T : maxScore[u] \in Nat
          /\ \A u \in S : maxScore[u] \in Nat /\ maxScore[u] <= maxScore[u]
      BY <1>2, <1>4
    <2> QED
      BY <1>4, <1>5, <2>1, WeightMonotone
  <1>7. Weight(maxScore, S) = maxScore[t]
    BY <1>2, <1>3, WeightOfOne
  <1> QED
    BY <1>1, <1>2, <1>5, <1>6, <1>7

\* A document on which all the terms stand that stand no later, and whose bound is above zero, is
\* one of a term that scores.
LEMMA PivotCounts ==
  ASSUME CallOK, CursorsOK, NEW D \in Nat, 0 < LiveBound(D), \A t \in QueryTerms : ~done[t] => D <= doc[t]
  PROVE  D \in Docs
  <1>1. \A t \in QueryTerms : maxScore[t] \in Nat
    BY Contributes
  <1>2. LiveBound(D) = Weight(maxScore, Standing(D))
    BY <1>1, LiveBoundIs
  <1>3. PICK t \in Standing(D) : maxScore[t] # 0
    <2> SUFFICES ASSUME \A t \in Standing(D) : maxScore[t] = 0 PROVE FALSE
      OBVIOUS
    <2>1. Units(maxScore, Standing(D)) = {}
      BY DEF Units
    <2>2. Weight(maxScore, Standing(D)) = 0
      BY <2>1, FS_EmptySet DEF Weight
    <2> QED
      BY <1>2, <2>2
  <1>4. t \in QueryTerms /\ ~done[t] /\ doc[t] <= D
    BY DEF Standing
  <1>5. Holds(t, doc[t]) /\ doc[t] \in Nat /\ D <= doc[t]
    BY <1>4, LiveTermsStand
  <1>6. Holds(t, D) /\ 0 < maxScore[t]
    <2>1. doc[t] = D
      BY <1>4, <1>5
    <2> QED
      BY <1>1, <1>3, <1>4, <1>5, <2>1
  <1> QED
    BY <1>4, <1>6, DocsAreHeld

\* What a turn must do to keep every document awaited or decided: move the terms, keep what is
\* decided, not lower the threshold, and settle the awaited documents before the target.
LEMMA CoverKeeps ==
  ASSUME CallOK, CursorsOK, CoverOK, NEW target \in Nat, Moves(target),
         given' = given, maxScore' = maxScore, threshold \in Nat, threshold' \in Nat, threshold <= threshold',
         \A d \in Docs : Decided(d) => Decided(d)',
         \A d \in Docs : Awaited(d) /\ d < target => Awaited(d)' \/ (Decided(d)' /\ LiveBound(d)' <= threshold')
  PROVE  CoverOK'
  <1>1. Docs' = Docs
    BY DEF Docs, weighty
  <1>2. \A t \in QueryTerms : ~done[t] => doc[t] \in Nat
    BY LiveTermsStand
  <1>3. \A t \in QueryTerms : maxScore[t] \in Nat
    BY Contributes
  <1>4. ASSUME NEW d \in Docs PROVE Awaited(d)' \/ (Decided(d)' /\ LiveBound(d)' <= threshold')
    <2>1. d \in Nat
      BY HitsAreHits
    <2>2. CASE Awaited(d) /\ target <= d
      <3> SUFFICES ASSUME NEW t \in QueryTerms, Holds(t, d)' PROVE ~done'[t] /\ doc'[t] <= d
        BY DEF Awaited
      <3>1. Holds(t, d)
        BY DEF Holds
      <3>2. ~done[t] /\ doc[t] <= d
        BY <2>2, <3>1 DEF Awaited
      <3> QED
        BY <2>1, <2>2, <3>1, <3>2 DEF Moves
    <2>3. CASE Awaited(d) /\ ~(target <= d)
      <3>1. d < target
        BY <2>1, <2>3
      <3> QED
        BY <2>3, <3>1
    <2>4. CASE Decided(d) /\ LiveBound(d) <= threshold
      <3>1. LiveBound(d)' \in Nat /\ LiveBound(d)' <= LiveBound(d)
        BY <1>2, <1>3, <2>1, BoundShrinks
      <3>2. LiveBound(d) \in Nat
        BY <1>3, LiveBoundIs
      <3>3. LiveBound(d)' <= threshold'
        BY <2>4, <3>1, <3>2
      <3> QED
        BY <2>4, <3>3
    <2> QED
      BY <2>2, <2>3, <2>4 DEF CoverOK
  <1> QED
    BY <1>1, <1>4 DEF CoverOK

\* While the heap stays as it is, the moves of the terms keep it behind them.
LEMMA HeapStays ==
  ASSUME CallOK, CursorsOK, HeapOK, NEW target, Moves(target),
         given' = given, k' = k, top' = top, threshold' = threshold
  PROVE  HeapOK' /\ \A d \in Docs : Decided(d) => Decided(d)'
  <1>1. \A d : hitOf(d)' = hitOf(d)
    BY DEF hitOf, contribution
  <1>2. Docs' = Docs
    BY DEF Docs, weighty
  <1>3. ASSUME NEW h \in top, NEW t \in QueryTerms, ~done'[t] PROVE h.doc < doc'[t]
    <2>1. ~done[t] /\ doc'[t] \in Nat /\ doc[t] <= doc'[t]
      BY <1>3 DEF Moves
    <2>2. h.doc < doc[t] /\ doc[t] \in Nat
      BY <2>1, LiveTermsStand DEF HeapOK
    <2>3. h.doc \in Nat
      BY HeapIsHits DEF HitSet, Hit
    <2> QED
      BY <2>1, <2>2, <2>3
  <1>4. HeapOK'
    <2>1. \A h \in top' : \E d \in Docs' : h = hitOf(d)'
      BY <1>1, <1>2 DEF HeapOK
    <2>2. threshold' = IF Cardinality(top') = k' THEN rootScore(top') ELSE 0
      BY DEF HeapOK
    <2>3. IsFiniteSet(top') /\ Cardinality(top') <= k'
      BY DEF HeapOK
    <2> QED
      BY <1>3, <2>1, <2>2, <2>3 DEF HeapOK
  <1>5. ASSUME NEW d \in Docs, Decided(d) PROVE Decided(d)'
    BY <1>1, <1>5 DEF Decided, Beaten
  <1> QED
    BY <1>4, <1>5

\* Realign: a term that is short of the pivot moves up to it.
LEMMA RealignKeeps ==
  ASSUME CallOK, CursorsOK, HeapOK, CoverOK,
         NEW D \in Nat, \A d \in Nat : d < D => LiveBound(d) <= threshold,
         NEW live, NEW x, x = live[pickAdvance(live, D)], x \in QueryTerms, ~done[x], doc[x] < D,
         realign(live, D), given' = given, lists' = lists, k' = k, maxScore' = maxScore
  PROVE  CursorsOK' /\ HeapOK' /\ CoverOK'
  <1>1. PICK ts : ts = {x}
    OBVIOUS
  <1>2. advance(ts, cursor, D) /\ top' = top /\ threshold' = threshold
    BY <1>1 DEF realign
  <1>3. CursorsOK' /\ Moves(D)
    <2>1. ts \in SUBSET QueryTerms /\ \A t \in ts : ~done[t] /\ doc[t] < D
      BY <1>1
    <2>2. \A t \in QueryTerms : ~done[t] => CursorOn(lists[t], cursor[t], doc[t])
      BY DEF CursorsOK
    <2> QED
      BY <1>2, <2>1, <2>2, AdvanceMoves
  <1>4. HeapOK' /\ \A d \in Docs : Decided(d) => Decided(d)'
    BY <1>2, <1>3, HeapStays
  <1>5. threshold \in Nat
    BY HeapIsHits
  <1>6. ASSUME NEW d \in Docs, Awaited(d), d < D PROVE Decided(d)' /\ LiveBound(d)' <= threshold'
    <2>1. d \in Nat /\ hitOf(d).score \in Nat
      BY HitsAreHits DEF Hit
    <2>2. LiveBound(d) <= threshold
      BY <1>6, <2>1
    <2>3. LiveBound(d) \in Nat
      BY LiveBoundIs, Contributes
    <2>4. hitOf(d).score <= LiveBound(d)
      BY <1>6, AwaitedBound
    <2>5. hitOf(d).score <= threshold
      BY <1>5, <2>1, <2>2, <2>3, <2>4
    <2>6. Decided(d)
      <3>1. 0 < LiveBound(d)
        BY <1>6, AwaitedCounts
      <3>2. 0 < threshold
        BY <1>5, <2>2, <2>3, <3>1
      <3> QED
        BY <1>6, <2>5, <3>2, OutOfReach
    <2>7. LiveBound(d)' \in Nat /\ LiveBound(d)' <= LiveBound(d)
      <3>1. /\ \A t \in QueryTerms : maxScore[t] \in Nat
            /\ \A t \in QueryTerms : ~done[t] => doc[t] \in Nat
        BY Contributes, LiveTermsStand
      <3> QED
        BY <1>3, <2>1, <3>1, BoundShrinks
    <2>8. LiveBound(d)' <= threshold'
      BY <1>2, <1>5, <2>2, <2>3, <2>7
    <2> QED
      BY <1>4, <2>6, <2>8
  <1>7. CoverOK'
    <2>1. threshold' \in Nat /\ threshold <= threshold'
      BY <1>2, <1>5
    <2> QED
      BY <1>3, <1>4, <1>5, <1>6, <2>1, CoverKeeps
  <1> QED
    BY <1>3, <1>4, <1>7

\* The terms on the pivot, when no live term is before it.
LEMMA PivotSetIs ==
  ASSUME NEW D \in Nat, \A t \in QueryTerms : ~done[t] => doc[t] \in Nat /\ D <= doc[t]
  PROVE  /\ pivotSet(D) = {t \in QueryTerms : ~done[t] /\ doc[t] = D}
         /\ IsFiniteSet(pivotSet(D)) /\ pivotSet(D) \in SUBSET QueryTerms
  <1>1. pivotSet(D) = {t \in QueryTerms : ~done[t] /\ doc[t] = D}
    BY DEF pivotSet
  <1>2. pivotSet(D) \in SUBSET QueryTerms
    BY DEF pivotSet
  <1>3. IsFiniteSet(pivotSet(D))
    BY <1>2, WandAssumption, FS_Subset
  <1> QED
    BY <1>1, <1>2, <1>3

\* The shallow pointers of the terms on the pivot come to the blocks they stand in.
LEMMA ShallowedStand ==
  ASSUME CallOK, CursorsOK, NEW D \in Nat, NEW t \in QueryTerms, ~done[t], D <= doc[t]
  PROVE  /\ CursorOn(lists[t], shallowed(D)[t], doc[t])
         /\ doc[t] = D => shallowed(D)[t].shallowIdx = shallowed(D)[t].blockIdx
  <1>1. given[t] \in Seq(Pairs) /\ ListOK(lists[t], given[t]) /\ CursorOn(lists[t], cursor[t], doc[t])
    BY TermsAreOK DEF CursorsOK
  <1>2. CASE doc[t] = D
    <2>1. shallowed(D)[t] = AdvanceShallow(lists[t], cursor[t], doc[t])
      BY <1>2 DEF shallowed
    <2> QED
      BY <1>1, <2>1, ShallowIsHere
  <1>3. CASE doc[t] # D
    <2>1. doc[t] \in Nat
      BY LiveTermsStand
    <2>2. ~(doc[t] <= D)
      BY <1>3, <2>1
    <2>3. shallowed(D)[t] = cursor[t]
      BY <2>2 DEF shallowed
    <2> QED
      BY <1>1, <1>3, <2>3
  <1> QED
    BY <1>2, <1>3

\* Score: the pivot, on which every live term that has it stands, is scored in full.
LEMMA ScoreKeeps ==
  ASSUME CallOK, CursorsOK, HeapOK, CoverOK,
         NEW D \in Docs, ~(LiveBound(D) <= threshold),
         \A t \in QueryTerms : ~done[t] => D <= doc[t],
         scorePivot(shallowed(D), D), given' = given, lists' = lists, k' = k, maxScore' = maxScore
  PROVE  CursorsOK' /\ HeapOK' /\ CoverOK'
  <1> DEFINE cs == shallowed(D)
             hit == [doc |-> D, score |-> scoreDoc(D)]
             ts == {t \in QueryTerms : ~done[t] /\ doc[t] = D}
  <1>1. D \in Nat /\ D < LastDocID /\ Hit(hitOf(D)) /\ hitOf(D).doc = D
    BY HitsAreHits
  <1>2. \A t \in QueryTerms : ~done[t] => doc[t] \in Nat
    BY LiveTermsStand
  <1>3. Awaited(D)
    BY DEF CoverOK
  <1>4. successor(D) = D + 1
    <2>1. LastDocID \in Nat /\ D + 1 < LastDocID + 1
      BY <1>1, WandAssumption
    <2> QED
      BY <1>1, <2>1 DEF successor
  <1>5. hit = hitOf(D)
    <2>1. PICK f : f = [t \in ts |-> Scorer[t][Freq(cursor[t])]]
      OBVIOUS
    <2>2. scoreDoc(D) = SumFunction(f)
      BY <2>1 DEF scoreDoc
    <2>3. ts \in SUBSET QueryTerms /\ \A t \in QueryTerms \ ts : ~Holds(t, D)
      <3>1. ASSUME NEW t \in QueryTerms, Holds(t, D) PROVE t \in ts
        <4>1. ~done[t] /\ doc[t] <= D
          BY <1>3, <3>1 DEF Awaited
        <4>2. doc[t] \in Nat /\ D <= doc[t]
          BY <1>2, <4>1
        <4>3. doc[t] = D
          BY <1>1, <4>1, <4>2
        <4> QED
          BY <4>1, <4>3
      <3> QED
        BY <3>1
    <2>4. DOMAIN f = ts /\ \A t \in ts : f[t] = contribution(t, D) /\ f[t] \in Nat
      <3>1. \A t \in ts : contribution(t, D) = Scorer[t][Freq(cursor[t])]
        BY LiveTermsStand
      <3>2. \A t \in ts : contribution(t, D) \in Nat
        BY Contributes
      <3> QED
        BY <2>1, <3>1, <3>2
    <2>5. IsFiniteSet(ts)
      BY <2>3, WandAssumption, FS_Subset
    <2> HIDE DEF ts
    <2>6. SumFunction(f) = Weight(f, ts)
      BY <2>4, <2>5, SumIsItsWeight
    <2>7. hitOf(D) = [doc |-> D, score |-> Weight(f, ts)]
      BY <2>3, <2>4, ScoreOf
    <2> QED
      BY <2>2, <2>6, <2>7
  <1>6. /\ top' = pushTop(hit)
        /\ threshold' = IF Cardinality(top') = k THEN rootScore(top') ELSE threshold
        /\ advance(ts, cs, D + 1)
    BY <1>4 DEF scorePivot
  <1>7. \A t \in QueryTerms : ~done[t] => CursorOn(lists[t], cs[t], doc[t])
    BY <1>1, ShallowedStand
  <1> HIDE DEF cs
  <1>8. /\ CursorsOK' /\ Moves(D + 1)
        /\ \A t \in ts : ~done'[t] => D + 1 <= doc'[t]
        /\ \A t \in QueryTerms \ ts : done'[t] = done[t] /\ doc'[t] = doc[t]
    <2>1. D + 1 \in Nat /\ ts \in SUBSET QueryTerms /\ \A t \in ts : ~done[t] /\ doc[t] < D + 1
      BY <1>1
    <2> HIDE DEF ts
    <2> QED
      BY <1>6, <1>7, <2>1, AdvanceMoves
  <1>9. \A t \in QueryTerms : ~done'[t] => D < doc'[t] /\ doc'[t] \in Nat
    <2> SUFFICES ASSUME NEW t \in QueryTerms, ~done'[t] PROVE D < doc'[t] /\ doc'[t] \in Nat
      OBVIOUS
    <2>1. ~done[t] /\ doc'[t] \in Nat /\ doc[t] \in Nat
      BY <1>2, <1>8 DEF Moves
    <2>2. CASE t \in ts
      BY <1>1, <1>8, <2>1, <2>2
    <2>3. CASE t \notin ts
      <3>1. doc'[t] = doc[t] /\ D <= doc[t] /\ doc[t] # D
        BY <1>8, <2>1, <2>3
      <3> QED
        BY <1>1, <2>1, <3>1
    <2> QED
      BY <2>2, <2>3
  <1> HIDE DEF hit, ts
  <1>10. \A h \in top : h.doc < D
    <2>1. PICK t \in QueryTerms : Holds(t, D)
      BY DocsAreHeld
    <2>2. ~done[t] /\ doc[t] <= D /\ doc[t] \in Nat /\ D <= doc[t]
      BY <1>2, <1>3, <2>1 DEF Awaited
    <2>3. doc[t] = D
      BY <1>1, <2>2
    <2> QED
      BY <2>2, <2>3 DEF HeapOK
  <1>11. /\ HitSet(top') /\ Cardinality(top') <= k /\ \A h \in top' : h \in top \/ h = hit
         /\ threshold' = (IF Cardinality(top') = k THEN rootScore(top') ELSE 0)
         /\ threshold' \in Nat /\ threshold \in Nat /\ threshold <= threshold'
         /\ \A h \in top : h \in top' \/ Beaten(top', h)
         /\ hit \in top' \/ Beaten(top', hit)
         /\ \A h : Hit(h) /\ Beaten(top, h) => Beaten(top', h)
    <2>1. k \in Nat \ {0} /\ HitSet(top) /\ Cardinality(top) <= k
          /\ threshold = IF Cardinality(top) = k THEN rootScore(top) ELSE 0
      BY HeapIsHits DEF CallOK, HeapOK
    <2>2. Hit(hit) /\ \A h \in top : h.doc < hit.doc
      BY <1>1, <1>5, <1>10
    <2>3. PICK S, th : S = top' /\ th = threshold'
      OBVIOUS
    <2>4. S = pushTop(hit) /\ th = IF Cardinality(S) = k THEN rootScore(S) ELSE threshold
      BY <1>6, <2>3
    <2>5. /\ HitSet(S) /\ Cardinality(S) <= k /\ \A h \in S : h \in top \/ h = hit
          /\ th = (IF Cardinality(S) = k THEN rootScore(S) ELSE 0)
          /\ th \in Nat /\ threshold \in Nat /\ threshold <= th
          /\ \A h \in top : h \in S \/ Beaten(S, h)
          /\ hit \in S \/ Beaten(S, hit)
          /\ \A x : Hit(x) /\ Beaten(top, x) => Beaten(S, x)
      BY <2>1, <2>2, <2>4, PushKeepsBest
    <2> QED
      BY <2>3, <2>5
  <1>12. \A d : hitOf(d)' = hitOf(d)
    BY DEF hitOf, contribution
  <1>13. Docs' = Docs
    BY DEF Docs, weighty
  <1>14. HeapOK'
    <2>1. \A h \in top' : \E d \in Docs' : h = hitOf(d)'
      BY <1>5, <1>11, <1>12, <1>13 DEF HeapOK
    <2>2. ASSUME NEW h \in top', NEW t \in QueryTerms, ~done'[t] PROVE h.doc < doc'[t]
      <3>1. D < doc'[t] /\ doc'[t] \in Nat
        BY <1>9, <2>2
      <3>2. h.doc \in Nat /\ h.doc <= D
        <4>1. Hit(h)
          BY <1>11, <2>2 DEF HitSet
        <4>2. h \in top \/ h.doc = D
          BY <1>1, <1>5, <1>11, <2>2
        <4> QED
          BY <1>1, <1>10, <4>1, <4>2 DEF Hit
      <3> QED
        BY <1>1, <3>1, <3>2
    <2>3. threshold' = IF Cardinality(top') = k' THEN rootScore(top') ELSE 0
      BY <1>11
    <2>4. IsFiniteSet(top') /\ Cardinality(top') <= k'
      BY <1>11 DEF HitSet
    <2> QED
      BY <2>1, <2>2, <2>3, <2>4 DEF HeapOK
  <1>16. ASSUME NEW d \in Docs, Decided(d) PROVE Decided(d)'
    <2>1. hitOf(d) \in top' \/ Beaten(top', hitOf(d))
      <3>1. CASE hitOf(d) \in top
        BY <1>11, <3>1
      <3>2. CASE Beaten(top, hitOf(d))
        BY <1>11, <3>2, HitsAreHits
      <3> QED
        BY <1>16, <3>1, <3>2 DEF Decided
    <2> QED
      BY <1>12, <2>1 DEF Decided, Beaten
  <1>17. Decided(D)'
    <2>1. hitOf(D) \in top' \/ Beaten(top', hitOf(D))
      BY <1>5, <1>11
    <2> QED
      BY <1>12, <2>1 DEF Decided, Beaten
  <1>18. ASSUME NEW d \in Docs, Awaited(d), d < D + 1 PROVE Decided(d)' /\ LiveBound(d)' <= threshold'
    <2>1. d \in Nat
      BY HitsAreHits
    <2>2. PICK t \in QueryTerms : ~done[t] /\ doc[t] <= d
      BY <1>18, DocsAreHeld DEF Awaited
    <2>3. d = D
      <3>1. doc[t] \in Nat /\ D <= doc[t]
        BY <1>2, <2>2
      <3> QED
        BY <1>1, <1>18, <2>1, <2>2, <3>1
    <2>4. LiveBound(d)' = 0
      <3>1. /\ \A u \in QueryTerms : maxScore[u] \in Nat
            /\ \A u \in QueryTerms : ~done'[u] => d < doc'[u]
        BY <1>9, <2>3, Contributes
      <3> QED
        BY <1>2, <1>8, <2>1, <3>1, BoundShrinks
    <2> QED
      BY <1>11, <1>17, <2>3, <2>4
  <1>19. CoverOK'
    <2>1. D + 1 \in Nat
      BY <1>1
    <2> QED
      BY <1>8, <1>11, <1>16, <1>18, <2>1, CoverKeeps
  <1> QED
    BY <1>8, <1>14, <1>19

\* What the block of a term on the pivot tells: its documents from the pivot on, and their bound.
LEMMA BlockHere ==
  ASSUME CallOK, CursorsOK, NEW D \in Nat, NEW t \in QueryTerms, ~done[t], doc[t] = D
  PROVE  \E last \in Nat, most \in Nat :
           /\ last = BlockLastDoc(lists[t], shallowed(D)[t]) /\ D <= last /\ last < LastDocID
           /\ most = Scorer[t][BlockMaxFreq(lists[t], shallowed(D)[t])]
           /\ \A d \in Nat : D <= d /\ d <= last => contribution(t, d) <= most
  <1> DEFINE list == lists[t]
             c == shallowed(D)[t]
  <1>1. CursorOn(list, c, D) /\ c.shallowIdx = c.blockIdx
    BY ShallowedStand
  <1>2. /\ given[t] \in Seq(Pairs) /\ ListOK(list, given[t])
        /\ \A p \in ToSet(given[t]) : p \in Pairs /\ p[1] \in Nat /\ p[1] < LastDocID /\ p[2] \in DOMAIN Scorer[t]
        /\ \A f \in DOMAIN Scorer[t] : f \in Nat /\ Scorer[t][f] \in Nat
        /\ \A f, g \in DOMAIN Scorer[t] : f <= g => Scorer[t][f] <= Scorer[t][g]
    BY TermsAreOK
  <1> HIDE DEF list, c
  <1>3. PICK B \in 1 .. Len(list) : B = c.blockIdx /\ B = c.shallowIdx
    BY <1>1 DEF CursorOn
  <1>4. /\ list[B].lastDoc \in Nat /\ D <= list[B].lastDoc
        /\ \A p \in ToSet(given[t]) : D <= p[1] /\ p[1] <= list[B].lastDoc => p[2] <= list[B].maxFreq
    BY <1>1, <1>2, <1>3, OnPosting
  <1>5. PICK p \in ToSet(given[t]) : p[2] = list[B].maxFreq
    BY <1>2, BoundsAreReal
  <1>6. PICK q \in ToSet(given[t]) : q[1] = list[B].lastDoc
    BY <1>2, BoundsAreReal
  <1>7. PICK last, most : last = list[B].lastDoc /\ most = Scorer[t][list[B].maxFreq]
    OBVIOUS
  <1>8. last \in Nat /\ D <= last /\ last < LastDocID /\ most \in Nat
    BY <1>2, <1>4, <1>5, <1>6, <1>7
  <1>9. ASSUME NEW d \in Nat, D <= d, d <= last PROVE contribution(t, d) <= most
    <2>1. CASE Holds(t, d)
      <3>1. PICK r \in ToSet(given[t]) : r[1] = d
        BY <2>1 DEF Holds
      <3>2. r[2] <= list[B].maxFreq
        BY <1>4, <1>7, <1>9, <3>1
      <3>3. contribution(t, d) = Scorer[t][r[2]]
        BY <3>1, Contributes
      <3>4. r[2] \in DOMAIN Scorer[t] /\ list[B].maxFreq \in DOMAIN Scorer[t]
        BY <1>2, <1>5
      <3> QED
        BY <1>2, <1>7, <3>2, <3>3, <3>4
    <2>2. CASE ~Holds(t, d)
      BY <1>8, <2>2, Contributes
    <2> QED
      BY <2>1, <2>2
  <1>10. last = BlockLastDoc(list, c) /\ most = Scorer[t][BlockMaxFreq(list, c)]
    BY <1>3, <1>7 DEF BlockLastDoc, BlockMaxFreq
  <1> QED
    BY <1>8, <1>9, <1>10 DEF list, c

\* skipBlock jumps past the pivot, but not past a block of the pivot set or the next term.
LEMMA SkipTargetIs ==
  ASSUME CallOK, CursorsOK, NEW x \in QueryTerms, ~done[x], NEW D, doc[x] = D,
         \A t \in QueryTerms : ~done[t] => D <= doc[t],
         NEW target, target = skipTarget(shallowed(D), D)
  PROVE  /\ target \in Nat /\ D < target
         /\ \A t \in QueryTerms : ~done[t] /\ doc[t] # D => target <= doc[t]
         /\ \A t \in pivotSet(D) : target <= BlockLastDoc(lists[t], shallowed(D)[t]) + 1
  <1> DEFINE lastOf(t) == BlockLastDoc(lists[t], shallowed(D)[t])
             lasts == {lastOf(t) : t \in pivotSet(D)}
             ahead == {u \in QueryTerms : ~done[u] /\ doc[u] > D}
             beyond == {doc[t] : t \in ahead}
             minLast == Min(lasts)
  <1>1. D \in Nat /\ \A t \in QueryTerms : ~done[t] => doc[t] \in Nat
    BY LiveTermsStand
  <1>2. /\ pivotSet(D) = {t \in QueryTerms : ~done[t] /\ doc[t] = D}
        /\ IsFiniteSet(pivotSet(D)) /\ pivotSet(D) \in SUBSET QueryTerms
    BY <1>1, PivotSetIs
  <1>3. \A t \in pivotSet(D) : lastOf(t) \in Nat /\ D <= lastOf(t) /\ lastOf(t) < LastDocID
    BY <1>1, <1>2, BlockHere
  <1>4. target = Min({successor(minLast)} \cup beyond)
    BY DEF skipTarget
  <1> HIDE DEF lastOf
  <1>5. lasts \in SUBSET Int /\ lasts # {} /\ IsFiniteSet(lasts)
    <2>1. x \in pivotSet(D)
      BY <1>2
    <2>2. PICK f : f = [t \in pivotSet(D) |-> lastOf(t)]
      OBVIOUS
    <2>3. f \in Surjection(pivotSet(D), lasts)
      BY <2>2 DEF Surjection
    <2>4. IsFiniteSet(lasts)
      BY <1>2, <2>3, FS_Surjection
    <2>5. lasts \in SUBSET Int
      BY <1>3
    <2> QED
      BY <2>1, <2>4, <2>5
  <1>6. PICK ml : ml = minLast
    OBVIOUS
  <1>7. ml \in lasts /\ \A y \in lasts : ml <= y
    <2> HIDE DEF lasts
    <2> QED
      BY <1>5, <1>6, Extremes
  <1>8. ml \in Nat /\ D <= ml /\ ml < LastDocID /\ \A t \in pivotSet(D) : ml <= lastOf(t)
    BY <1>3, <1>7
  <1>9. successor(ml) = ml + 1
    <2>1. LastDocID \in Nat /\ ml + 1 < LastDocID + 1
      BY <1>8, WandAssumption
    <2> QED
      BY <1>8, <2>1 DEF successor
  <1>10. PICK T : T = {ml + 1} \cup beyond
    OBVIOUS
  <1>11. T \in SUBSET Int /\ IsFiniteSet(T) /\ T # {} /\ \A y \in T : y \in Nat /\ D < y
    <2>1. IsFiniteSet(ahead) /\ \A t \in ahead : doc[t] \in Nat /\ D < doc[t]
      <3>1. ahead \in SUBSET QueryTerms
        OBVIOUS
      <3>2. IsFiniteSet(ahead)
        BY <3>1, WandAssumption, FS_Subset
      <3> QED
        BY <1>1, <3>2
    <2>2. IsFiniteSet(beyond)
      <3> HIDE DEF ahead
      <3>1. PICK f : f = [t \in ahead |-> doc[t]]
        OBVIOUS
      <3>2. f \in Surjection(ahead, beyond)
        BY <3>1 DEF Surjection
      <3> QED
        BY <2>1, <3>2, FS_Surjection
    <2>3. \A y \in beyond : y \in Nat /\ D < y
      BY <2>1
    <2> HIDE DEF beyond
    <2>4. IsFiniteSet({ml + 1} \cup beyond)
      BY <2>2, FS_Singleton, FS_Union
    <2> QED
      BY <1>1, <1>8, <1>10, <2>3, <2>4
  <1>12. target = Min(T)
    BY <1>4, <1>6, <1>9, <1>10
  <1>13. target \in T /\ \A y \in T : target <= y
    <2>1. T \in SUBSET Int /\ IsFiniteSet(T) /\ T # {}
      BY <1>11
    <2>2. Min(T) \in T /\ \A y \in T : Min(T) <= y
      BY ONLY <2>1, Extremes
    <2> QED
      BY ONLY <1>12, <2>2
  <1>14. \A t \in QueryTerms : ~done[t] /\ doc[t] # D => target <= doc[t]
    <2> SUFFICES ASSUME NEW t \in QueryTerms, ~done[t], doc[t] # D PROVE target <= doc[t]
      OBVIOUS
    <2>1. doc[t] \in Nat /\ D <= doc[t]
      BY <1>1
    <2>2. doc[t] > D
      BY <1>1, <2>1
    <2>3. doc[t] \in beyond
      BY <2>2
    <2> QED
      BY <1>10, <1>13, <2>3
  <1>15. \A t \in pivotSet(D) : target <= lastOf(t) + 1
    <2> SUFFICES ASSUME NEW t \in pivotSet(D) PROVE target <= lastOf(t) + 1
      OBVIOUS
    <2>1. target \in Nat /\ target <= ml + 1
      BY <1>10, <1>11, <1>13
    <2>2. lastOf(t) \in Nat /\ ml <= lastOf(t)
      BY <1>3, <1>8
    <2> QED
      BY <1>8, <2>1, <2>2
  <1> QED
    BY <1>11, <1>13, <1>14, <1>15 DEF lastOf

\* Skip: the blocks of the pivot set hold nothing that can enter the heap.
LEMMA SkipKeeps ==
  ASSUME CallOK, CursorsOK, HeapOK, CoverOK,
         NEW x \in QueryTerms, ~done[x], NEW D, doc[x] = D,
         \A t \in QueryTerms : ~done[t] => D <= doc[t],
         blockMaxSum(shallowed(D), D) <= threshold, threshold > 0,
         skipBlock(shallowed(D), D), given' = given, lists' = lists, k' = k, maxScore' = maxScore
  PROVE  CursorsOK' /\ HeapOK' /\ CoverOK'
  <1> DEFINE cs == shallowed(D)
             ts == pivotSet(D)
             most(t) == Scorer[t][BlockMaxFreq(lists[t], cs[t])]
  <1>1. D \in Nat /\ \A t \in QueryTerms : ~done[t] => doc[t] \in Nat
    BY LiveTermsStand
  <1>2. ts = {t \in QueryTerms : ~done[t] /\ doc[t] = D} /\ IsFiniteSet(ts) /\ ts \in SUBSET QueryTerms
    BY <1>1, PivotSetIs
  <1>3. PICK target : target = skipTarget(cs, D)
    OBVIOUS
  <1>4. /\ target \in Nat /\ D < target
        /\ \A t \in QueryTerms : ~done[t] /\ doc[t] # D => target <= doc[t]
        /\ \A t \in ts : target <= BlockLastDoc(lists[t], cs[t]) + 1
    BY <1>3, SkipTargetIs
  <1>5. /\ advance({t \in QueryTerms : ~done[t] /\ doc[t] < target}, cs, target)
        /\ top' = top /\ threshold' = threshold
    BY <1>3 DEF skipBlock
  <1>6. {t \in QueryTerms : ~done[t] /\ doc[t] < target} = ts
    <2>1. ASSUME NEW t \in QueryTerms, ~done[t] PROVE doc[t] < target <=> doc[t] = D
      BY <1>1, <1>4, <2>1
    <2> QED
      BY <1>2, <2>1
  <1>7. \A t \in QueryTerms : ~done[t] => CursorOn(lists[t], cs[t], doc[t])
    BY <1>1, ShallowedStand
  <1>8. ASSUME NEW t \in ts
        PROVE  most(t) \in Nat /\ \A d \in Nat : D <= d /\ d < target => contribution(t, d) <= most(t)
    <2>1. t \in QueryTerms /\ ~done[t] /\ doc[t] = D
      BY <1>2
    <2>2. PICK last \in Nat : \E m \in Nat :
            /\ last = BlockLastDoc(lists[t], cs[t]) /\ m = most(t)
            /\ \A d \in Nat : D <= d /\ d <= last => contribution(t, d) <= m
      BY <1>1, <2>1, BlockHere
    <2>3. target <= last + 1
      BY <1>4, <2>2
    <2>4. \A d \in Nat : d < target => d <= last
      BY <1>4, <2>3
    <2> HIDE DEF most
    <2> QED
      BY <2>2, <2>4
  <1>9. blockMaxSum(cs, D) = SumFunction([t \in ts |-> most(t)])
    BY DEF blockMaxSum
  <1> HIDE DEF cs, ts, most
  <1>10. /\ CursorsOK' /\ Moves(target)
         /\ \A t \in ts : ~done'[t] => target <= doc'[t]
         /\ \A t \in QueryTerms \ ts : done'[t] = done[t] /\ doc'[t] = doc[t]
    <2>1. \A t \in ts : ~done[t] /\ doc[t] < target
      BY <1>2, <1>4
    <2> QED
      BY <1>2, <1>4, <1>5, <1>6, <1>7, <2>1, AdvanceMoves
  <1>11. \A t \in QueryTerms : ~done'[t] => target <= doc'[t]
    <2> SUFFICES ASSUME NEW t \in QueryTerms, ~done'[t] PROVE target <= doc'[t]
      OBVIOUS
    <2>1. CASE t \in ts
      BY <1>10, <2>1
    <2>2. CASE t \notin ts
      <3>1. ~done[t] /\ doc'[t] = doc[t]
        BY <1>10, <2>2
      <3>2. doc[t] # D
        BY <1>2, <2>2, <3>1
      <3> QED
        BY <1>4, <3>1, <3>2
    <2> QED
      BY <2>1, <2>2
  <1>12. HeapOK' /\ \A d \in Docs : Decided(d) => Decided(d)'
    BY <1>5, <1>10, HeapStays
  <1>13. threshold \in Nat
    BY HeapIsHits
  <1>14. ASSUME NEW d \in Docs, Awaited(d), d < target PROVE Decided(d)' /\ LiveBound(d)' <= threshold'
    <2>1. d \in Nat /\ hitOf(d).score \in Nat
      BY HitsAreHits DEF Hit
    <2>2. D <= d
      <3>1. PICK u \in QueryTerms : Holds(u, d)
        BY DocsAreHeld
      <3>2. ~done[u] /\ doc[u] <= d /\ doc[u] \in Nat /\ D <= doc[u]
        BY <1>1, <1>14, <3>1 DEF Awaited
      <3> QED
        BY <1>1, <2>1, <3>2
    <2>3. ASSUME NEW t \in QueryTerms \ ts PROVE ~Holds(t, d)
      <3>1. ASSUME Holds(t, d) PROVE FALSE
        <4>1. ~done[t] /\ doc[t] <= d /\ doc[t] \in Nat
          BY <1>1, <1>14, <3>1 DEF Awaited
        <4>2. doc[t] # D
          BY <1>2, <4>1
        <4>3. target <= doc[t]
          BY <1>4, <4>1, <4>2
        <4> QED
          BY <1>4, <1>14, <2>1, <4>1, <4>3
      <3> QED
        BY <3>1
    <2>4. PICK m : m = [t \in ts |-> most(t)]
      OBVIOUS
    <2>5. \A t \in ts : m[t] \in Nat /\ contribution(t, d) <= m[t]
      BY <1>8, <1>14, <2>1, <2>2, <2>4
    <2>6. hitOf(d).score <= Weight(m, ts)
      BY <1>2, <2>3, <2>5, ScoreBound
    <2>7. SumFunction(m) = Weight(m, ts) /\ SumFunction(m) \in Nat
      <3>1. DOMAIN m = ts /\ \A t \in ts : m[t] \in Nat
        BY <2>4, <2>5
      <3> QED
        BY <1>2, <3>1, SumIsItsWeight
    <2>8. SumFunction(m) <= threshold
      BY <1>9, <2>4 DEF cs
    <2>9. hitOf(d).score <= threshold
      BY <1>13, <2>1, <2>6, <2>7, <2>8
    <2>10. Decided(d)
      <3>1. 0 < threshold
        BY <1>13
      <3> QED
        BY <1>14, <2>9, <3>1, OutOfReach
    <2>11. LiveBound(d)' = 0
      <3>1. \A t \in QueryTerms : maxScore[t] \in Nat
        BY Contributes
      <3>2. \A t \in QueryTerms : ~done'[t] => d < doc'[t]
        <4> SUFFICES ASSUME NEW t \in QueryTerms, ~done'[t] PROVE d < doc'[t]
          OBVIOUS
        <4>1. target <= doc'[t] /\ doc'[t] \in Nat
          BY <1>10, <1>11 DEF Moves
        <4> QED
          BY <1>4, <1>14, <2>1, <4>1
      <3> QED
        BY <1>1, <1>10, <2>1, <3>1, <3>2, BoundShrinks
    <2>12. Decided(d)'
      BY <1>12, <2>10
    <2>13. LiveBound(d)' <= threshold'
      BY <1>5, <1>13, <2>11
    <2> QED
      BY <2>12, <2>13
  <1>15. CoverOK'
    <2>1. threshold' \in Nat /\ threshold <= threshold'
      BY <1>5, <1>13
    <2> QED
      BY <1>4, <1>10, <1>12, <1>13, <1>14, <2>1, CoverKeeps
  <1> QED
    BY <1>10, <1>12, <1>15

\* pickAdvance names a term that is short of the pivot, when there is one.
LEMMA PickIsEarly ==
  ASSUME \A t \in QueryTerms : maxScore[t] \in Nat, NEW live, NEW n \in Nat, DOMAIN live = 1 .. n,
         \A i \in DOMAIN live : live[i] \in QueryTerms, 1 \in DOMAIN live, NEW D, doc[live[1]] < D
  PROVE  pickAdvance(live, D) \in DOMAIN live /\ doc[live[pickAdvance(live, D)]] < D
  <1> DEFINE early == {i \in DOMAIN live : doc[live[i]] < D}
             bounds == {maxScore[live[i]] : i \in early}
             best == Max(bounds)
             picked == {i \in early : maxScore[live[i]] = best}
  <1>1. pickAdvance(live, D) = Min(picked)
    BY DEF pickAdvance
  <1>2. IsFiniteSet(early) /\ 1 \in early /\ early \in SUBSET (1 .. n)
    <2>1. IsFiniteSet(1 .. n)
      BY FS_Interval
    <2>2. early \in SUBSET (1 .. n)
      OBVIOUS
    <2>3. 1 \in early
      OBVIOUS
    <2> HIDE DEF early
    <2> QED
      BY <2>1, <2>2, <2>3, FS_Subset
  <1>3. \A i \in early : maxScore[live[i]] \in Nat /\ i \in DOMAIN live /\ doc[live[i]] < D
    OBVIOUS
  <1> HIDE DEF early
  <1>4. bounds \in SUBSET Int /\ bounds # {} /\ IsFiniteSet(bounds)
    <2>1. PICK f : f = [i \in early |-> maxScore[live[i]]]
      OBVIOUS
    <2>2. f \in Surjection(early, bounds)
      BY <2>1 DEF Surjection
    <2>3. IsFiniteSet(bounds)
      BY <1>2, <2>2, FS_Surjection
    <2> QED
      BY <1>2, <1>3, <2>3
  <1>5. \E i \in early : maxScore[live[i]] = best
    <2>1. best \in bounds
      <3> HIDE DEF bounds
      <3> QED
        BY <1>4, Extremes
    <2> HIDE DEF best
    <2> QED
      BY <2>1
  <1> HIDE DEF best
  <1>6. picked \in SUBSET Int /\ picked \in SUBSET early /\ picked # {}
    <2>1. picked \in SUBSET early /\ picked # {}
      BY <1>5
    <2>2. early \in SUBSET Int
      BY <1>2
    <2> HIDE DEF picked
    <2> QED
      BY ONLY <2>1, <2>2
  <1> HIDE DEF picked
  <1>7. IsFiniteSet(picked)
    BY <1>2, <1>6, FS_Subset
  <1>8. Min(picked) \in picked
    BY <1>6, <1>7, Extremes
  <1> QED
    BY <1>1, <1>3, <1>6, <1>8

\* Every turn of the loop keeps the invariant.
LEMMA LoopKeeps ==
  ASSUME CallOK, CursorsOK, HeapOK, CoverOK, Loop
  PROVE  CallOK' /\ CursorsOK' /\ HeapOK' /\ CoverOK'
  <1>1. PICK live : \E pivot : /\ live = liveSorted /\ pivot = findPivot(live) /\ pivot > 0
                               /\ Turn(live, doc[live[pivot]])
    BY DEF Loop
  <1>2. PICK pivot : /\ live = liveSorted /\ pivot = findPivot(live) /\ pivot > 0
                     /\ Turn(live, doc[live[pivot]])
    BY <1>1
  <1>3. given' = given /\ lists' = lists /\ k' = k /\ maxScore' = maxScore
    BY DEF Loop
  <1>4. /\ \A t \in QueryTerms : maxScore[t] \in Nat
        /\ \A t \in QueryTerms : ~done[t] => doc[t] \in Nat
        /\ threshold \in Nat
    BY Contributes, LiveTermsStand, HeapIsHits
  <1>5. PICK D : D = doc[live[pivot]]
    OBVIOUS
  <1>6. /\ pivot \in DOMAIN live /\ 1 \in DOMAIN live
        /\ \A i \in DOMAIN live : live[i] \in QueryTerms /\ ~done[live[i]]
        /\ \A t \in QueryTerms : ~done[t] => doc[live[1]] <= doc[t]
        /\ \A d \in Nat : d < D => LiveBound(d) <= threshold
        /\ ~(LiveBound(D) <= threshold)
    <2>1. pivot # 0
      BY <1>2
    <2> QED
      BY <1>2, <1>4, <1>5, <2>1, PivotTells
  <1>7. D \in Nat
    BY <1>5, <1>6, LiveTermsStand
  <1>8. CallOK'
    BY <1>3 DEF CallOK
  <1>9. CASE doc[live[1]] = D
    <2>1. PICK x : x = live[1] /\ x \in QueryTerms /\ ~done[x] /\ doc[x] = D
      BY <1>6, <1>9
    <2>2. \A t \in QueryTerms : ~done[t] => D <= doc[t]
      BY <1>6, <1>9
    <2>3. \/ blockMaxSum(shallowed(D), D) <= threshold /\ threshold > 0 /\ skipBlock(shallowed(D), D)
          \/ scorePivot(shallowed(D), D)
      BY <1>2, <1>5, <1>9 DEF Turn
    <2>4. CASE blockMaxSum(shallowed(D), D) <= threshold /\ threshold > 0 /\ skipBlock(shallowed(D), D)
      BY <1>3, <1>8, <2>1, <2>2, <2>4, SkipKeeps
    <2>5. CASE scorePivot(shallowed(D), D)
      <3>1. LiveBound(D) \in Nat
        BY <1>4, LiveBoundIs
      <3>2. 0 < LiveBound(D)
        BY <1>4, <1>6, <3>1
      <3>3. D \in Docs
        BY <1>7, <2>2, <3>2, PivotCounts
      <3> QED
        BY <1>3, <1>6, <1>8, <2>2, <2>5, <3>3, ScoreKeeps
    <2> QED
      BY <2>3, <2>4, <2>5
  <1>10. CASE doc[live[1]] # D
    <2>1. realign(live, D)
      BY <1>2, <1>5, <1>10 DEF Turn
    <2>2. doc[live[1]] < D
      <3>1. doc[live[1]] \in Nat /\ doc[live[1]] <= D
        BY <1>4, <1>5, <1>6
      <3> QED
        BY <1>7, <1>10, <3>1
    <2>3. PICK n \in Nat : DOMAIN live = 1 .. n
      BY <1>2, <1>4, LiveInOrder DEF InDocOrder
    <2>4. PICK x : x = live[pickAdvance(live, D)]
      OBVIOUS
    <2>5. x \in QueryTerms /\ ~done[x] /\ doc[x] < D
      <3>1. pickAdvance(live, D) \in DOMAIN live /\ doc[live[pickAdvance(live, D)]] < D
        BY <1>4, <1>6, <2>2, <2>3, PickIsEarly
      <3> QED
        BY <1>6, <2>4, <3>1
    <2> QED
      BY <1>3, <1>6, <1>7, <1>8, <2>1, <2>4, <2>5, RealignKeeps
  <1> QED
    BY <1>9, <1>10

\* Pairs of hits, the better one first.
BetterIn(S) == {p \in S \X S : better(p[1], p[2])}

\* A set of hits is ranked by an order, and its ranking lists it in that order.
LEMMA RankingIsOrder ==
  ASSUME NEW S, HitSet(S)
  PROVE  /\ StrictOrder(S, BetterIn(S)) /\ ranking(S) = InOrder(S, BetterIn(S))
         /\ \A x \in S : Ahead(S, BetterIn(S), x) = {g \in S : better(g, x)}
  <1> DEFINE R == BetterIn(S)
  <1>1. \A x, y : <<x, y>> \in R <=> x \in S /\ y \in S /\ better(x, y)
    BY DEF BetterIn
  <1> HIDE DEF R
  <1>2. \A x \in S : Hit(x)
    BY DEF HitSet
  <1>3. StrictOrder(S, R)
    <2>1. ASSUME NEW x \in S PROVE <<x, x>> \notin R
      BY <1>1, <1>2, BetterIsOrder
    <2>2. ASSUME NEW x \in S, NEW y \in S, x # y PROVE <<x, y>> \in R \/ <<y, x>> \in R
      <3>1. x.doc # y.doc
        BY <2>2 DEF HitSet
      <3> QED
        BY <1>1, <1>2, <3>1, BetterIsOrder
    <2>3. ASSUME NEW x \in S, NEW y \in S, NEW z \in S, <<x, y>> \in R, <<y, z>> \in R PROVE <<x, z>> \in R
      BY <1>1, <1>2, <2>3, BetterIsOrder
    <2> QED
      BY <2>1, <2>2, <2>3 DEF StrictOrder
  <1>4. \A x \in S : Ahead(S, R, x) = {g \in S : better(g, x)}
    BY <1>1 DEF Ahead
  <1>5. ranking(S) = InOrder(S, R)
    <2> DEFINE a(i) == CHOOSE h \in S : Cardinality({g \in S : better(g, h)}) = i - 1
               b(i) == CHOOSE h \in S : Cardinality(Ahead(S, R, h)) = i - 1
    <2>1. ASSUME NEW i PROVE a(i) = b(i)
      <3> DEFINE before(h) == {g \in S : better(g, h)}
                 A(h) == h \in S /\ Cardinality(before(h)) = i - 1
                 B(h) == h \in S /\ Cardinality(Ahead(S, R, h)) = i - 1
      <3>1. \A h : A(h) <=> B(h)
        <4>1. \A h \in S : before(h) = Ahead(S, R, h)
          BY <1>4
        <4> HIDE DEF before
        <4> QED
          BY <4>1
      <3>2. (CHOOSE h : A(h)) = (CHOOSE h : B(h))
        <4> HIDE DEF A, B
        <4> QED
          BY <3>1, Zenon
      <3> QED
        BY <3>2
    <2>2. ranking(S) = [i \in 1 .. Cardinality(S) |-> a(i)]
      BY DEF ranking
    <2>3. InOrder(S, R) = [i \in 1 .. Cardinality(S) |-> b(i)]
      BY DEF InOrder
    <2> HIDE DEF a, b
    <2> QED
      BY <2>1, <2>2, <2>3
  <1> QED
    BY <1>3, <1>4, <1>5 DEF R

\* The first hits of a ranking are those that everything else falls behind.
LEMMA FirstOfIs ==
  ASSUME k \in Nat \ {0}, NEW S, HitSet(S), NEW T \in SUBSET S, HitSet(T), Cardinality(T) <= k,
         \A x \in S \ T : Beaten(T, x)
  PROVE  ranking(T) = firstOf(S)
  <1>1. PICK n, c, rS, rT : n = Cardinality(T) /\ c = Cardinality(S) /\ rS = ranking(S) /\ rT = ranking(T)
    OBVIOUS
  <1>2. /\ n \in Nat /\ rT \in Seq(T) /\ Len(rT) = n
        /\ \A i \in 1 .. n : rT[i] \in T /\ Cardinality({g \in T : better(g, rT[i])}) = i - 1
    <2>1. IsFiniteSet(T) /\ StrictOrder(T, BetterIn(T)) /\ ranking(T) = InOrder(T, BetterIn(T))
          /\ \A x \in T : Ahead(T, BetterIn(T), x) = {g \in T : better(g, x)}
      BY RankingIsOrder DEF HitSet
    <2>2. /\ InOrder(T, BetterIn(T)) \in Seq(T) /\ Len(InOrder(T, BetterIn(T))) = Cardinality(T)
          /\ Cardinality(T) \in Nat
          /\ \A i \in 1 .. Cardinality(T) : InOrder(T, BetterIn(T))[i] \in T
          /\ \A i \in 1 .. Cardinality(T) : Cardinality(Ahead(T, BetterIn(T), InOrder(T, BetterIn(T))[i])) = i - 1
      BY <2>1, OrderIsWhole
    <2> QED
      BY <1>1, <2>1, <2>2
  <1>3. /\ c \in Nat /\ rS \in Seq(S) /\ Len(rS) = c
        /\ \A i \in 1 .. c : rS[i] \in S /\ Cardinality({g \in S : better(g, rS[i])}) = i - 1
    <2>1. IsFiniteSet(S) /\ StrictOrder(S, BetterIn(S)) /\ ranking(S) = InOrder(S, BetterIn(S))
          /\ \A x \in S : Ahead(S, BetterIn(S), x) = {g \in S : better(g, x)}
      BY RankingIsOrder DEF HitSet
    <2>2. /\ InOrder(S, BetterIn(S)) \in Seq(S) /\ Len(InOrder(S, BetterIn(S))) = Cardinality(S)
          /\ Cardinality(S) \in Nat
          /\ \A i \in 1 .. Cardinality(S) : InOrder(S, BetterIn(S))[i] \in S
          /\ \A i \in 1 .. Cardinality(S) : Cardinality(Ahead(S, BetterIn(S), InOrder(S, BetterIn(S))[i])) = i - 1
      BY <2>1, OrderIsWhole
    <2> QED
      BY <1>1, <2>1, <2>2
  <1>4. \A x, y \in S : Cardinality({g \in S : better(g, x)}) = Cardinality({g \in S : better(g, y)}) => x = y
    <2> SUFFICES ASSUME NEW x \in S, NEW y \in S,
                        Cardinality({g \in S : better(g, x)}) = Cardinality({g \in S : better(g, y)})
                 PROVE  x = y
      OBVIOUS
    <2>1. IsFiniteSet(S) /\ StrictOrder(S, BetterIn(S))
          /\ Ahead(S, BetterIn(S), x) = {g \in S : better(g, x)}
          /\ Ahead(S, BetterIn(S), y) = {g \in S : better(g, y)}
      BY RankingIsOrder DEF HitSet
    <2>2. Cardinality(Ahead(S, BetterIn(S), x)) = Cardinality(Ahead(S, BetterIn(S), y))
      BY <2>1
    <2> QED
      BY <2>1, <2>2, RankIsOwn
  <1>5. n <= c /\ Min({k, c}) = n
    <2>1. n <= c
      BY <1>1, FS_Subset DEF HitSet
    <2>2. n = k \/ n = c
      <3>1. CASE T = S
        BY <1>1, <3>1
      <3>2. CASE T # S
        <4>1. PICK x \in S : x \notin T
          BY <3>2
        <4> QED
          BY <1>1, <4>1 DEF Beaten
      <3> QED
        BY <3>1, <3>2
    <2>3. n <= k /\ k \in Nat
      BY <1>1
    <2>4. n \in {k, c} /\ \A z \in {k, c} : n <= z
      BY <1>2, <1>3, <2>1, <2>2, <2>3
    <2>5. \A z \in {k, c} : (\A w \in {k, c} : z =< w) => z = n
      BY <1>2, <1>3, <2>3, <2>4
    <2> QED
      BY <2>1, <2>4, <2>5 DEF Min
  <1>6. ASSUME NEW i \in 1 .. n PROVE rT[i] = rS[i]
    <2>1. PICK x \in T : x = rT[i] /\ Cardinality({g \in T : better(g, x)}) = i - 1
      BY <1>2
    <2>2. {g \in S : better(g, x)} = {g \in T : better(g, x)}
      <3>1. ASSUME NEW g \in S, g \notin T PROVE ~better(g, x)
        <4>1. better(x, g)
          BY <3>1 DEF Beaten
        <4>2. Hit(x) /\ Hit(g)
          BY DEF HitSet
        <4> QED
          BY <4>1, <4>2, BetterIsOrder
      <3> QED
        BY <3>1
    <2>3. i \in 1 .. c
      BY <1>2, <1>3, <1>5
    <2>4. rS[i] \in S /\ Cardinality({g \in S : better(g, rS[i])}) = i - 1
      BY <1>3, <2>3
    <2> QED
      BY <1>4, <2>1, <2>2, <2>4
  <1>7. firstOf(S) = SubSeq(rS, 1, n)
    BY <1>1, <1>5 DEF firstOf
  <1>8. SubSeq(rS, 1, n) = rT
    BY <1>2, <1>3, <1>5, <1>6
  <1> QED
    BY <1>1, <1>7, <1>8

\* There are finitely many documents, and so finitely many hits.
LEMMA DocsAreFinite ==
  ASSUME given \in [QueryTerms -> PostingLists]
  PROVE  IsFiniteSet(Docs) /\ IsFiniteSet(scored) /\ scored = {hitOf(d) : d \in Docs}
  <1>1. Docs \in SUBSET (0 .. LastDocID)
    <2> SUFFICES ASSUME NEW t \in QueryTerms, NEW i \in DOMAIN given[t] PROVE given[t][i][1] \in 0 .. LastDocID
      BY DEF Docs, weighty
    <2>1. PICK ps \in PostingLists : ps = given[t]
      OBVIOUS
    <2>2. ps \in Seq(Pairs) /\ \A j \in DOMAIN ps : ps[j][1] < LastDocID
      BY WandAssumption, EncodableIs
    <2>3. i \in DOMAIN ps
      BY <2>1
    <2>4. PICK u \in Nat : u = ps[i][1]
      BY <2>2, <2>3 DEF Pairs
    <2>5. u < LastDocID /\ LastDocID \in Nat
      BY <2>2, <2>3, <2>4, WandAssumption
    <2> QED
      BY <2>1, <2>4, <2>5
  <1>2. IsFiniteSet(Docs)
    <2>1. IsFiniteSet(0 .. LastDocID)
      BY WandAssumption, FS_Interval
    <2> QED
      BY <1>1, <2>1, FS_Subset
  <1>3. scored = {hitOf(d) : d \in Docs}
    BY DEF scored, hitsOf, Docs
  <1>4. IsFiniteSet(scored)
    <2>1. PICK f : f = [d \in Docs |-> hitOf(d)]
      OBVIOUS
    <2>2. f \in Surjection(Docs, scored)
      BY <1>3, <2>1 DEF Surjection
    <2> QED
      BY <1>2, <2>2, FS_Surjection
  <1> QED
    BY <1>2, <1>3, <1>4

\* When nothing live can pass the threshold, the heap is the first k hits.
LEMMA ReturnIsRight ==
  ASSUME CallOK, CursorsOK, HeapOK, CoverOK, Return
  PROVE  WandInv'
  <1>1. \A d \in Nat : LiveBound(d) <= threshold
    <2>1. /\ \A t \in QueryTerms : maxScore[t] \in Nat
          /\ \A t \in QueryTerms : ~done[t] => doc[t] \in Nat
          /\ threshold \in Nat
      BY Contributes, LiveTermsStand, HeapIsHits
    <2>2. PICK live : live = liveSorted
      OBVIOUS
    <2>3. PICK pivot : pivot = findPivot(live)
      OBVIOUS
    <2>4. pivot = 0
      BY <2>2, <2>3 DEF Return
    <2> QED
      BY <2>1, <2>2, <2>3, <2>4, PivotTells
  <1>2. ASSUME NEW d \in Docs PROVE Decided(d)
    <2>1. CASE Awaited(d)
      <3>1. d \in Nat /\ hitOf(d).score \in Nat
        BY HitsAreHits DEF Hit
      <3>2. hitOf(d).score <= LiveBound(d) /\ LiveBound(d) <= threshold
        BY <1>1, <2>1, <3>1, AwaitedBound
      <3>3. LiveBound(d) \in Nat /\ threshold \in Nat
        BY LiveBoundIs, Contributes, HeapIsHits
      <3>4. hitOf(d).score <= threshold
        BY <3>1, <3>2, <3>3
      <3>5. 0 < LiveBound(d)
        BY <2>1, AwaitedCounts
      <3>6. 0 < threshold
        BY <3>2, <3>3, <3>5
      <3> QED
        BY <2>1, <3>4, <3>6, OutOfReach
    <2> QED
      BY <2>1 DEF CoverOK
  <1>3. scored = {hitOf(d) : d \in Docs} /\ IsFiniteSet(scored)
    BY DocsAreFinite DEF CallOK
  <1>4. HitSet(scored)
    <2>1. \A d \in Docs : Hit(hitOf(d)) /\ hitOf(d).doc = d
      BY HitsAreHits
    <2>2. \A h \in scored : Hit(h) /\ h = hitOf(h.doc)
      BY <1>3, <2>1
    <2>3. ASSUME NEW g \in scored, NEW h \in scored, g.doc = h.doc PROVE g = h
      BY <2>2, <2>3
    <2> QED
      BY <1>3, <2>2, <2>3 DEF HitSet
  <1>5. top \in SUBSET scored
    BY <1>3 DEF HeapOK
  <1>6. \A x \in scored \ top : Beaten(top, x)
    BY <1>2, <1>3 DEF Decided
  <1>7. HitSet(top) /\ Cardinality(top) <= k /\ k \in Nat \ {0}
    BY HeapIsHits DEF HeapOK, CallOK
  <1>8. ranking(top) = firstOf(scored)
    BY <1>4, <1>5, <1>6, <1>7, FirstOfIs
  <1>9. hits' = ranking(top) /\ returned' = TRUE /\ given' = given /\ k' = k
    BY DEF Return, drain
  <1>10. firstOf(scored)' = firstOf(scored)
    <2>1. scored' = scored
      BY <1>9 DEF scored, hitsOf, weighty, hitOf, contribution
    <2> QED
      BY <1>9, <2>1 DEF firstOf, ranking, better
  <1> QED
    BY <1>8, <1>9, <1>10 DEF WandInv, WandIsTopK

\* A cursor that has not moved has passed nothing.
LEMMA NewIsStarted ==
  ASSUME NEW ps \in Seq(Pairs), NEW list, ListOK(list, ps)
  PROVE  Started(list, NewCursor, 0)
  <1>1. PICK L \in Nat : L = Len(list)
    BY DEF ListOK
  <1>2. /\ NewCursor.blockIdx = 0 /\ NewCursor.decoded = FALSE /\ NewCursor.shallowIdx = 1
        /\ NewCursor = [blockIdx |-> NewCursor.blockIdx, inBlock |-> NewCursor.inBlock, docs |-> NewCursor.docs,
                        decoded |-> NewCursor.decoded, shallowIdx |-> NewCursor.shallowIdx]
    BY DEF NewCursor
  <1>3. PICK c : c = NewCursor
    OBVIOUS
  <1>4. /\ c.blockIdx \in 0 .. L /\ c.decoded \in BOOLEAN /\ ~c.decoded /\ c.shallowIdx = 1
        /\ \A b \in 1 .. L : ~(b < c.blockIdx)
    <2>1. c.blockIdx = 0 /\ c.shallowIdx = 1
      BY ONLY <1>2, <1>3
    <2>2. c.decoded = FALSE
      BY ONLY <1>2, <1>3, Zenon
    <2>3. c.blockIdx \in 0 .. L /\ \A b \in 1 .. L : ~(b < c.blockIdx)
      BY ONLY L \in Nat, <2>1
    <2>4. c.decoded \in BOOLEAN /\ ~c.decoded
      BY ONLY <2>2, Zenon
    <2> QED
      BY ONLY <2>1, <2>3, <2>4, Zenon
  <1>5. Started(list, c, 0)
    BY ONLY <1>1, <1>2, <1>3, <1>4 DEF Started
  <1> QED
    BY <1>3, <1>5

\* Every term begins on its first document, so that every document is still to come.
LEMMA CallStarts ==
  ASSUME WANDCall, ~returned
  PROVE  CallOK /\ CursorsOK /\ HeapOK /\ CoverOK
  <1>1. CallOK
    <2>1. k \in Int /\ ~(k <= 0)
      BY WandAssumption DEF WANDCall
    <2>2. k \in Nat \ {0}
      BY <2>1
    <2> QED
      BY <2>2 DEF WANDCall, CallOK
  <1>2. ASSUME NEW t \in QueryTerms
        PROVE  /\ done[t] \in BOOLEAN /\ (~done[t] => CursorOn(lists[t], cursor[t], doc[t]))
               /\ \A p \in ToSet(given[t]) : ~done[t] /\ doc[t] <= p[1]
    <2>1. /\ given[t] \in Seq(Pairs) /\ ListOK(lists[t], given[t])
          /\ \A p \in ToSet(given[t]) : p[1] \in Nat
      BY <1>1, TermsAreOK
    <2>2. Started(lists[t], NewCursor, 0)
      BY <2>1, NewIsStarted
    <2>3. PICK c : c = NextGEQ(lists[t], NewCursor, 0)
      OBVIOUS
    <2>4. \/ PastEnd(lists[t], c) /\ \A p \in ToSet(given[t]) : p[1] < 0
          \/ /\ ~PastEnd(lists[t], c) /\ CursorOn(lists[t], c, Doc(c))
             /\ \A p \in ToSet(given[t]) : p[1] >= 0 => p[1] >= Doc(c)
      BY <2>1, <2>2, <2>3, NextGEQLands
    <2>5. /\ cursor[t] = c /\ done[t] = PastEnd(lists[t], c)
          /\ doc[t] = IF done[t] THEN 0 ELSE Doc(c)
      BY <2>3 DEF WANDCall
    <2>6. done[t] \in BOOLEAN
      BY <2>5 DEF PastEnd
    <2>7. CASE PastEnd(lists[t], c) /\ \A p \in ToSet(given[t]) : p[1] < 0
      <3>1. \A p \in ToSet(given[t]) : FALSE
        BY <2>1, <2>7
      <3> QED
        BY <2>5, <2>6, <2>7, <3>1
    <2>8. CASE /\ ~PastEnd(lists[t], c) /\ CursorOn(lists[t], c, Doc(c))
               /\ \A p \in ToSet(given[t]) : p[1] >= 0 => p[1] >= Doc(c)
      <3>1. ~done[t] /\ doc[t] = Doc(c)
        BY <2>5, <2>8
      <3>2. Doc(c) \in Nat
        BY <2>1, <2>8, OnPosting
      <3>3. \A p \in ToSet(given[t]) : Doc(c) <= p[1]
        BY <2>1, <2>8, <3>2
      <3> QED
        BY <2>5, <2>6, <2>8, <3>1, <3>3
    <2> QED
      BY <2>4, <2>7, <2>8
  <1>3. CursorsOK
    <2>1. done \in [QueryTerms -> BOOLEAN]
      <3>1. done = [t \in QueryTerms |-> PastEnd(lists[t], cursor[t])]
        BY DEF WANDCall
      <3>2. \A t \in QueryTerms : done[t] \in BOOLEAN
        BY <1>2
      <3> QED
        BY <3>1, <3>2
    <2>2. DOMAIN doc = QueryTerms /\ DOMAIN cursor = QueryTerms
      BY DEF WANDCall
    <2> QED
      BY <1>2, <2>1, <2>2 DEF CursorsOK
  <1>4. HeapOK
    <2>1. top = {} /\ threshold = 0
      BY DEF WANDCall
    <2>2. IsFiniteSet(top) /\ Cardinality(top) = 0
      BY <2>1, FS_EmptySet
    <2>3. k \in Nat \ {0}
      BY <1>1 DEF CallOK
    <2> QED
      BY <2>1, <2>2, <2>3 DEF HeapOK
  <1>5. CoverOK
    <2> SUFFICES ASSUME NEW d \in Docs PROVE Awaited(d)
      BY DEF CoverOK
    <2> SUFFICES ASSUME NEW t \in QueryTerms, Holds(t, d) PROVE ~done[t] /\ doc[t] <= d
      BY DEF Awaited
    <2> QED
      BY <1>2 DEF Holds
  <1> QED
    BY <1>1, <1>3, <1>4, <1>5

\* A call for nothing, or for no terms, returns nothing, which is the scan's answer too.
LEMMA NothingIsRight ==
  ASSUME WANDCall, returned
  PROVE  WandIsTopK
  <1>1. given \in [QueryTerms -> PostingLists] /\ k \in Int /\ hits = <<>> /\ (k <= 0 \/ QueryTerms = {})
    BY WandAssumption DEF WANDCall
  <1>2. IsFiniteSet(scored) /\ scored = {hitOf(d) : d \in Docs}
    BY <1>1, DocsAreFinite
  <1>3. PICK c \in Nat : c = Cardinality(scored)
    BY <1>2, FS_CardinalityType
  <1>4. k <= 0 \/ c = 0
    <2>1. ASSUME QueryTerms = {} PROVE c = 0
      <3>1. scored = {}
        BY <1>2, <2>1 DEF Docs, weighty
      <3> QED
        BY <1>3, <3>1, FS_EmptySet
    <2> QED
      BY <1>1, <2>1
  <1>5. PICK m \in Int : m = Min({k, c}) /\ m <= 0
    <2>1. PICK m \in Int : m = IF k <= c THEN k ELSE c
      BY <1>1
    <2>2. m \in {k, c} /\ (\A z \in {k, c} : m <= z) /\ m <= 0
      BY <1>1, <1>4, <2>1
    <2>3. \A z \in {k, c} : (\A w \in {k, c} : z =< w) => z = m
      BY <1>1, <2>2
    <2>4. Min({k, c}) = m
      BY <2>2, <2>3 DEF Min
    <2> QED
      BY <2>2, <2>4
  <1>6. PICK r, X : r = ranking(scored) /\ r \in Seq(X)
    <2> DEFINE e(i) == CHOOSE h \in scored : Cardinality({g \in scored : better(g, h)}) = i - 1
               X == {e(i) : i \in 1 .. c}
    <2>1. ranking(scored) = [i \in 1 .. c |-> e(i)]
      BY <1>3 DEF ranking
    <2> HIDE DEF e
    <2>2. [i \in 1 .. c |-> e(i)] \in Seq(X)
      <3>1. \A i \in 1 .. c : e(i) \in X
        OBVIOUS
      <3> HIDE DEF X
      <3> QED
        BY <3>1
    <2> QED
      BY <2>1, <2>2
  <1>7. SubSeq(r, 1, m) = <<>>
    BY <1>5, <1>6
  <1>8. firstOf(scored) = SubSeq(r, 1, m)
    BY <1>3, <1>5, <1>6 DEF firstOf
  <1> QED
    BY <1>1, <1>7, <1>8 DEF WandIsTopK

\* The loop keeps what its answer rests on: every document is still to come, or nothing can change
\* about it (index/search/wand.go:86-124).
THEOREM WandCorrect == WandSpec => []WandInv
  <1>1. WANDCall => WandInv
    <2> SUFFICES ASSUME WANDCall PROVE WandInv
      OBVIOUS
    <2>1. CASE returned
      BY <2>1, NothingIsRight DEF WandInv
    <2>2. CASE ~returned
      BY <2>2, CallStarts DEF WandInv
    <2> QED
      BY <2>1, <2>2
  <1>2. WandInv /\ [WandNext]_wandVars => WandInv'
    <2> SUFFICES ASSUME WandInv, [WandNext]_wandVars PROVE WandInv'
      OBVIOUS
    <2>1. CASE Loop /\ ~returned
      <3>1. CallOK' /\ CursorsOK' /\ HeapOK' /\ CoverOK'
        BY <2>1, LoopKeeps DEF WandInv
      <3>2. returned' = returned
        BY <2>1 DEF Loop
      <3> QED
        BY <2>1, <3>1, <3>2 DEF WandInv
    <2>2. CASE Return /\ ~returned
      BY <2>2, ReturnIsRight DEF WandInv
    <2>3. CASE UNCHANGED wandVars
      <3>1. /\ given' = given /\ lists' = lists /\ k' = k /\ maxScore' = maxScore /\ cursor' = cursor
            /\ doc' = doc /\ done' = done /\ top' = top /\ threshold' = threshold
            /\ hits' = hits /\ returned' = returned
        BY <2>3 DEF wandVars
      <3>2. CASE returned
        <4>1. scored' = scored
          BY <3>1 DEF scored, hitsOf, weighty, hitOf, contribution
        <4>2. firstOf(scored)' = firstOf(scored)
          BY <3>1, <4>1 DEF firstOf, ranking, better
        <4> QED
          BY <3>1, <3>2, <4>2 DEF WandInv, WandIsTopK
      <3>3. CASE ~returned
        <4>1. CallOK' /\ CursorsOK'
          BY <3>1, <3>3 DEF WandInv, CallOK, CursorsOK
        <4>2. Docs' = Docs /\ \A d : hitOf(d)' = hitOf(d)
          BY <3>1 DEF Docs, weighty, hitOf, contribution
        <4>3. HeapOK'
          BY <3>1, <3>3, <4>2 DEF WandInv, HeapOK, rootScore
        <4>4. \A d : /\ Awaited(d)' <=> Awaited(d)
                     /\ Decided(d)' <=> Decided(d)
                     /\ LiveBound(d)' = LiveBound(d)
          BY <3>1, <4>2 DEF Awaited, Holds, Decided, Beaten, better, LiveBound
        <4>5. CoverOK'
          BY <3>1, <3>3, <4>2, <4>4 DEF WandInv, CoverOK
        <4> QED
          BY <3>1, <3>3, <4>1, <4>3, <4>5 DEF WandInv
      <3> QED
        BY <3>2, <3>3
    <2> QED
      BY <2>1, <2>2, <2>3 DEF WandNext
  <1> QED
    BY <1>1, <1>2, PTL DEF WandSpec

\* However much the loop skips, it returns the first k hits of the exhaustive scan over the documents
\* of the terms that score at all, in rank order and with their full scores (index/search/wand.go:86-124).
THEOREM WandIsRight == WandSpec => []WandIsTopK
  <1>1. WandInv => WandIsTopK
    BY DEF WandInv, WandIsTopK
  <1>2. WandSpec => []WandInv
    BY WandCorrect
  <1> QED
    BY <1>1, <1>2, PTL
=============================================================================
