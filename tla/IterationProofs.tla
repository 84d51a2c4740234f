--------------------------- MODULE IterationProofs ---------------------------
(***************************************************************************)
(* Loops and sums over data.  The induction is an argument by the least    *)
(* number: a set of numbers that is not empty has a least one.             *)
(***************************************************************************)
EXTENDS Iteration, Integers, FiniteSetsExt, FiniteSetTheorems, WellFoundedInduction, TLAPS

\* A set of natural numbers that is not empty has a least element.
THEOREM LeastNumber ==
  ASSUME NEW T \in SUBSET Nat, T # {}
  PROVE  \E n \in T : \A m \in T : n <= m
  <1>1. \E n \in T : \A m \in T : ~(<<m, n>> \in OpToRel(<, Nat))
    BY NatLessThanWellFounded, WFMin
  <1>2. PICK n \in T : \A m \in T : ~(<<m, n>> \in OpToRel(<, Nat))
    BY <1>1
  <1>3. ASSUME NEW m \in T PROVE n <= m
    <2>1. m \in Nat /\ n \in Nat
      OBVIOUS
    <2>2. ASSUME m < n PROVE <<m, n>> \in OpToRel(<, Nat)
      BY <2>1, <2>2, Zenon DEF OpToRel
    <2>3. ~(m < n)
      BY <1>2, <2>2, Zenon
    <2> QED
      BY <2>1, <2>3
  <1> QED
    BY <1>3

\* Induction over the natural numbers, for a set of numbers.
THEOREM NumberInduction ==
  ASSUME NEW P \in SUBSET Nat, 0 \in P, \A n \in Nat : n \in P => n + 1 \in P
  PROVE  Nat \subseteq P
  <1> SUFFICES ASSUME Nat \ P # {} PROVE FALSE
    OBVIOUS
  <1>1. PICK n \in Nat \ P : \A m \in Nat \ P : n <= m
    <2>1. Nat \ P \in SUBSET Nat
      OBVIOUS
    <2> QED
      BY <2>1, LeastNumber
  <1>2. n # 0 /\ n - 1 \in Nat /\ ~(n <= n - 1) /\ (n - 1) + 1 = n
    BY <1>1
  <1>3. n - 1 \in P
    BY <1>1, <1>2
  <1> QED
    BY <1>1, <1>2, <1>3

\* One round of the loop is defined from the one before.
Rounds(g, start, n, state) ==
  state = [i \in 0..n |-> IF i = 0 THEN start ELSE g[state[i - 1]]]

\* A loop's states exist, whatever the number of rounds.
LEMMA RoundsExist ==
  ASSUME NEW g, NEW start, NEW n \in Nat
  PROVE  \E state : Rounds(g, start, n, state)
  <1> DEFINE P == {k \in Nat : \E state : Rounds(g, start, k, state)}
  <1>1. 0 \in P
    <2> DEFINE state == [i \in 0..0 |-> start]
    <2>1. Rounds(g, start, 0, state)
      BY DEF Rounds
    <2> QED
      BY <2>1
  <1>2. ASSUME NEW k \in Nat, k \in P PROVE k + 1 \in P
    <2>1. PICK state : Rounds(g, start, k, state)
      BY <1>2
    <2> DEFINE longer == [i \in 0..(k + 1) |-> IF i <= k THEN state[i] ELSE g[state[k]]]
    <2>2. longer = [i \in 0..(k + 1) |-> longer[i]]
      OBVIOUS
    <2>3. Rounds(g, start, k + 1, longer)
      <3>1. ASSUME NEW i \in 0..(k + 1)
            PROVE  longer[i] = IF i = 0 THEN start ELSE g[longer[i - 1]]
        <4>1. CASE i <= k
          <5>1. i \in 0..k /\ longer[i] = state[i] /\ (i # 0 => longer[i - 1] = state[i - 1])
            BY <4>1
          <5>2. state[i] = IF i = 0 THEN start ELSE g[state[i - 1]]
            BY <2>1, <5>1 DEF Rounds
          <5> QED
            BY <5>1, <5>2
        <4>2. CASE i = k + 1
          BY <4>2
        <4> QED
          BY <4>1, <4>2
      <3> HIDE DEF longer
      <3> QED
        BY <2>2, <3>1 DEF Rounds
    <2> QED
      BY <2>3
  <1>3. Nat \subseteq P
    <2> HIDE DEF P
    <2>1. P \in SUBSET Nat
      BY DEF P
    <2> QED
      BY <1>1, <1>2, <2>1, NumberInduction
  <1> QED
    BY <1>3

\* A loop's states are what g makes of start, whatever the number of rounds.
LEMMA RoundsAgree ==
  ASSUME NEW g, NEW start, NEW m \in Nat, NEW n \in Nat, NEW a, NEW b,
         Rounds(g, start, m, a), Rounds(g, start, n, b)
  PROVE  \A i \in Nat : i <= m /\ i <= n => a[i] = b[i]
  <1> DEFINE P == {i \in Nat : i <= m /\ i <= n => a[i] = b[i]}
  <1>1. 0 \in P
    BY DEF Rounds
  <1>2. ASSUME NEW i \in Nat, i \in P PROVE i + 1 \in P
    <2> SUFFICES ASSUME i + 1 <= m, i + 1 <= n PROVE a[i + 1] = b[i + 1]
      OBVIOUS
    <2>1. a[i] = b[i]
      BY <1>2
    <2>2. a[i + 1] = g[a[i]] /\ b[i + 1] = g[b[i]]
      BY DEF Rounds
    <2> QED
      BY <2>1, <2>2
  <1> HIDE DEF P
  <1>3. Nat \subseteq P
    <2>1. P \in SUBSET Nat
      BY DEF P
    <2> QED
      BY <1>1, <1>2, <2>1, NumberInduction
  <1> QED
    BY <1>3 DEF P

\* A loop of no rounds ends where it starts, and one round more applies g once more.
THEOREM IterateStep ==
  ASSUME NEW g, NEW start, NEW n \in Nat
  PROVE  /\ Iterate(g, start, 0) = start
         /\ Iterate(g, start, n + 1) = g[Iterate(g, start, n)]
  <1> DEFINE state(k) == CHOOSE state : Rounds(g, start, k, state)
  <1>1. ASSUME NEW k \in Nat PROVE Rounds(g, start, k, state(k)) /\ Iterate(g, start, k) = state(k)[k]
    <2>1. \E f : Rounds(g, start, k, f)
      BY RoundsExist
    <2>2. Rounds(g, start, k, state(k))
      BY <2>1
    <2>3. Iterate(g, start, k) = state(k)[k]
      BY DEF Iterate, Rounds
    <2> QED
      BY <2>2, <2>3
  <1> HIDE DEF state
  <1>2. Iterate(g, start, 0) = start
    BY <1>1 DEF Rounds
  <1>3. state(n + 1)[n + 1] = g[state(n + 1)[n]]
    BY <1>1 DEF Rounds
  <1>4. state(n + 1)[n] = state(n)[n]
    <2>1. Rounds(g, start, n, state(n)) /\ Rounds(g, start, n + 1, state(n + 1))
      BY <1>1
    <2> QED
      BY <2>1, RoundsAgree
  <1> QED
    BY <1>1, <1>2, <1>3, <1>4

\* What holds before a loop and is kept by each of its rounds holds after it:
\* I[n] is what holds after n rounds.
THEOREM LoopInvariant ==
  ASSUME NEW g, NEW start, NEW n \in Nat, NEW I,
         start \in I[0],
         \A k \in Nat : k < n => \A s \in I[k] : g[s] \in I[k + 1]
  PROVE  Iterate(g, start, n) \in I[n]
  <1> DEFINE state == CHOOSE state : Rounds(g, start, n, state)
  <1>1. Rounds(g, start, n, state)
    <2>1. \E f : Rounds(g, start, n, f)
      BY RoundsExist
    <2> QED
      BY <2>1
  <1>2. Iterate(g, start, n) = state[n]
    BY DEF Iterate, Rounds
  <1> HIDE DEF state
  <1> DEFINE P == {k \in Nat : k <= n => state[k] \in I[k]}
  <1>3. 0 \in P
    BY <1>1 DEF Rounds
  <1>4. ASSUME NEW k \in Nat, k \in P PROVE k + 1 \in P
    <2> SUFFICES ASSUME k + 1 <= n PROVE state[k + 1] \in I[k + 1]
      OBVIOUS
    <2>1. state[k] \in I[k] /\ k < n
      BY <1>4
    <2>2. state[k + 1] = g[state[k]]
      BY <1>1 DEF Rounds
    <2> QED
      BY <2>1, <2>2
  <1>5. Nat \subseteq P
    <2> HIDE DEF P
    <2>1. P \in SUBSET Nat
      BY DEF P
    <2> QED
      BY <1>3, <1>4, <2>1, NumberInduction
  <1> QED
    BY <1>2, <1>5

-----------------------------------------------------------------------------
(***************************************************************************)
(* Sums over finite sets are folds.  They are counted here as numbers of   *)
(* units, about which the theorems on finite sets can be used.             *)
(***************************************************************************)

\* A sum of naturals as a number of things: x stands for f[x] of them.
Units(f, S) == {p \in S \X Nat : 1 <= p[2] /\ p[2] <= f[p[1]]}
Weight(f, S) == Cardinality(Units(f, S))

\* The recursion behind MapThenSumSet, for the values f.
Adds(f, S, iter) ==
  iter = [s \in SUBSET S |-> IF s = {} THEN 0
                             ELSE f[CHOOSE x \in s : TRUE] + iter[s \ {CHOOSE x \in s : TRUE}]]

\* Induction over the subsets of a finite set, element by element.
LEMMA SubsetInduction ==
  ASSUME NEW S, IsFiniteSet(S), NEW C, {} \in C,
         \A T \in SUBSET S : \A x \in S : T \in C /\ x \notin T => T \cup {x} \in C
  PROVE  \A T \in SUBSET S : T \in C
  <1> DEFINE P == {n \in Nat : \A T \in SUBSET S : Cardinality(T) = n => T \in C}
  <1>1. 0 \in P
    <2>1. ASSUME NEW T \in SUBSET S, Cardinality(T) = 0 PROVE T \in C
      <3>1. IsFiniteSet(T)
        BY FS_Subset
      <3>2. T = {}
        BY <2>1, <3>1, FS_EmptySet
      <3> QED
        BY <3>2
    <2> QED
      BY <2>1
  <1>2. ASSUME NEW n \in Nat, n \in P PROVE n + 1 \in P
    <2>1. ASSUME NEW T \in SUBSET S, Cardinality(T) = n + 1 PROVE T \in C
      <3>1. IsFiniteSet(T)
        BY FS_Subset
      <3>2. T # {}
        <4>1. Cardinality({}) = 0
          BY FS_EmptySet
        <4> QED
          BY <2>1, <4>1
      <3>3. PICK x : x \in T
        BY <3>2
      <3>4. IsFiniteSet(T \ {x}) /\ Cardinality(T \ {x}) = Cardinality(T) - 1
        BY <3>1, <3>3, FS_RemoveElement
      <3>5. Cardinality(T \ {x}) = n
        BY <2>1, <3>4
      <3>6. T \ {x} \in SUBSET S
        OBVIOUS
      <3>7. T \ {x} \in C
        BY <1>2, <3>5, <3>6
      <3>8. T = (T \ {x}) \cup {x} /\ x \in S /\ x \notin T \ {x}
        BY <3>3
      <3> QED
        BY <3>6, <3>7, <3>8
    <2> QED
      BY <2>1
  <1> HIDE DEF P
  <1>3. Nat \subseteq P
    <2>1. P \in SUBSET Nat
      BY DEF P
    <2> QED
      BY <1>1, <1>2, <2>1, NumberInduction
  <1>4. ASSUME NEW T \in SUBSET S PROVE T \in C
    <2>1. IsFiniteSet(T)
      BY FS_Subset
    <2>2. Cardinality(T) \in Nat
      BY <2>1, FS_CardinalityType
    <2> QED
      BY <1>3, <2>2 DEF P
  <1> QED
    BY <1>4

\* One more element adds its units.
LEMMA UnitsAdd ==
  ASSUME NEW f, NEW T, NEW x, x \notin T, f[x] \in Nat, IsFiniteSet(Units(f, T))
  PROVE  /\ IsFiniteSet(Units(f, T \cup {x}))
         /\ Weight(f, T \cup {x}) = f[x] + Weight(f, T)
  <1> DEFINE U == Units(f, T)
             n == f[x]
             V == {x} \X (1 .. n)
  <1>1. Units(f, T \cup {x}) = U \cup V
    BY DEF Units
  <1>2. U \cap V = {}
    BY DEF Units
  <1>3. IsFiniteSet(1 .. n) /\ Cardinality(1 .. n) = n
    <2>1. 1 \in Int /\ n \in Int
      OBVIOUS
    <2> HIDE DEF n
    <2>2. IsFiniteSet(1 .. n) /\ Cardinality(1 .. n) = IF 1 > n THEN 0 ELSE n - 1 + 1
      BY <2>1, FS_Interval
    <2>3. n \in Nat
      BY DEF n
    <2> QED
      BY <2>2, <2>3
  <1>4. IsFiniteSet({x}) /\ Cardinality({x}) = 1
    BY FS_Singleton, Zenon
  <1>5. IsFiniteSet(V) /\ Cardinality(V) = n
    <2>1. PICK A : A = {x}
      OBVIOUS
    <2>2. PICK B : B = 1 .. n
      OBVIOUS
    <2>3. IsFiniteSet(A) /\ IsFiniteSet(B)
      BY <1>3, <1>4, <2>1, <2>2
    <2>4. IsFiniteSet(A \X B) /\ Cardinality(A \X B) = Cardinality(A) * Cardinality(B)
      BY <2>3, FS_Product
    <2>5. Cardinality(A) = 1 /\ Cardinality(B) = n
      BY <1>3, <1>4, <2>1, <2>2
    <2> QED
      BY <2>1, <2>2, <2>4, <2>5
  <1> HIDE DEF U, V, n
  <1>6. IsFiniteSet(U)
    BY DEF U
  <1>7. IsFiniteSet(U \cup V) /\ Cardinality(U \cup V) = Cardinality(U) + Cardinality(V) - Cardinality(U \cap V)
    BY <1>5, <1>6, FS_Union
  <1>8. Cardinality(U \cap V) = 0
    BY <1>2, FS_EmptySet
  <1>9. Cardinality(U) \in Nat /\ n \in Nat
    BY <1>6, FS_CardinalityType DEF n
  <1>10. Cardinality(U \cup V) = n + Cardinality(U)
    BY <1>5, <1>7, <1>8, <1>9
  <1> QED
    BY <1>1, <1>7, <1>10 DEF Weight, U, n

\* Finitely many values have finitely many units, and the weight is their sum.
LEMMA WeightAdds ==
  ASSUME NEW S, IsFiniteSet(S), NEW f, \A x \in S : f[x] \in Nat
  PROVE  /\ Weight(f, {}) = 0
         /\ \A T \in SUBSET S : IsFiniteSet(Units(f, T)) /\ Weight(f, T) \in Nat
         /\ \A T \in SUBSET S : \A x \in S : x \notin T => Weight(f, T \cup {x}) = f[x] + Weight(f, T)
  <1>1. Units(f, {}) = {}
    BY DEF Units
  <1>2. Weight(f, {}) = 0 /\ IsFiniteSet(Units(f, {}))
    BY <1>1, FS_EmptySet DEF Weight
  <1>3. PICK C : C = {T \in SUBSET S : IsFiniteSet(Units(f, T))}
    OBVIOUS
  <1>4. \A T \in SUBSET S : T \in C
    <2>1. {} \in C
      BY <1>2, <1>3
    <2>2. \A T \in SUBSET S : \A x \in S : T \in C /\ x \notin T => T \cup {x} \in C
      <3> SUFFICES ASSUME NEW T \in SUBSET S, NEW x \in S, T \in C, x \notin T PROVE T \cup {x} \in C
        OBVIOUS
      <3>1. IsFiniteSet(Units(f, T)) /\ f[x] \in Nat
        BY <1>3
      <3>2. IsFiniteSet(Units(f, T \cup {x}))
        BY <3>1, UnitsAdd
      <3> QED
        BY <3>2, <1>3
    <2> QED
      BY <2>1, <2>2, SubsetInduction
  <1>5. \A T \in SUBSET S : IsFiniteSet(Units(f, T))
    BY <1>3, <1>4
  <1>6. \A T \in SUBSET S : Weight(f, T) \in Nat
    BY <1>5, FS_CardinalityType DEF Weight
  <1>7. \A T \in SUBSET S : \A x \in S : x \notin T => Weight(f, T \cup {x}) = f[x] + Weight(f, T)
    BY <1>5, UnitsAdd
  <1> QED
    BY <1>2, <1>5, <1>6, <1>7

\* The recursion has a solution.
LEMMA SumExists ==
  ASSUME NEW S, IsFiniteSet(S), NEW f, \A x \in S : f[x] \in Nat
  PROVE  \E iter : Adds(f, S, iter)
  <1> DEFINE iter == [s \in SUBSET S |-> Weight(f, s)]
  <1>1. ASSUME NEW s \in SUBSET S
        PROVE  iter[s] = IF s = {} THEN 0
                         ELSE f[CHOOSE x \in s : TRUE] + iter[s \ {CHOOSE x \in s : TRUE}]
    <2>1. CASE s = {}
      BY <2>1, WeightAdds
    <2>2. CASE s # {}
      <3>1. PICK c : c = CHOOSE x \in s : TRUE
        OBVIOUS
      <3>2. c \in s
        BY <2>2, <3>1
      <3>3. s \ {c} \in SUBSET S /\ c \in S /\ c \notin s \ {c} /\ s = (s \ {c}) \cup {c}
        BY <3>2
      <3>4. Weight(f, (s \ {c}) \cup {c}) = f[c] + Weight(f, s \ {c})
        BY <3>3, WeightAdds
      <3>5. Weight(f, s) = f[c] + Weight(f, s \ {c})
        BY <3>3, <3>4
      <3> QED
        BY <2>2, <3>1, <3>3, <3>5
    <2> QED
      BY <2>1, <2>2
  <1>2. Adds(f, S, iter)
    <2> HIDE DEF iter
    <2>1. iter = [s \in SUBSET S |-> iter[s]]
      BY DEF iter
    <2> QED
      BY <1>1, <2>1 DEF Adds
  <1> QED
    BY <1>2

\* The recursion has no other solution than the weight.
LEMMA SumIsWeight ==
  ASSUME NEW S, IsFiniteSet(S), NEW f, \A x \in S : f[x] \in Nat, NEW iter, Adds(f, S, iter)
  PROVE  iter[S] = Weight(f, S)
  <1>1. PICK C : C = {T \in SUBSET S : iter[T] = Weight(f, T)}
    OBVIOUS
  <1> DEFINE P == {n \in Nat : \A T \in SUBSET S : Cardinality(T) = n => T \in C}
  <1>2. {} \in C
    BY <1>1, WeightAdds DEF Adds
  <1>3. 0 \in P
    <2>1. ASSUME NEW T \in SUBSET S, Cardinality(T) = 0 PROVE T \in C
      BY <2>1, <1>2, FS_Subset, FS_EmptySet
    <2> QED
      BY <2>1
  <1>4. ASSUME NEW n \in Nat, n \in P PROVE n + 1 \in P
    <2>1. ASSUME NEW T \in SUBSET S, Cardinality(T) = n + 1 PROVE T \in C
      <3>1. IsFiniteSet(T)
        BY FS_Subset
      <3>2. T # {}
        <4>1. Cardinality({}) = 0
          BY FS_EmptySet
        <4> QED
          BY <2>1, <4>1
      <3>3. PICK c : c = CHOOSE x \in T : TRUE
        OBVIOUS
      <3>4. c \in T /\ c \in S
        BY <3>2, <3>3
      <3>5. Cardinality(T \ {c}) = Cardinality(T) - 1
        BY <3>1, <3>4, FS_RemoveElement
      <3>6. T \ {c} \in C
        <4>1. Cardinality(T \ {c}) = n
          BY <2>1, <3>5
        <4> QED
          BY <1>4, <4>1
      <3>7. iter[T] = f[c] + iter[T \ {c}]
        BY <3>2, <3>3 DEF Adds
      <3>8. Weight(f, (T \ {c}) \cup {c}) = f[c] + Weight(f, T \ {c})
        <4>1. T \ {c} \in SUBSET S /\ c \notin T \ {c}
          OBVIOUS
        <4> QED
          BY <3>4, <4>1, WeightAdds
      <3>9. (T \ {c}) \cup {c} = T
        BY <3>4
      <3> QED
        BY <1>1, <3>6, <3>7, <3>8, <3>9
    <2> QED
      BY <2>1
  <1> HIDE DEF P
  <1>5. Nat \subseteq P
    <2>1. P \in SUBSET Nat
      BY DEF P
    <2> QED
      BY <1>3, <1>4, <2>1, NumberInduction
  <1>6. Cardinality(S) \in Nat
    BY FS_CardinalityType
  <1> QED
    BY <1>1, <1>5, <1>6 DEF P


\* The fold over the values of a function.
Total(f, S) == MapThenSumSet(LAMBDA x : f[x], S)

\* The fold is the weight.
LEMMA TotalIsWeight ==
  ASSUME NEW S, IsFiniteSet(S), NEW f, \A x \in S : f[x] \in Nat
  PROVE  Total(f, S) = Weight(f, S)
  <1>1. \E it : Adds(f, S, it)
    BY SumExists
  <1>2. Adds(f, S, CHOOSE it : Adds(f, S, it))
    BY <1>1
  <1>3. Total(f, S) = (CHOOSE it : Adds(f, S, it))[S]
    BY Zenon DEF Total, MapThenSumSet, MapThenFoldSet, Adds
  <1> QED
    BY <1>2, <1>3, SumIsWeight

\* Equal values have equal weights.
LEMMA SameWeight ==
  ASSUME NEW S, NEW f, NEW g, \A x \in S : f[x] = g[x]
  PROVE  Weight(f, S) = Weight(g, S)
  <1>1. Units(f, S) = Units(g, S)
    BY DEF Units
  <1> QED
    BY <1>1 DEF Weight

\* A value that grows by one makes the weight grow by one; an element not there before
\* comes with the value one.
LEMMA WeightBump ==
  ASSUME NEW S, IsFiniteSet(S), NEW f, \A y \in S : f[y] \in Nat, NEW x, NEW g,
         \A y \in S : y # x => g[y] = f[y],
         g[x] = (IF x \in S THEN f[x] ELSE 0) + 1
  PROVE  Weight(g, S \cup {x}) = Weight(f, S) + 1
  <1> DEFINE n == g[x]
             U == Units(f, S)
             V == Units(g, S \cup {x})
  <1>1. n \in Nat /\ n >= 1
    OBVIOUS
  <1>2. <<x, n>> \notin U
    BY DEF Units
  <1>3. V = U \cup {<<x, n>>}
    <2>1. ASSUME NEW p \in V PROVE p \in U \cup {<<x, n>>}
      <3>1. p \in (S \cup {x}) \X Nat /\ 1 <= p[2] /\ p[2] <= g[p[1]]
        BY <2>1 DEF Units
      <3>2. PICK y \in S \cup {x}, i \in Nat : p = <<y, i>>
        BY <3>1
      <3>3. CASE y # x
        BY <3>1, <3>2, <3>3 DEF Units
      <3>4. CASE y = x /\ i = n
        BY <3>2, <3>4
      <3>5. CASE y = x /\ i # n
        <4>1. i <= n /\ 1 <= i
          BY <3>1, <3>2, <3>5
        <4>2. x \in S /\ i <= f[x]
          BY <4>1, <3>5
        <4> QED
          BY <4>1, <4>2, <3>2, <3>5 DEF Units
      <3> QED
        BY <3>3, <3>4, <3>5
    <2>2. ASSUME NEW p \in U PROVE p \in V
      <3>1. p \in S \X Nat /\ 1 <= p[2] /\ p[2] <= f[p[1]]
        BY <2>2 DEF Units
      <3>2. PICK y \in S, i \in Nat : p = <<y, i>>
        BY <3>1
      <3>3. 1 <= i /\ i <= f[y]
        BY <3>1, <3>2
      <3>4. i <= g[y]
        BY <3>3
      <3> QED
        BY <3>2, <3>3, <3>4 DEF Units
    <2>3. <<x, n>> \in V
      BY <1>1 DEF Units
    <2> QED
      BY <2>1, <2>2, <2>3
  <1>4. IsFiniteSet(U) /\ Weight(f, S) \in Nat
    BY WeightAdds
  <1> HIDE DEF U, V, n
  <1>5. Cardinality(U \cup {<<x, n>>}) = IF <<x, n>> \in U THEN Cardinality(U) ELSE Cardinality(U) + 1
    BY <1>4, FS_AddElement, Zenon
  <1> QED
    BY <1>2, <1>3, <1>5 DEF Weight, U, V

\* Values that are carried over one by one, the others being zero, have the same weight.
LEMMA WeightCarries ==
  ASSUME NEW S, IsFiniteSet(S), NEW f, \A x \in S : f[x] \in Nat,
         NEW T, NEW g, NEW b \in [S -> T],
         \A x, y \in S : b[x] = b[y] => x = y,
         \A x \in S : g[b[x]] = f[x],
         \A y \in T : (\A x \in S : b[x] # y) => g[y] = 0
  PROVE  Weight(g, T) = Weight(f, S)
  <1> DEFINE U == Units(f, S)
             V == Units(g, T)
             c == [p \in U |-> <<b[p[1]], p[2]>>]
  <1>1. \A p \in U : p \in S \X Nat /\ 1 <= p[2] /\ p[2] <= f[p[1]]
    BY DEF Units
  <1>2. ASSUME NEW p \in U PROVE <<b[p[1]], p[2]>> \in V
    <2>1. PICK x \in S, i \in Nat : p = <<x, i>>
      BY <1>1
    <2>2. 1 <= i /\ i <= f[x]
      BY <1>1, <2>1
    <2>3. b[x] \in T /\ i <= g[b[x]]
      BY <2>2
    <2> QED
      BY <2>1, <2>2, <2>3 DEF Units
  <1>3. c \in [U -> V]
    BY <1>2
  <1>4. ASSUME NEW p \in U, NEW q \in U, c[p] = c[q] PROVE p = q
    <2>1. PICK x \in S, i \in Nat : p = <<x, i>>
      BY <1>1
    <2>2. PICK y \in S, j \in Nat : q = <<y, j>>
      BY <1>1
    <2>3. b[x] = b[y] /\ i = j
      BY <1>4, <2>1, <2>2
    <2> QED
      BY <2>1, <2>2, <2>3
  <1>5. ASSUME NEW r \in V PROVE \E p \in U : c[p] = r
    <2>1. r \in T \X Nat /\ 1 <= r[2] /\ r[2] <= g[r[1]]
      BY DEF Units
    <2>2. PICK y \in T, i \in Nat : r = <<y, i>>
      BY <2>1
    <2>3. 1 <= i /\ i <= g[y]
      BY <2>1, <2>2
    <2>4. PICK x \in S : b[x] = y
      BY <2>3
    <2>5. i <= f[x]
      BY <2>3, <2>4
    <2>6. <<x, i>> \in U
      BY <2>3, <2>5 DEF Units
    <2>7. c[<<x, i>>] = r
      BY <2>2, <2>4, <2>6
    <2> QED
      BY <2>6, <2>7
  <1>6. IsFiniteSet(U)
    BY WeightAdds
  <1> HIDE DEF U, V, c
  <1>7. c \in Bijection(U, V)
    BY <1>3, <1>4, <1>5 DEF Bijection, Injection, Surjection, IsInjective
  <1>8. Cardinality(U) = Cardinality(V)
    BY <1>6, <1>7, FS_Bijection DEF ExistsBijection
  <1> QED
    BY <1>8 DEF Weight, U, V
=============================================================================
