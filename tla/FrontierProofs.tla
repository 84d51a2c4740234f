--------------------------- MODULE FrontierProofs ----------------------------
(***************************************************************************)
(* Proofs about Frontier.  First the heap: up and down keep the array a    *)
(* permutation of the same hosts and restore the order by ready time,      *)
(* whatever the priorities have become since the hosts were pushed.  Then  *)
(* the frontier: the heap holds exactly the hosts with URLs and no worker, *)
(* every URL admitted is in one place, and each step is one of Politeness. *)
(***************************************************************************)
EXTENDS Frontier, IterationProofs, FiniteSetTheorems

-----------------------------------------------------------------------------
(***************************************************************************)
(* The heap.                                                               *)
(***************************************************************************)

\* a holds the members of S, each once.
Holds(a, S) ==
  /\ a \in Seq(Hosts)
  /\ \A i \in 1..Len(a) : a[i] \in S
  /\ \A h \in S : \E i \in 1..Len(a) : a[i] = h
  /\ \A i, j \in 1..Len(a) : a[i] = a[j] => i = j

\* No element is ready before its parent.
Ordered(a, at) == \A c \in 2..Len(a) : at[a[c \div 2]] <= at[a[c]]

ReadyTimes == [Hosts -> Nat]

\* A swap of two places of an array.
LEMMA SwapPlaces ==
  ASSUME NEW a \in Seq(Hosts), NEW i \in 1..Len(a), NEW j \in 1..Len(a)
  PROVE  /\ Swap(a, i, j) \in Seq(Hosts) /\ Len(Swap(a, i, j)) = Len(a)
         /\ \A c \in 1..Len(a) : Swap(a, i, j)[c] = IF c = j THEN a[i] ELSE IF c = i THEN a[j] ELSE a[c]
  BY DEF Swap

\* The other places are as they were.
LEMMA SwapElsewhere ==
  ASSUME NEW a \in Seq(Hosts), NEW i \in 1..Len(a), NEW j \in 1..Len(a),
         NEW c \in 1..Len(a), c # i, c # j
  PROVE  Swap(a, i, j)[c] = a[c]
  BY DEF Swap

\* It keeps what the array holds.
LEMMA SwapHolds ==
  ASSUME NEW a, NEW S, Holds(a, S), NEW i \in 1..Len(a), NEW j \in 1..Len(a)
  PROVE  Holds(Swap(a, i, j), S)
  <1> DEFINE b == Swap(a, i, j)
             was(c) == IF c = j THEN i ELSE IF c = i THEN j ELSE c
  <1>1. a \in Seq(Hosts)
    BY DEF Holds
  <1>2. b \in Seq(Hosts) /\ Len(b) = Len(a)
        /\ \A c \in 1..Len(a) : b[c] = a[was(c)] /\ was(c) \in 1..Len(a)
    <2>1. b \in Seq(Hosts) /\ Len(b) = Len(a)
          /\ \A c \in 1..Len(a) : b[c] = IF c = j THEN a[i] ELSE IF c = i THEN a[j] ELSE a[c]
      BY <1>1, SwapPlaces
    <2> HIDE DEF b
    <2> QED
      BY <2>1
  <1>3. \A c \in 1..Len(a) : was(was(c)) = c
    OBVIOUS
  <1> HIDE DEF b, was
  <1>4. \A c \in 1..Len(b) : b[c] \in S
    BY <1>2 DEF Holds
  <1>5. ASSUME NEW h \in S PROVE \E c \in 1..Len(b) : b[c] = h
    <2>1. PICK c \in 1..Len(a) : a[c] = h
      BY DEF Holds
    <2>2. was(c) \in 1..Len(b) /\ b[was(c)] = a[was(was(c))]
      BY <1>2
    <2> QED
      BY <2>1, <2>2, <1>3
  <1>6. ASSUME NEW c \in 1..Len(b), NEW e \in 1..Len(b), b[c] = b[e] PROVE c = e
    <2>1. was(c) = was(e)
      <3>1. was(c) \in 1..Len(a) /\ was(e) \in 1..Len(a) /\ a[was(c)] = a[was(e)]
        BY <1>2, <1>6
      <3> QED
        BY <3>1 DEF Holds
    <2> QED
      BY <2>1, <1>2, <1>3
  <1>7. Holds(b, S)
    BY <1>2, <1>4, <1>5, <1>6 DEF Holds
  <1> QED
    BY <1>7 DEF b

\* Less compares ready times first.
LEMMA LessTimes ==
  ASSUME NEW at \in ReadyTimes, NEW pri, NEW g \in Hosts, NEW h \in Hosts
  PROVE  /\ Less(at, pri, g, h) => at[g] <= at[h]
         /\ ~Less(at, pri, g, h) => at[h] <= at[g]
  BY DEF Less, ReadyTimes

\* The order but for the place j, whose element may be less than its parent.
UpOrdered(a, at, j) ==
  /\ \A c \in 2..Len(a) : c # j => at[a[c \div 2]] <= at[a[c]]
  /\ j > 1 => \A c \in 2..Len(a) : c \div 2 = j => at[a[j \div 2]] <= at[a[c]]

\* An exchange with the parent moves that place up.
LEMMA UpSwap ==
  ASSUME NEW a \in Seq(Hosts), NEW at \in ReadyTimes, NEW j \in 2..Len(a),
         UpOrdered(a, at, j), at[a[j]] <= at[a[j \div 2]]
  PROVE  UpOrdered(Swap(a, j \div 2, j), at, j \div 2)
  <1> DEFINE i == j \div 2
             b == Swap(a, i, j)
             n == Len(a)
  <1>1. i \in 1..n /\ j \in 1..n /\ i < j /\ n \in Nat
    OBVIOUS
  <1>2. Len(b) = n /\ \A c \in 1..n : b[c] = IF c = j THEN a[i] ELSE IF c = i THEN a[j] ELSE a[c]
    <2>1. i \in 1..Len(a) /\ j \in 1..Len(a)
      BY <1>1
    <2> HIDE DEF i
    <2>2. /\ Len(Swap(a, i, j)) = Len(a)
          /\ \A c \in 1..Len(a) : Swap(a, i, j)[c] = IF c = j THEN a[i] ELSE IF c = i THEN a[j] ELSE a[c]
      BY <2>1, SwapPlaces
    <2> QED
      BY <2>2
  <1>3. \A c \in 1..n : a[c] \in Hosts /\ at[a[c]] \in Nat
    BY DEF ReadyTimes
  <1>4. \A c \in 2..n : c \div 2 \in 1..n /\ c \div 2 < c /\ c \in 1..n
    OBVIOUS
  <1>5. ASSUME NEW c \in 2..n, c # i PROVE at[b[c \div 2]] <= at[b[c]]
    <2>1. CASE c = j
      BY <2>1, <1>1, <1>2
    <2>2. CASE c # j /\ c \div 2 = j
      <3>1. b[c] = a[c] /\ b[c \div 2] = a[i]
        BY <2>2, <1>1, <1>2, <1>4, <1>5
      <3> QED
        BY <3>1, <2>2 DEF UpOrdered
    <2>3. CASE c # j /\ c \div 2 = i
      <3>1. b[c] = a[c] /\ b[c \div 2] = a[j]
        BY <2>3, <1>1, <1>2, <1>4, <1>5
      <3>2. at[a[i]] <= at[a[c]] /\ at[a[j]] <= at[a[i]]
        BY <2>3 DEF UpOrdered
      <3>3. at[a[i]] \in Nat /\ at[a[c]] \in Nat /\ at[a[j]] \in Nat
        BY <1>1, <1>3, <1>4
      <3> HIDE DEF b, i
      <3> QED
        BY <3>1, <3>2, <3>3
    <2>4. CASE c # j /\ c \div 2 # i /\ c \div 2 # j
      <3>1. b[c] = a[c] /\ b[c \div 2] = a[c \div 2]
        BY <2>4, <1>1, <1>2, <1>4, <1>5
      <3> QED
        BY <3>1, <2>4 DEF UpOrdered
    <2> QED
      BY <2>1, <2>2, <2>3, <2>4
  <1>6. ASSUME i > 1, NEW c \in 2..n, c \div 2 = i PROVE at[b[i \div 2]] <= at[b[c]]
    <2>1. i \in 2..n /\ i \div 2 < i /\ i \div 2 \in 1..n
      BY <1>1, <1>4, <1>6
    <2>2. b[i \div 2] = a[i \div 2] /\ at[a[i \div 2]] <= at[a[i]]
      <3>1. b[i \div 2] = a[i \div 2]
        BY <2>1, <1>1, <1>2
      <3>2. i # j /\ i \in 2..Len(a)
        BY <2>1, <1>1
      <3> HIDE DEF i
      <3> QED
        BY <3>1, <3>2 DEF UpOrdered
    <2>3. CASE c = j
      BY <2>2, <2>3, <1>2, <1>1
    <2>4. CASE c # j
      <3>1. b[c] = a[c] /\ at[a[i]] <= at[a[c]]
        BY <2>4, <1>2, <1>4, <1>6 DEF UpOrdered
      <3>2. at[a[i \div 2]] \in Nat /\ at[a[i]] \in Nat /\ at[a[c]] \in Nat
        BY <2>1, <1>1, <1>3, <1>4
      <3> HIDE DEF b, i
      <3> QED
        BY <3>1, <3>2, <2>2
    <2> QED
      BY <2>3, <2>4
  <1> HIDE DEF i, b
  <1>7. UpOrdered(b, at, i)
    BY <1>2, <1>5, <1>6 DEF UpOrdered
  <1> QED
    BY <1>7 DEF b, i

\* The order but for the place i, whose element may be greater than its children.
DownOrdered(a, at, i, n) ==
  /\ \A c \in 2..n : c \div 2 # i => at[a[c \div 2]] <= at[a[c]]
  /\ i > 1 => \A c \in 2..n : c \div 2 = i => at[a[i \div 2]] <= at[a[c]]

\* j is a child of i whose element is no greater than the other child's, nor than
\* that of i.
LeastChild(a, at, i, j, n) ==
  /\ j \div 2 = i /\ at[a[j]] <= at[a[i]]
  /\ \A c \in 2..n : c \div 2 = i => at[a[j]] <= at[a[c]]

\* An exchange with the lesser child moves that place down.
LEMMA DownSwap ==
  ASSUME NEW a \in Seq(Hosts), NEW at \in ReadyTimes, NEW n \in Nat, n <= Len(a),
         NEW i \in 1..n, NEW j \in 2..n, LeastChild(a, at, i, j, n), DownOrdered(a, at, i, n)
  PROVE  DownOrdered(Swap(a, i, j), at, j, n)
  <1> DEFINE b == Swap(a, i, j)
  <1>1. i \in 1..Len(a) /\ j \in 1..Len(a) /\ i < j /\ i \in 1..n /\ j \in 1..n /\ j \div 2 = i
    BY DEF LeastChild
  <1>2. \A c \in 1..n : b[c] = IF c = j THEN a[i] ELSE IF c = i THEN a[j] ELSE a[c]
    <2>1. \A c \in 1..Len(a) : b[c] = IF c = j THEN a[i] ELSE IF c = i THEN a[j] ELSE a[c]
      <3>1. i \in 1..Len(a) /\ j \in 1..Len(a)
        BY <1>1
      <3>2. Swap(a, i, j) = [[a EXCEPT ![i] = a[j]] EXCEPT ![j] = a[i]]
        BY DEF Swap
      <3>3. DOMAIN a = 1..Len(a) /\ DOMAIN [a EXCEPT ![i] = a[j]] = 1..Len(a)
        OBVIOUS
      <3> QED
        BY <3>1, <3>2, <3>3
    <2>2. \A c \in 1..n : c \in 1..Len(a)
      BY <1>1
    <2> HIDE DEF b
    <2> QED
      BY <2>1, <2>2
  <1>3. \A c \in 1..n : a[c] \in Hosts /\ at[a[c]] \in Nat
    BY <1>1 DEF ReadyTimes
  <1>4. \A c \in 2..n : c \div 2 \in 1..n /\ c \div 2 < c /\ c \in 1..n
    BY <1>1
  <1>5. ASSUME NEW c \in 2..n, c \div 2 # j PROVE at[b[c \div 2]] <= at[b[c]]
    <2>1. CASE c = j
      BY <2>1, <1>1, <1>2, <1>4 DEF LeastChild
    <2>2. CASE c # j /\ c \div 2 = i
      <3>1. b[c] = a[c] /\ b[c \div 2] = a[j]
        BY <2>2, <1>1, <1>2, <1>4
      <3> QED
        BY <3>1, <2>2 DEF LeastChild
    <2>3. CASE c = i
      <3>1. b[c] = a[j] /\ b[c \div 2] = a[c \div 2]
        BY <2>3, <1>1, <1>2, <1>4
      <3>2. i > 1 /\ at[a[i \div 2]] <= at[a[j]]
        BY <1>1, <2>3 DEF DownOrdered
      <3> QED
        BY <3>1, <3>2, <2>3
    <2>4. CASE c # j /\ c # i /\ c \div 2 # i
      <3>1. b[c] = a[c] /\ b[c \div 2] = a[c \div 2]
        BY <2>4, <1>1, <1>2, <1>4, <1>5
      <3> QED
        BY <3>1, <2>4 DEF DownOrdered
    <2> QED
      BY <2>1, <2>2, <2>3, <2>4
  <1>6. ASSUME NEW c \in 2..n, c \div 2 = j PROVE at[b[j \div 2]] <= at[b[c]]
    <2>1. b[j \div 2] = a[j] /\ b[c] = a[c]
      BY <1>1, <1>2, <1>4, <1>6
    <2>2. c \div 2 # i
      BY <1>1, <1>6
    <2>3. at[a[c \div 2]] <= at[a[c]]
      BY <2>2 DEF DownOrdered
    <2> QED
      BY <2>1, <2>3, <1>6
  <1> HIDE DEF b
  <1>7. DownOrdered(b, at, j, n)
    BY <1>5, <1>6 DEF DownOrdered
  <1> QED
    BY <1>7 DEF b

\* Whether a round of up leaves the place j as it is.
UpRests(a, at, pri, j) == j = 1 \/ ~Less(at, pri, a[j], a[j \div 2])

\* heap.Push: the array holds one host more and is in order by ready time.
LEMMA PushKeepsHeap ==
  ASSUME NEW heap, NEW S, Holds(heap, S), NEW h \in Hosts, h \notin S,
         NEW at \in ReadyTimes, Ordered(heap, at), NEW pri
  PROVE  Holds(HeapPush(heap, h, at, pri), S \cup {h})
         /\ Ordered(HeapPush(heap, h, at, pri), at)
  <1> DEFINE n == Len(heap) + 1
             T == S \cup {h}
             g == UpRound(at, pri)
             first == Append(heap, h)
             start == <<first, n>>
             Inv(k) == {p \in Sifting :
                          /\ Holds(p[1], T) /\ Len(p[1]) = n
                          /\ p[2] \in 1..n
                          /\ UpOrdered(p[1], at, p[2])
                          /\ UpRests(p[1], at, pri, p[2]) \/ p[2] <= n - k}
             I == [k \in Nat |-> Inv(k)]
  <1>1. heap \in Seq(Hosts) /\ Len(heap) \in Nat /\ n \in Nat
    BY DEF Holds
  <1>2. first \in Seq(Hosts) /\ Len(first) = n
        /\ \A i \in 1..n : first[i] = IF i = n THEN h ELSE heap[i]
    BY <1>1
  <1>3. Holds(first, T)
    <2>1. \A i \in 1..Len(first) : first[i] \in T
      BY <1>1, <1>2 DEF Holds
    <2>2. ASSUME NEW x \in T PROVE \E i \in 1..Len(first) : first[i] = x
      <3>1. CASE x = h
        BY <3>1, <1>1, <1>2
      <3>2. CASE x \in S
        <4>1. PICK i \in 1..Len(heap) : heap[i] = x
          BY <3>2 DEF Holds
        <4>2. i \in 1..n /\ i # n
          BY <1>1
        <4> QED
          BY <4>1, <4>2, <1>2
      <3> QED
        BY <3>1, <3>2
    <2>3. ASSUME NEW i \in 1..Len(first), NEW j \in 1..Len(first), first[i] = first[j] PROVE i = j
      <3>1. \A k \in 1..n : k # n => k \in 1..Len(heap) /\ heap[k] # h
        BY <1>1 DEF Holds
      <3>2. CASE i = n \/ j = n
        BY <1>2, <2>3, <3>1, <3>2
      <3>3. CASE i # n /\ j # n
        <4>1. i \in 1..Len(heap) /\ j \in 1..Len(heap) /\ heap[i] = heap[j]
          BY <1>2, <2>3, <3>1, <3>3
        <4> QED
          BY <4>1 DEF Holds
      <3> QED
        BY <3>2, <3>3
    <2> QED
      BY <1>2, <2>1, <2>2, <2>3 DEF Holds
  <1>4. UpOrdered(first, at, n)
    <2>1. ASSUME NEW c \in 2..Len(first), c # n PROVE at[first[c \div 2]] <= at[first[c]]
      <3>1. c \in 2..Len(heap) /\ c \div 2 \in 1..n /\ c \div 2 # n /\ c \in 1..n
        BY <1>1, <1>2, <2>1
      <3>2. first[c] = heap[c] /\ first[c \div 2] = heap[c \div 2]
        BY <1>2, <2>1, <3>1
      <3> QED
        BY <3>1, <3>2 DEF Ordered
    <2>2. \A c \in 2..Len(first) : c \div 2 # n
      BY <1>1, <1>2
    <2> QED
      BY <2>1, <2>2 DEF UpOrdered
  <1>5. start \in Inv(0)
    <2> HIDE DEF first, T
    <2>1. start \in Sifting /\ start[1] = first /\ start[2] = n
      BY <1>1, <1>2 DEF Sifting
    <2>2. n \in 1..n /\ n <= n - 0
      BY <1>1
    <2> HIDE DEF start, n
    <2> QED
      BY <1>2, <1>3, <1>4, <2>1, <2>2
  <1>6. ASSUME NEW k \in Nat, NEW p \in Inv(k) PROVE g[p] \in Inv(k + 1)
    <2> DEFINE a == p[1]
               j == p[2]
               i == j \div 2
    <2>1. p \in Sifting /\ a \in Seq(Hosts) /\ Len(a) = n /\ Holds(a, T) /\ j \in 1..n
          /\ UpOrdered(a, at, j) /\ (UpRests(a, at, pri, j) \/ j <= n - k)
      BY DEF Holds
    <2>2. CASE UpRests(a, at, pri, j)
      <3>1. g[p] = p
        BY <2>1, <2>2 DEF UpRound, UpRests
      <3> HIDE DEF g
      <3> QED
        BY <2>1, <2>2, <3>1
    <2>3. CASE ~UpRests(a, at, pri, j)
      <3>1. g[p] = <<Swap(a, i, j), i>> /\ j # 1 /\ Less(at, pri, a[j], a[i])
        BY <2>1, <2>3 DEF UpRound, UpRests
      <3>2. j \in 2..Len(a) /\ i \in 1..Len(a) /\ j \in 1..Len(a) /\ i < j /\ i \in Nat
        BY <1>1, <2>1, <3>1
      <3>3. a[j] \in Hosts /\ a[i] \in Hosts
        BY <2>1, <3>2
      <3>4. at[a[j]] <= at[a[i]]
        BY <3>1, <3>3, LessTimes
      <3>5. UpOrdered(Swap(a, i, j), at, i)
        BY <2>1, <3>2, <3>4, UpSwap
      <3>6. Holds(Swap(a, i, j), T)
        <4> HIDE DEF a, j, i, T
        <4> QED
          BY <2>1, <3>2, SwapHolds
      <3>7. Swap(a, i, j) \in Seq(Hosts) /\ Len(Swap(a, i, j)) = n
        <4> HIDE DEF a, j, i
        <4> QED
          BY <2>1, <3>2, SwapPlaces
      <3>8. i <= n - (k + 1)
        BY <1>1, <2>1, <2>3, <3>2
      <3> HIDE DEF a, j, i, g
      <3> QED
        BY <2>1, <3>1, <3>2, <3>5, <3>6, <3>7, <3>8 DEF Sifting
    <2> QED
      BY <2>2, <2>3
  <1>7. Iterate(g, start, n) \in Inv(n)
    <2>1. start \in I[0] /\ \A k \in Nat : k < n => \A p \in I[k] : g[p] \in I[k + 1]
      <3> HIDE DEF Inv, g, start
      <3> QED
        BY <1>5, <1>6
    <2>2. I[n] = Inv(n)
      BY <1>1
    <2> HIDE DEF g, start, I
    <2>3. Iterate(g, start, n) \in I[n]
      BY <1>1, <2>1, LoopInvariant
    <2> QED
      BY <2>2, <2>3
  <1>8. PICK r \in Inv(n) : r = Iterate(g, start, n)
    BY <1>7
  <1> DEFINE a == r[1]
             j == r[2]
  <1>9. HeapPush(heap, h, at, pri) = a
    BY <1>8 DEF HeapPush
  <1>10. Holds(a, T) /\ a \in Seq(Hosts) /\ Len(a) = n /\ UpOrdered(a, at, j) /\ j \in 1..n
         /\ (j = 1 \/ ~Less(at, pri, a[j], a[j \div 2]))
    <2>1. r \in Inv(n) /\ ~(r[2] <= n - n)
      BY <1>1
    <2> QED
      BY <2>1 DEF Holds, UpRests
  <1> HIDE DEF a, j
  <1>11. Ordered(a, at)
    <2> SUFFICES ASSUME NEW c \in 2..Len(a) PROVE at[a[c \div 2]] <= at[a[c]]
      BY DEF Ordered
    <2>1. CASE c # j
      BY <2>1, <1>10 DEF UpOrdered
    <2>2. CASE c = j
      <3>1. c \in 1..Len(a) /\ c \div 2 \in 1..Len(a) /\ ~Less(at, pri, a[c], a[c \div 2])
        BY <2>2, <1>1, <1>10
      <3>2. a[c] \in Hosts /\ a[c \div 2] \in Hosts
        BY <3>1, <1>10
      <3> QED
        BY <3>1, <3>2, LessTimes
    <2> QED
      BY <2>1, <2>2
  <1> QED
    BY <1>9, <1>10, <1>11

\* LesserChild is a child, and no child is ready before it.
LEMMA LesserIsLeast ==
  ASSUME NEW a \in Seq(Hosts), NEW at \in ReadyTimes, NEW pri, NEW n \in Nat, n <= Len(a),
         NEW i \in 1..n, 2 * i <= n
  PROVE  /\ LesserChild(a, at, pri, i, n) \in 2..n
         /\ LesserChild(a, at, pri, i, n) \div 2 = i
         /\ \A c \in 2..n : c \div 2 = i => at[a[LesserChild(a, at, pri, i, n)]] <= at[a[c]]
  <1> DEFINE j == LesserChild(a, at, pri, i, n)
  <1>1. j \in 2..n /\ j \div 2 = i
    BY DEF LesserChild
  <1>2. \A c \in 1..n : a[c] \in Hosts /\ at[a[c]] \in Nat
    BY DEF ReadyTimes
  <1>3. ASSUME NEW c \in 2..n, c \div 2 = i PROVE at[a[j]] <= at[a[c]]
    <2>1. c = 2 * i \/ c = 2 * i + 1
      BY <1>3
    <2>2. CASE c = j
      BY <2>2, <1>2
    <2>3. CASE c # j /\ c = 2 * i + 1
      <3>1. j = 2 * i /\ ~Less(at, pri, a[c], a[j])
        BY <2>3 DEF LesserChild
      <3>2. a[c] \in Hosts /\ a[j] \in Hosts
        BY <1>1, <1>2
      <3> QED
        BY <3>1, <3>2, LessTimes
    <2>4. CASE c # j /\ c = 2 * i
      <3>1. j = 2 * i + 1 /\ Less(at, pri, a[j], a[c])
        BY <2>4 DEF LesserChild
      <3>2. a[c] \in Hosts /\ a[j] \in Hosts
        BY <1>1, <1>2
      <3> QED
        BY <3>1, <3>2, LessTimes
    <2> QED
      BY <2>1, <2>2, <2>3, <2>4
  <1> HIDE DEF j
  <1>4. j \in 2..n /\ j \div 2 = i /\ \A c \in 2..n : c \div 2 = i => at[a[j]] <= at[a[c]]
    BY <1>1, <1>3
  <1> QED
    BY <1>4 DEF j

\* Whether a round of down leaves the place i as it is.
DownRests(a, at, pri, i, n) ==
  2 * i > n \/ ~Less(at, pri, a[LesserChild(a, at, pri, i, n)], a[i])

\* What the loop of heap.Pop keeps: the root that leaves stays behind the first n.
Sinking(S, at, n, root) ==
  {p \in Sifting : /\ Holds(p[1], S) /\ Len(p[1]) = n + 1 /\ p[1][n + 1] = root
                   /\ p[2] \in 1..(n + 1) /\ DownOrdered(p[1], at, p[2], n)}

\* A round of down.
LEMMA DownKeeps ==
  ASSUME NEW S, NEW at \in ReadyTimes, NEW pri, NEW n \in Nat, NEW root,
         NEW p \in Sinking(S, at, n, root)
  PROVE  /\ DownRests(p[1], at, pri, p[2], n) => DownRound(at, pri, n)[p] = p
         /\ ~DownRests(p[1], at, pri, p[2], n) =>
              /\ DownRound(at, pri, n)[p] \in Sinking(S, at, n, root)
              /\ DownRound(at, pri, n)[p][2] >= p[2] + 1
  <1> DEFINE a == p[1]
             i == p[2]
             j == LesserChild(a, at, pri, i, n)
             q == DownRound(at, pri, n)[p]
  <1>1. p \in Sifting /\ a \in Seq(Hosts) /\ Holds(a, S) /\ Len(a) = n + 1 /\ a[n + 1] = root
        /\ i \in 1..(n + 1) /\ DownOrdered(a, at, i, n)
    BY DEF Sinking, Holds
  <1>2. CASE DownRests(a, at, pri, i, n)
    <2>1. q = p
      BY <1>1, <1>2 DEF DownRound, DownRests
    <2> QED
      BY <1>2, <2>1
  <1>3. CASE ~DownRests(a, at, pri, i, n)
    <2>1. q = <<Swap(a, i, j), j>> /\ 2 * i <= n /\ Less(at, pri, a[j], a[i])
      BY <1>1, <1>3 DEF DownRound, DownRests
    <2>2. i \in 1..n /\ n <= Len(a)
      BY <1>1, <2>1
    <2>3. j \in 2..n /\ j \div 2 = i /\ \A c \in 2..n : c \div 2 = i => at[a[j]] <= at[a[c]]
      <3> HIDE DEF a, i
      <3> QED
        BY <1>1, <2>1, <2>2, LesserIsLeast
    <2> HIDE DEF a, i, j
    <2>4. i \in 1..Len(a) /\ j \in 1..Len(a) /\ i < j /\ n + 1 \in 1..Len(a) /\ n + 1 # j /\ n + 1 # i
          /\ j \in 1..(n + 1) /\ j \in Nat
      BY <1>1, <2>2, <2>3
    <2>5. LeastChild(a, at, i, j, n)
      <3>1. a[j] \in Hosts /\ a[i] \in Hosts
        BY <1>1, <2>4
      <3>2. at[a[j]] <= at[a[i]]
        BY <2>1, <3>1, LessTimes
      <3> QED
        BY <2>3, <3>2 DEF LeastChild
    <2>6. DownOrdered(Swap(a, i, j), at, j, n)
      BY <1>1, <2>2, <2>3, <2>5, DownSwap
    <2>7. Holds(Swap(a, i, j), S)
      BY <1>1, <2>4, SwapHolds
    <2>8. Swap(a, i, j) \in Seq(Hosts) /\ Len(Swap(a, i, j)) = n + 1
      BY <1>1, <2>4, SwapPlaces
    <2>9. Swap(a, i, j)[n + 1] = root
      <3>1. Swap(a, i, j)[n + 1] = a[n + 1]
        BY <1>1, <2>4, SwapElsewhere
      <3> QED
        BY <1>1, <3>1
    <2>10. PICK b : b = Swap(a, i, j)
      OBVIOUS
    <2>11. q = <<b, j>> /\ b \in Seq(Hosts) /\ Len(b) = n + 1 /\ b[n + 1] = root /\ Holds(b, S)
           /\ DownOrdered(b, at, j, n)
      BY <2>1, <2>6, <2>7, <2>8, <2>9, <2>10
    <2> HIDE DEF q
    <2>12. q \in Sinking(S, at, n, root)
      BY <2>11, <2>4 DEF Sinking, Sifting
    <2>13. q[2] >= i + 1
      BY <2>11, <2>4, <1>1
    <2> QED
      BY <1>3, <2>12, <2>13 DEF a, i, q
  <1> QED
    BY <1>2, <1>3

\* When down rests, the first n are in order.
LEMMA RestOrdered ==
  ASSUME NEW a \in Seq(Hosts), NEW at \in ReadyTimes, NEW pri, NEW n \in Nat, n <= Len(a),
         NEW i \in 1..(n + 1), DownOrdered(a, at, i, n), DownRests(a, at, pri, i, n)
  PROVE  \A c \in 2..n : at[a[c \div 2]] <= at[a[c]]
  <1> SUFFICES ASSUME NEW c \in 2..n PROVE at[a[c \div 2]] <= at[a[c]]
    OBVIOUS
  <1> DEFINE j == LesserChild(a, at, pri, i, n)
  <1>1. CASE c \div 2 # i
    BY <1>1 DEF DownOrdered
  <1>2. CASE c \div 2 = i
    <2>1. 2 * i <= n /\ i \in 1..n /\ ~Less(at, pri, a[j], a[i])
      BY <1>2 DEF DownRests
    <2>2. j \in 2..n /\ at[a[j]] <= at[a[c]]
      BY <1>2, <2>1, LesserIsLeast
    <2> HIDE DEF j
    <2>3. a[i] \in Hosts /\ a[j] \in Hosts /\ a[c] \in Hosts
      BY <2>1, <2>2
    <2>4. at[a[i]] <= at[a[j]]
      BY <2>1, <2>3, LessTimes
    <2>5. at[a[i]] \in Nat /\ at[a[j]] \in Nat /\ at[a[c]] \in Nat
      BY <2>3 DEF ReadyTimes
    <2> QED
      BY <1>2, <2>2, <2>4, <2>5
  <1> QED
    BY <1>1, <1>2

\* heap.Pop: the root leaves, and the rest is in order by ready time.
LEMMA PopKeepsHeap ==
  ASSUME NEW heap, NEW S, Holds(heap, S), heap # <<>>,
         NEW at \in ReadyTimes, Ordered(heap, at), NEW pri
  PROVE  Holds(HeapPop(heap, at, pri), S \ {heap[1]})
         /\ Ordered(HeapPop(heap, at, pri), at)
  <1> DEFINE n == Len(heap) - 1
             root == heap[1]
             g == DownRound(at, pri, n)
             first == Swap(heap, 1, n + 1)
             start == <<first, 1>>
             Inv(k) == {p \in Sinking(S, at, n, root) : DownRests(p[1], at, pri, p[2], n) \/ p[2] >= k + 1}
             I == [k \in Nat |-> Inv(k)]
  <1>1. heap \in Seq(Hosts) /\ Len(heap) \in Nat /\ n \in Nat /\ Len(heap) = n + 1
        /\ 1 \in 1..Len(heap) /\ n + 1 \in 1..Len(heap)
    BY DEF Holds
  <1>2. first \in Seq(Hosts) /\ Len(first) = n + 1 /\ first[n + 1] = root
        /\ \A c \in 2..n : first[c] = heap[c]
    <2>1. first \in Seq(Hosts) /\ Len(first) = Len(heap)
      BY <1>1, SwapPlaces
    <2>2. first[n + 1] = heap[1]
      BY <1>1 DEF Swap
    <2>3. ASSUME NEW c \in 2..n PROVE first[c] = heap[c]
      <3>1. c \in 1..Len(heap) /\ c # 1 /\ c # n + 1
        <4> HIDE DEF n
        <4> QED
          BY <1>1
      <3> QED
        BY <1>1, <3>1, SwapElsewhere
    <2> QED
      BY <1>1, <2>1, <2>2, <2>3
  <1>3. Holds(first, S)
    BY <1>1, SwapHolds
  <1>4. DownOrdered(first, at, 1, n)
    <2>1. ASSUME NEW c \in 2..n, c \div 2 # 1 PROVE at[first[c \div 2]] <= at[first[c]]
      <3>1. c \div 2 \in 2..n /\ c \in 2..Len(heap)
        BY <1>1, <2>1
      <3>2. first[c] = heap[c] /\ first[c \div 2] = heap[c \div 2]
        BY <1>2, <3>1
      <3> QED
        BY <3>1, <3>2 DEF Ordered
    <2> HIDE DEF first
    <2> QED
      BY <2>1 DEF DownOrdered
  <1> HIDE DEF first, root
  <1>5. start \in Inv(0)
    <2>1. start \in Sifting /\ start[1] = first /\ start[2] = 1
      BY <1>2 DEF Sifting
    <2>2. 1 \in 1..(n + 1) /\ 1 >= 0 + 1
      BY <1>1
    <2> HIDE DEF start, n
    <2>3. start \in Sinking(S, at, n, root)
      BY <1>2, <1>3, <1>4, <2>1, <2>2 DEF Sinking
    <2> QED
      BY <2>1, <2>2, <2>3
  <1>6. ASSUME NEW k \in Nat, NEW p \in Inv(k) PROVE g[p] \in Inv(k + 1)
    <2>1. p \in Sinking(S, at, n, root) /\ (DownRests(p[1], at, pri, p[2], n) \/ p[2] >= k + 1)
          /\ p[2] \in Nat
      BY <1>1 DEF Sinking
    <2> HIDE DEF n
    <2>2. CASE DownRests(p[1], at, pri, p[2], n)
      <3>1. g[p] = p
        BY <1>1, <2>1, <2>2, DownKeeps
      <3> HIDE DEF g
      <3> QED
        BY <2>1, <2>2, <3>1
    <2>3. CASE ~DownRests(p[1], at, pri, p[2], n)
      <3>1. g[p] \in Sinking(S, at, n, root) /\ g[p][2] >= p[2] + 1
        BY <1>1, <2>1, <2>3, DownKeeps
      <3> HIDE DEF g
      <3>2. g[p][2] \in Nat
        BY <1>1, <3>1 DEF Sinking
      <3> QED
        BY <2>1, <2>3, <3>1, <3>2
    <2> QED
      BY <2>2, <2>3
  <1>7. Iterate(g, start, n) \in Inv(n)
    <2>1. start \in I[0] /\ \A k \in Nat : k < n => \A p \in I[k] : g[p] \in I[k + 1]
      <3> HIDE DEF Inv, g, start
      <3> QED
        BY <1>5, <1>6
    <2>2. I[n] = Inv(n)
      BY <1>1
    <2> HIDE DEF g, start, I, n
    <2>3. Iterate(g, start, n) \in I[n]
      BY <1>1, <2>1, LoopInvariant
    <2> QED
      BY <2>2, <2>3
  <1>8. PICK r \in Inv(n) : r = Iterate(g, start, n)
    BY <1>7
  <1> DEFINE a == r[1]
             i == r[2]
             b == SubSeq(a, 1, n)
  <1>9. HeapPop(heap, at, pri) = b
    BY <1>8 DEF HeapPop, first
  <1>10. Holds(a, S) /\ a \in Seq(Hosts) /\ Len(a) = n + 1 /\ a[n + 1] = root
         /\ i \in 1..(n + 1) /\ DownOrdered(a, at, i, n)
    BY DEF Sinking, Holds
  <1>11. DownRests(a, at, pri, i, n)
    <2>1. CASE i >= n + 1
      BY <1>1, <1>10, <2>1 DEF DownRests
    <2> QED
      BY <2>1
  <1> HIDE DEF a, i, n
  <1>12. \A c \in 2..n : at[a[c \div 2]] <= at[a[c]]
    <2>1. n <= Len(a)
      BY <1>1, <1>10
    <2> QED
      BY <1>1, <1>10, <1>11, <2>1, RestOrdered
  <1>13. b \in Seq(Hosts) /\ Len(b) = n /\ \A c \in 1..n : b[c] = a[c] /\ c \in 1..Len(a) /\ c # n + 1
    BY <1>1, <1>10
  <1>14. n + 1 \in 1..Len(a)
    BY <1>1, <1>10
  <1> HIDE DEF b
  <1>15. Ordered(b, at)
    <2> SUFFICES ASSUME NEW c \in 2..n PROVE at[b[c \div 2]] <= at[b[c]]
      BY <1>13 DEF Ordered
    <2>1. c \in 1..n /\ c \div 2 \in 1..n
      BY <1>1
    <2> QED
      BY <2>1, <1>12, <1>13
  <1>16. Holds(b, S \ {root})
    <2>1. ASSUME NEW c \in 1..Len(b) PROVE b[c] \in S \ {root}
      BY <1>10, <1>13, <1>14 DEF Holds
    <2>2. ASSUME NEW x \in S \ {root} PROVE \E c \in 1..Len(b) : b[c] = x
      <3>1. PICK c \in 1..Len(a) : a[c] = x
        BY <1>10 DEF Holds
      <3>2. c # n + 1
        BY <1>10, <3>1
      <3>3. c \in 1..n
        BY <1>1, <1>10, <3>2
      <3> QED
        BY <1>13, <3>1, <3>3
    <2>3. ASSUME NEW c \in 1..Len(b), NEW e \in 1..Len(b), b[c] = b[e] PROVE c = e
      BY <1>10, <1>13, <2>3 DEF Holds
    <2> QED
      BY <1>13, <2>1, <2>2, <2>3 DEF Holds
  <1> QED
    BY <1>9, <1>15, <1>16 DEF root

\* The root of an ordered array is ready first.
LEMMA RootIsLeast ==
  ASSUME NEW a \in Seq(Hosts), NEW at \in ReadyTimes, Ordered(a, at)
  PROVE  \A c \in 1..Len(a) : at[a[1]] <= at[a[c]]
  <1> DEFINE T == {c \in 1..Len(a) : ~(at[a[1]] <= at[a[c]])}
  <1> SUFFICES ASSUME T # {} PROVE FALSE
    OBVIOUS
  <1>1. PICK c \in T : \A m \in T : c <= m
    <2>1. T \in SUBSET Nat
      OBVIOUS
    <2> HIDE DEF T
    <2> QED
      BY <2>1, LeastNumber
  <1>2. \A m \in 1..Len(a) : a[m] \in Hosts /\ at[a[m]] \in Nat
    BY DEF ReadyTimes
  <1>3. c \in 1..Len(a) /\ ~(at[a[1]] <= at[a[c]])
    BY <1>1
  <1>4. c # 1
    BY <1>2, <1>3
  <1>5. c \in 2..Len(a) /\ c \div 2 \in 1..Len(a) /\ c \div 2 < c
    BY <1>3, <1>4
  <1>6. c \div 2 \notin T
    BY <1>1, <1>3, <1>5
  <1>7. at[a[1]] <= at[a[c \div 2]] /\ at[a[c \div 2]] <= at[a[c]]
    BY <1>5, <1>6 DEF Ordered
  <1>8. at[a[1]] \in Nat /\ at[a[c \div 2]] \in Nat /\ at[a[c]] \in Nat
    <2>1. 1 \in 1..Len(a)
      BY <1>3
    <2> QED
      BY <2>1, <1>2, <1>3, <1>5
  <1> QED
    BY <1>3, <1>7, <1>8

-----------------------------------------------------------------------------
(***************************************************************************)
(* The frontier.                                                           *)
(***************************************************************************)

\* The hosts that have a URL and no worker.
ReadyHosts == {h \in Hosts : queue[h] # <<>> /\ ~busy[h]}

Admitted == Queued \cup out \cup crawled

\* The heap holds the ready hosts, by ready time.
HeapInv == Holds(ready, ReadyHosts) /\ Ordered(ready, readyAt)

\* A back queue holds URLs of its host, each once.
HostQueues(q) ==
  \A h \in Hosts :
    /\ \A i \in 1..Len(q[h]) : HostOf[q[h][i]] = h
    /\ \A i, j \in 1..Len(q[h]) : q[h][i] = q[h][j] => i = j

QueueInv == HostQueues(queue)

\* Nothing has happened to a host before hostLocked has met it.
UnmetInv ==
  \A h \in Hosts \ known : queue[h] = <<>> /\ ~busy[h] /\ readyAt[h] = 0
                           /\ \A u \in crawled : HostOf[u] # h

\* The fingerprints seen are those of the URLs admitted, one each.
SeenInv ==
  /\ \A u, v \in Admitted : FingerprintOf[u] = FingerprintOf[v] => u = v
  /\ seen = {FingerprintOf[u] : u \in Admitted}
  /\ Queued \cap (out \cup crawled) = {} /\ out \cap crawled = {}

\* The counters behind Len and the SeenSet are right.
CountInv ==
  /\ IsFiniteSet(Queued) /\ Cardinality(Queued) = pending
  /\ IsFiniteSet(Admitted) /\ IsFiniteSet(seen) /\ Cardinality(Admitted) = Cardinality(seen)

FrontierInv ==
  /\ FrontierTypeOK /\ OneFetchPerHost
  /\ HeapInv /\ QueueInv /\ UnmetInv /\ SeenInv /\ CountInv

\* The URLs in the back queues q.
QueuedIn(q) == {u \in URLs : \E i \in 1..Len(q[HostOf[u]]) : q[HostOf[u]][i] = u}

\* An append to a back queue.
LEMMA AppendQueue ==
  ASSUME NEW q \in [Hosts -> Seq(URLs)], HostQueues(q), NEW u \in URLs, u \notin QueuedIn(q)
  PROVE  LET r == [q EXCEPT ![HostOf[u]] = Append(@, u)] IN
         r \in [Hosts -> Seq(URLs)] /\ HostQueues(r) /\ QueuedIn(r) = QueuedIn(q) \cup {u}
  <1> DEFINE h == HostOf[u]
             r == [q EXCEPT ![h] = Append(@, u)]
             n == Len(q[h])
  <1>1. h \in Hosts /\ HostOf \in [URLs -> Hosts]
    BY FrontierAssumption
  <1>2. q[h] \in Seq(URLs) /\ n \in Nat
    BY <1>1
  <1>3. r[h] \in Seq(URLs) /\ Len(r[h]) = n + 1 /\ r[h][n + 1] = u
        /\ \A i \in 1..n : r[h][i] = q[h][i]
    BY <1>1, <1>2
  <1>4. \A g \in Hosts : g # h => r[g] = q[g]
    BY <1>1
  <1>5. r \in [Hosts -> Seq(URLs)]
    BY <1>1, <1>2
  <1>6. \A i \in 1..n : q[h][i] # u
    BY <1>1 DEF QueuedIn
  <1> HIDE DEF r, h
  <1>7. \A i \in 1..(n + 1) : i = n + 1 \/ i \in 1..n
    BY <1>2
  <1>8. HostQueues(r)
    <2> SUFFICES ASSUME NEW g \in Hosts
                 PROVE  /\ \A i \in 1..Len(r[g]) : HostOf[r[g][i]] = g
                        /\ \A i, j \in 1..Len(r[g]) : r[g][i] = r[g][j] => i = j
      BY DEF HostQueues
    <2>1. CASE g # h
      BY <2>1, <1>4 DEF HostQueues
    <2>2. CASE g = h
      <3>1. ASSUME NEW i \in 1..(n + 1) PROVE HostOf[r[h][i]] = h
        <4>1. CASE i = n + 1
          BY <4>1, <1>3 DEF h
        <4>2. CASE i \in 1..n
          <5>1. r[h][i] = q[h][i] /\ i \in 1..Len(q[h])
            BY <4>2, <1>3
          <5>2. \A k \in 1..Len(q[h]) : HostOf[q[h][k]] = h
            BY <1>1 DEF HostQueues
          <5> QED
            BY <5>1, <5>2
        <4> QED
          BY <4>1, <4>2, <1>7
      <3>2. ASSUME NEW i \in 1..(n + 1), NEW j \in 1..(n + 1), r[h][i] = r[h][j] PROVE i = j
        <4>1. CASE i = n + 1 \/ j = n + 1
          BY <4>1, <3>2, <1>3, <1>6, <1>7
        <4>2. CASE i \in 1..n /\ j \in 1..n
          BY <4>2, <3>2, <1>1, <1>3 DEF HostQueues
        <4> QED
          BY <4>1, <4>2, <1>7
      <3> QED
        BY <3>1, <3>2, <2>2, <1>3
    <2> QED
      BY <2>1, <2>2
  <1>9. QueuedIn(r) = QueuedIn(q) \cup {u}
    <2>1. ASSUME NEW v \in QueuedIn(r) PROVE v \in QueuedIn(q) \cup {u}
      <3>1. v \in URLs /\ HostOf[v] \in Hosts
        BY <1>1 DEF QueuedIn
      <3>2. PICK i \in 1..Len(r[HostOf[v]]) : r[HostOf[v]][i] = v
        BY DEF QueuedIn
      <3>3. CASE HostOf[v] # h
        BY <3>1, <3>2, <3>3, <1>4 DEF QueuedIn
      <3>4. CASE HostOf[v] = h
        <4>1. i = n + 1 \/ i \in 1..n
          BY <3>2, <3>4, <1>3, <1>7
        <4>2. CASE i = n + 1
          BY <4>2, <3>2, <3>4, <1>3
        <4>3. CASE i \in 1..n
          <5>1. q[HostOf[v]][i] = v /\ i \in 1..Len(q[HostOf[v]])
            BY <4>3, <3>2, <3>4, <1>3
          <5> QED
            BY <3>1, <5>1 DEF QueuedIn
        <4> QED
          BY <4>1, <4>2, <4>3
      <3> QED
        BY <3>3, <3>4
    <2>2. ASSUME NEW v \in QueuedIn(q) PROVE v \in QueuedIn(r)
      <3>1. v \in URLs /\ HostOf[v] \in Hosts
        BY <1>1 DEF QueuedIn
      <3>2. PICK i \in 1..Len(q[HostOf[v]]) : q[HostOf[v]][i] = v
        BY DEF QueuedIn
      <3>3. CASE HostOf[v] # h
        BY <3>1, <3>2, <3>3, <1>4 DEF QueuedIn
      <3>4. CASE HostOf[v] = h
        <4>1. i \in 1..Len(r[HostOf[v]]) /\ r[HostOf[v]][i] = v
          BY <3>2, <3>4, <1>2, <1>3
        <4> QED
          BY <3>1, <4>1 DEF QueuedIn
      <3> QED
        BY <3>3, <3>4
    <2>3. u \in QueuedIn(r)
      <3>1. n + 1 \in 1..Len(r[h]) /\ r[h][n + 1] = u
        BY <1>2, <1>3
      <3> QED
        BY <3>1 DEF QueuedIn, h
    <2> QED
      BY <2>1, <2>2, <2>3
  <1> QED
    BY <1>5, <1>8, <1>9 DEF r, h

\* Taking the head off a back queue.
LEMMA TailQueue ==
  ASSUME NEW q \in [Hosts -> Seq(URLs)], HostQueues(q), NEW h \in Hosts, q[h] # <<>>
  PROVE  LET r == [q EXCEPT ![h] = Tail(@)]
             u == Head(q[h])
         IN  /\ r \in [Hosts -> Seq(URLs)] /\ HostQueues(r)
             /\ u \in QueuedIn(q) /\ HostOf[u] = h
             /\ QueuedIn(r) = QueuedIn(q) \ {u}
  <1> DEFINE r == [q EXCEPT ![h] = Tail(@)]
             u == Head(q[h])
             n == Len(q[h])
  <1>1. q[h] \in Seq(URLs) /\ n \in Nat \ {0} /\ HostOf \in [URLs -> Hosts]
    BY FrontierAssumption
  <1>2. r[h] \in Seq(URLs) /\ Len(r[h]) = n - 1 /\ u = q[h][1] /\ u \in URLs
        /\ \A i \in 1..(n - 1) : r[h][i] = q[h][i + 1]
    BY <1>1
  <1>3. \A g \in Hosts : g # h => r[g] = q[g]
    OBVIOUS
  <1>4. r \in [Hosts -> Seq(URLs)]
    BY <1>1
  <1>5. 1 \in 1..n /\ \A i \in 1..(n - 1) : i + 1 \in 1..n /\ i + 1 # 1
    BY <1>1
  <1>6. HostOf[u] = h
    BY <1>2, <1>5 DEF HostQueues
  <1> HIDE DEF r, u
  <1>7. u \in QueuedIn(q)
    BY <1>2, <1>5, <1>6 DEF QueuedIn
  <1>8. HostQueues(r)
    <2> SUFFICES ASSUME NEW g \in Hosts
                 PROVE  /\ \A i \in 1..Len(r[g]) : HostOf[r[g][i]] = g
                        /\ \A i, j \in 1..Len(r[g]) : r[g][i] = r[g][j] => i = j
      BY DEF HostQueues
    <2>1. CASE g # h
      BY <2>1, <1>3 DEF HostQueues
    <2>2. CASE g = h
      <3>1. ASSUME NEW i \in 1..(n - 1) PROVE HostOf[r[h][i]] = h
        <4>1. r[h][i] = q[h][i + 1] /\ i + 1 \in 1..Len(q[h])
          BY <1>2, <1>5
        <4>2. \A k \in 1..Len(q[h]) : HostOf[q[h][k]] = h
          BY DEF HostQueues
        <4> QED
          BY <4>1, <4>2
      <3>2. ASSUME NEW i \in 1..(n - 1), NEW j \in 1..(n - 1), r[h][i] = r[h][j] PROVE i = j
        <4>1. i + 1 = j + 1
          BY <3>2, <1>2, <1>5 DEF HostQueues
        <4> QED
          BY <4>1
      <3> QED
        BY <3>1, <3>2, <2>2, <1>2
    <2> QED
      BY <2>1, <2>2
  <1>9. QueuedIn(r) = QueuedIn(q) \ {u}
    <2>1. ASSUME NEW v \in QueuedIn(r) PROVE v \in QueuedIn(q) \ {u}
      <3>1. v \in URLs /\ HostOf[v] \in Hosts
        BY <1>1 DEF QueuedIn
      <3>2. PICK i \in 1..Len(r[HostOf[v]]) : r[HostOf[v]][i] = v
        BY DEF QueuedIn
      <3>3. CASE HostOf[v] # h
        BY <3>1, <3>2, <3>3, <1>3, <1>6 DEF QueuedIn
      <3>4. CASE HostOf[v] = h
        <4>1. i \in 1..(n - 1) /\ q[h][i + 1] = v /\ i + 1 \in 1..n
          BY <3>2, <3>4, <1>2, <1>5
        <4>2. v # u
          BY <4>1, <1>2, <1>5 DEF HostQueues
        <4> QED
          BY <3>1, <3>4, <4>1, <4>2 DEF QueuedIn
      <3> QED
        BY <3>3, <3>4
    <2>2. ASSUME NEW v \in QueuedIn(q), v # u PROVE v \in QueuedIn(r)
      <3>1. v \in URLs /\ HostOf[v] \in Hosts
        BY <1>1 DEF QueuedIn
      <3>2. PICK i \in 1..Len(q[HostOf[v]]) : q[HostOf[v]][i] = v
        BY DEF QueuedIn
      <3>3. CASE HostOf[v] # h
        BY <3>1, <3>2, <3>3, <1>3 DEF QueuedIn
      <3>4. CASE HostOf[v] = h
        <4>1. i \in 1..n /\ i # 1 /\ q[h][i] = v
          BY <3>2, <3>4, <2>2, <1>2
        <4>2. i - 1 \in 1..(n - 1) /\ (i - 1) + 1 = i
          BY <4>1, <1>1
        <4>3. i - 1 \in 1..Len(r[h]) /\ r[h][i - 1] = v
          BY <4>1, <4>2, <1>2
        <4> QED
          BY <3>1, <3>4, <4>3 DEF QueuedIn
      <3> QED
        BY <3>3, <3>4
    <2> QED
      BY <2>1, <2>2
  <1> QED
    BY <1>4, <1>6, <1>7, <1>8, <1>9 DEF r, u

\* The order depends only on the ready times of the hosts in the heap.
LEMMA OrderedSame ==
  ASSUME NEW a \in Seq(Hosts), NEW at, NEW later, Ordered(a, at),
         \A c \in 1..Len(a) : later[a[c]] = at[a[c]]
  PROVE  Ordered(a, later)
  <1> SUFFICES ASSUME NEW c \in 2..Len(a) PROVE later[a[c \div 2]] <= later[a[c]]
    BY DEF Ordered
  <1>1. c \in 1..Len(a) /\ c \div 2 \in 1..Len(a) /\ at[a[c \div 2]] <= at[a[c]]
    BY DEF Ordered
  <1> QED
    BY <1>1

\* The hosts in the heap have been met.
LEMMA HeapIsMet ==
  ASSUME FrontierInv, NEW c \in 1..Len(ready)
  PROVE  ready[c] \in Hosts /\ ready[c] \in known /\ queue[ready[c]] # <<>> /\ ~busy[ready[c]]
  <1>1. ready[c] \in ReadyHosts
    BY DEF FrontierInv, HeapInv, Holds
  <1> QED
    BY <1>1 DEF ReadyHosts, FrontierInv, UnmetInv

\* hostLocked leaves the ready times of the hosts it knows.
LEMMA MeetKeeps ==
  ASSUME FrontierInv, NEW h \in Hosts, Meet(h)
  PROVE  /\ known' = known \cup {h} /\ readyAt' \in ReadyTimes
         /\ \A g \in Hosts : (g \in known \/ g # h) => readyAt'[g] = readyAt[g]
         /\ Ordered(ready, readyAt')
  <1>1. readyAt \in [Hosts -> Nat] /\ now \in Nat /\ ready \in Seq(Hosts) /\ Ordered(ready, readyAt)
    BY DEF FrontierInv, FrontierTypeOK, HeapInv
  <1>2. known' = known \cup {h} /\ readyAt' \in ReadyTimes
        /\ \A g \in Hosts : (g \in known \/ g # h) => readyAt'[g] = readyAt[g]
    BY <1>1 DEF Meet, ReadyTimes
  <1>3. \A c \in 1..Len(ready) : readyAt'[ready[c]] = readyAt[ready[c]]
    BY <1>2, HeapIsMet
  <1>4. Ordered(ready, readyAt')
    BY <1>1, <1>3, OrderedSame
  <1> QED
    BY <1>2, <1>4

\* A URL whose fingerprint has not been seen is nowhere in the frontier.
LEMMA UnseenIsNew ==
  ASSUME FrontierInv, NEW u, FingerprintOf[u] \notin seen
  PROVE  u \notin Queued /\ u \notin out /\ u \notin crawled
  BY DEF FrontierInv, SeenInv, Admitted

\* The queues and the sets of URLs after Add.
LEMMA AddMoves ==
  ASSUME FrontierInv, NEW u \in URLs, Add(u)
  PROVE  /\ queue' \in [Hosts -> Seq(URLs)] /\ HostQueues(queue')
         /\ Queued' = Queued \cup {u} /\ u \notin Admitted
         /\ Admitted' = Admitted \cup {u}
  <1>1. queue \in [Hosts -> Seq(URLs)] /\ HostQueues(queue)
    BY DEF FrontierInv, FrontierTypeOK, QueueInv
  <1>2. u \notin QueuedIn(queue) /\ u \notin Admitted
    <2>1. FingerprintOf[u] \notin seen
      BY DEF Add
    <2> QED
      BY <2>1, UnseenIsNew DEF Queued, QueuedIn, Admitted
  <1>3. queue' = [queue EXCEPT ![HostOf[u]] = Append(@, u)] /\ out' = out /\ crawled' = crawled
    BY DEF Add, assignLocked
  <1>4. queue' \in [Hosts -> Seq(URLs)] /\ HostQueues(queue') /\ QueuedIn(queue') = QueuedIn(queue) \cup {u}
    BY <1>1, <1>2, <1>3, AppendQueue
  <1>5. Queued' = Queued \cup {u}
    BY <1>4 DEF Queued, QueuedIn
  <1> QED
    BY <1>2, <1>3, <1>4, <1>5 DEF Admitted

\* The heap after Add: a host that had nothing and no worker comes in.
LEMMA AddHeap ==
  ASSUME FrontierInv, NEW u \in URLs, Add(u)
  PROVE  HeapInv'
  <1> DEFINE h == HostOf[u]
  <1>1. h \in Hosts
    BY FrontierAssumption
  <1>2. readyAt' \in ReadyTimes /\ Ordered(ready, readyAt')
    <2>1. Meet(h)
      BY DEF Add, assignLocked
    <2> QED
      BY <1>1, <2>1, MeetKeeps
  <1>3. queue \in [Hosts -> Seq(URLs)] /\ busy \in [Hosts -> BOOLEAN] /\ Holds(ready, ReadyHosts)
    BY DEF FrontierInv, FrontierTypeOK, HeapInv
  <1>4. queue' = [queue EXCEPT ![h] = Append(@, u)] /\ busy' = busy
        /\ ready' = IF queue[h] = <<>> /\ ~busy[h]
                    THEN HeapPush(ready, h, readyAt', priority') ELSE ready
    BY DEF Add, assignLocked
  <1>5. queue'[h] # <<>> /\ \A g \in Hosts : g # h => queue'[g] = queue[g]
    BY <1>1, <1>3, <1>4
  <1> HIDE DEF h
  <1>6. CASE queue[h] = <<>> /\ ~busy[h]
    <2>1. h \notin ReadyHosts /\ ReadyHosts' = ReadyHosts \cup {h}
      BY <1>1, <1>4, <1>5, <1>6 DEF ReadyHosts
    <2>2. ready' = HeapPush(ready, h, readyAt', priority')
      BY <1>4, <1>6
    <2>3. Holds(ready', ReadyHosts \cup {h}) /\ Ordered(ready', readyAt')
      BY <1>1, <1>2, <1>3, <2>1, <2>2, PushKeepsHeap
    <2> QED
      BY <2>1, <2>3 DEF HeapInv
  <1>7. CASE ~(queue[h] = <<>> /\ ~busy[h])
    <2>1. ReadyHosts' = ReadyHosts
      BY <1>1, <1>4, <1>5, <1>7 DEF ReadyHosts
    <2>2. ready' = ready
      BY <1>4, <1>7
    <2>3. Holds(ready', ReadyHosts') /\ Ordered(ready', readyAt')
      BY <1>2, <1>3, <2>1, <2>2
    <2> QED
      BY <2>3 DEF HeapInv
  <1> QED
    BY <1>6, <1>7

\* Add keeps the invariant.
LEMMA AddKeeps ==
  ASSUME FrontierInv, NEW u \in URLs, Add(u)
  PROVE  FrontierInv'
  <1> DEFINE h == HostOf[u]
  <1>1. h \in Hosts /\ PriorityOf[u] \in Int
    BY FrontierAssumption
  <1>2. queue' \in [Hosts -> Seq(URLs)] /\ HostQueues(queue')
         /\ Queued' = Queued \cup {u} /\ u \notin Admitted
         /\ Admitted' = Admitted \cup {u}
    BY AddMoves
  <1>3. HeapInv'
    BY AddHeap
  <1>4. known' = known \cup {h} /\ readyAt' \in ReadyTimes
        /\ \A g \in Hosts : (g \in known \/ g # h) => readyAt'[g] = readyAt[g]
    <2>1. Meet(h)
      BY DEF Add, assignLocked
    <2> QED
      BY <1>1, <2>1, MeetKeeps
  <1>5. /\ seen' = seen \cup {FingerprintOf[u]} /\ FingerprintOf[u] \notin seen /\ pending' = pending + 1
        /\ now' = now /\ busy' = busy /\ crawlDelay' = crawlDelay /\ out' = out /\ crawled' = crawled
        /\ priority' = [priority EXCEPT ![h] = Larger(@, PriorityOf[u])]
        /\ queue' = [queue EXCEPT ![h] = Append(@, u)]
    BY DEF Add, assignLocked
  <1>6. FrontierTypeOK'
    <2>1. priority' \in [Hosts -> Nat]
      BY <1>1, <1>5 DEF FrontierInv, FrontierTypeOK, Larger
    <2>2. ready' \in Seq(Hosts)
      BY <1>3 DEF HeapInv, Holds
    <2>3. known' \subseteq Hosts /\ seen' \subseteq {FingerprintOf[v] : v \in URLs} /\ pending' \in Nat
      BY <1>1, <1>4, <1>5 DEF FrontierInv, FrontierTypeOK
    <2>4. readyAt' \in [Hosts -> Nat]
      BY <1>4 DEF ReadyTimes
    <2> QED
      BY <2>1, <2>2, <2>3, <2>4, <1>2, <1>5 DEF FrontierInv, FrontierTypeOK
  <1>7. OneFetchPerHost'
    BY <1>5 DEF FrontierInv, OneFetchPerHost
  <1>8. QueueInv'
    BY <1>2 DEF QueueInv
  <1>9. UnmetInv'
    <2> SUFFICES ASSUME NEW g \in Hosts, g \notin known'
                 PROVE  queue'[g] = <<>> /\ ~busy'[g] /\ readyAt'[g] = 0
                        /\ \A v \in crawled' : HostOf[v] # g
      BY DEF UnmetInv
    <2>1. g \notin known /\ g # h
      BY <1>4
    <2>2. queue'[g] = queue[g] /\ busy'[g] = busy[g] /\ readyAt'[g] = readyAt[g] /\ crawled' = crawled
      BY <2>1, <1>4, <1>5 DEF FrontierInv, FrontierTypeOK
    <2> QED
      BY <2>1, <2>2 DEF FrontierInv, UnmetInv
  <1>10. SeenInv'
    <2>1. SeenInv
      BY DEF FrontierInv
    <2>2. \A v \in Admitted : FingerprintOf[v] # FingerprintOf[u]
      BY <1>5, <2>1 DEF SeenInv
    <2>3. \A v, w \in Admitted' : FingerprintOf[v] = FingerprintOf[w] => v = w
      BY <1>2, <2>1, <2>2 DEF SeenInv
    <2>4. seen' = {FingerprintOf[v] : v \in Admitted'}
      BY <1>2, <1>5, <2>1 DEF SeenInv
    <2>5. Queued' \cap (out' \cup crawled') = {} /\ out' \cap crawled' = {}
      BY <1>2, <1>5, <2>1 DEF SeenInv, Admitted
    <2> QED
      BY <2>3, <2>4, <2>5 DEF SeenInv
  <1>11. CountInv'
    <2>1. CountInv /\ pending \in Nat
      BY DEF FrontierInv, FrontierTypeOK
    <2>2. u \notin Queued
      BY <1>2 DEF Admitted
    <2>3. IsFiniteSet(Queued') /\ Cardinality(Queued') = pending'
      <3>1. IsFiniteSet(Queued \cup {u}) /\ Cardinality(Queued \cup {u}) = Cardinality(Queued) + 1
        BY <2>1, <2>2, FS_AddElement DEF CountInv
      <3> QED
        BY <3>1, <2>1, <1>2, <1>5 DEF CountInv
    <2>4. IsFiniteSet(Admitted') /\ Cardinality(Admitted') = Cardinality(Admitted) + 1
      BY <2>1, <1>2, FS_AddElement DEF CountInv
    <2>5. IsFiniteSet(seen') /\ Cardinality(seen') = Cardinality(seen) + 1
      BY <2>1, <1>5, FS_AddElement DEF CountInv
    <2> QED
      BY <2>1, <2>3, <2>4, <2>5 DEF CountInv
  <1> QED
    BY <1>3, <1>6, <1>7, <1>8, <1>9, <1>10, <1>11 DEF FrontierInv

\* What Next takes: the head of the queue of the root of the heap.
LEMMA NextMoves ==
  ASSUME FrontierInv, Next
  PROVE  LET h == ready[1]
             u == Head(queue[h])
         IN  /\ h \in Hosts /\ queue[h] # <<>> /\ ~busy[h] /\ 1 \in 1..Len(ready)
             /\ queue' = [queue EXCEPT ![h] = Tail(@)]
             /\ queue' \in [Hosts -> Seq(URLs)] /\ HostQueues(queue')
             /\ u \in Queued /\ HostOf[u] = h /\ Queued' = Queued \ {u}
             /\ out' = out \cup {u} /\ crawled' = crawled /\ Admitted' = Admitted
  <1> DEFINE h == ready[1]
             u == Head(queue[h])
  <1>1. 1 \in 1..Len(ready)
    BY DEF Next, FrontierInv, FrontierTypeOK
  <1>2. h \in Hosts /\ queue[h] # <<>> /\ ~busy[h]
    BY <1>1, HeapIsMet
  <1>3. queue \in [Hosts -> Seq(URLs)] /\ HostQueues(queue)
    BY DEF FrontierInv, FrontierTypeOK, QueueInv
  <1>4. queue' = [queue EXCEPT ![h] = Tail(@)] /\ out' = out \cup {u} /\ crawled' = crawled
    BY DEF Next
  <1> HIDE DEF h
  <1>5. queue' \in [Hosts -> Seq(URLs)] /\ HostQueues(queue')
        /\ u \in QueuedIn(queue) /\ HostOf[u] = h /\ QueuedIn(queue') = QueuedIn(queue) \ {u}
    BY <1>2, <1>3, <1>4, TailQueue
  <1>6. u \in Queued /\ Queued' = Queued \ {u}
    BY <1>5 DEF Queued, QueuedIn
  <1> HIDE DEF u
  <1>7. Admitted' = Admitted
    BY <1>4, <1>6 DEF Admitted
  <1> QED
    BY <1>1, <1>2, <1>4, <1>5, <1>6, <1>7 DEF h, u

\* Next keeps the invariant.
LEMMA NextKeeps ==
  ASSUME FrontierInv, Next
  PROVE  FrontierInv'
  <1> DEFINE h == ready[1]
             u == Head(queue[h])
  <1>1. /\ h \in Hosts /\ queue[h] # <<>> /\ ~busy[h] /\ 1 \in 1..Len(ready)
        /\ queue' = [queue EXCEPT ![h] = Tail(@)]
        /\ queue' \in [Hosts -> Seq(URLs)] /\ HostQueues(queue')
        /\ u \in Queued /\ HostOf[u] = h /\ Queued' = Queued \ {u}
        /\ out' = out \cup {u} /\ crawled' = crawled /\ Admitted' = Admitted
    BY NextMoves
  <1>2. /\ busy' = [busy EXCEPT ![h] = TRUE] /\ pending' = pending - 1
        /\ ready # <<>> /\ ready' = HeapPop(ready, readyAt, priority)
        /\ now' = now /\ seen' = seen /\ known' = known /\ readyAt' = readyAt
        /\ crawlDelay' = crawlDelay /\ priority' = priority
    BY DEF Next
  <1>3. readyAt \in ReadyTimes /\ busy \in [Hosts -> BOOLEAN] /\ queue \in [Hosts -> Seq(URLs)]
    BY DEF FrontierInv, FrontierTypeOK, ReadyTimes
  <1>4. u \in URLs
    BY <1>1 DEF Queued
  <1>5. HeapInv'
    <2>1. Holds(ready, ReadyHosts) /\ Ordered(ready, readyAt)
      BY DEF FrontierInv, HeapInv
    <2>2. Holds(ready', ReadyHosts \ {h}) /\ Ordered(ready', readyAt)
      BY <1>2, <1>3, <2>1, PopKeepsHeap
    <2>3. busy'[h] /\ \A g \in Hosts : g # h => busy'[g] = busy[g] /\ queue'[g] = queue[g]
      BY <1>1, <1>2, <1>3
    <2> HIDE DEF h
    <2>4. ReadyHosts' = ReadyHosts \ {h}
      BY <1>1, <2>3 DEF ReadyHosts
    <2> QED
      BY <1>2, <2>2, <2>4 DEF HeapInv
  <1> HIDE DEF h, u
  <1>6. CountInv /\ SeenInv /\ pending \in Nat
    BY DEF FrontierInv, FrontierTypeOK
  <1>7. Cardinality(Queued') = Cardinality(Queued) - 1 /\ IsFiniteSet(Queued')
    BY <1>1, <1>6, FS_RemoveElement DEF CountInv
  <1>8. Cardinality(Queued') \in Nat
    BY <1>7, FS_CardinalityType
  <1>9. CountInv'
    BY <1>1, <1>2, <1>6, <1>7 DEF CountInv
  <1>10. FrontierTypeOK'
    <2>1. pending' \in Nat
      BY <1>2, <1>6, <1>7, <1>8 DEF CountInv
    <2>2. ready' \in Seq(Hosts)
      BY <1>5 DEF HeapInv, Holds
    <2>3. busy' \in [Hosts -> BOOLEAN] /\ out' \subseteq URLs
      BY <1>1, <1>2, <1>3, <1>4 DEF FrontierInv, FrontierTypeOK
    <2> QED
      BY <2>1, <2>2, <2>3, <1>1, <1>2 DEF FrontierInv, FrontierTypeOK
  <1>11. OneFetchPerHost'
    <2>1. OneFetchPerHost
      BY DEF FrontierInv
    <2>2. \A v \in out : HostOf[v] # h
      BY <1>1, <2>1 DEF OneFetchPerHost
    <2>3. busy'[h] /\ \A g \in Hosts : g # h => busy'[g] = busy[g]
      BY <1>1, <1>2, <1>3
    <2>4. ASSUME NEW g \in Hosts PROVE busy'[g] <=> \E v \in out' : HostOf[v] = g
      <3>1. CASE g = h
        BY <3>1, <2>3, <1>1
      <3>2. CASE g # h
        BY <3>2, <2>1, <2>3, <1>1 DEF OneFetchPerHost
      <3> QED
        BY <3>1, <3>2
    <2>5. ASSUME NEW v \in out', NEW w \in out', HostOf[v] = HostOf[w] PROVE v = w
      BY <2>1, <2>2, <2>5, <1>1 DEF OneFetchPerHost
    <2> QED
      BY <2>4, <2>5 DEF OneFetchPerHost
  <1>12. QueueInv'
    BY <1>1 DEF QueueInv
  <1>13. UnmetInv'
    <2>1. UnmetInv
      BY DEF FrontierInv
    <2>2. h \in known
      BY <1>1, <2>1 DEF UnmetInv
    <2>3. \A g \in Hosts : g # h => busy'[g] = busy[g] /\ queue'[g] = queue[g]
      BY <1>1, <1>2, <1>3
    <2> QED
      BY <2>1, <2>2, <2>3, <1>1, <1>2 DEF UnmetInv
  <1>14. SeenInv'
    <2>1. u \notin out /\ u \notin crawled
      BY <1>1, <1>6 DEF SeenInv
    <2>2. Queued' \cap (out' \cup crawled') = {} /\ out' \cap crawled' = {}
      BY <1>1, <1>6, <2>1 DEF SeenInv
    <2> QED
      BY <1>1, <1>2, <1>6, <2>2 DEF SeenInv
  <1> QED
    BY <1>5, <1>9, <1>10, <1>11, <1>12, <1>13, <1>14 DEF FrontierInv

\* The rest between two fetches is a number.
LEMMA GapIsNat ==
  ASSUME NEW took \in Nat, NEW d \in Nat
  PROVE  gap(took, d) \in Nat
  <1>1. Factor * took \in Nat
    BY FrontierAssumption
  <1> QED
    BY <1>1, FrontierAssumption DEF gap, Larger, Smaller

\* Done keeps the invariant.
LEMMA DoneKeeps ==
  ASSUME FrontierInv, NEW u \in URLs, NEW took \in Durations, Done(u, took)
  PROVE  FrontierInv'
  <1> DEFINE h == HostOf[u]
  <1>1. h \in Hosts /\ took \in Nat /\ CrawlDelays \subseteq Nat
    BY FrontierAssumption
  <1>2. /\ u \in out /\ out' = out \ {u} /\ crawled' = crawled \cup {u}
        /\ busy' = [busy EXCEPT ![h] = FALSE]
        /\ readyAt' = [readyAt EXCEPT ![h] = now + gap(took, crawlDelay[h])]
        /\ ready' = IF queue[h] # <<>> THEN HeapPush(ready, h, readyAt', priority) ELSE ready
        /\ now' = now /\ seen' = seen /\ known' = known /\ queue' = queue
        /\ crawlDelay' = crawlDelay /\ priority' = priority /\ pending' = pending
    BY DEF Done
  <1>3. /\ readyAt \in [Hosts -> Nat] /\ busy \in [Hosts -> BOOLEAN] /\ now \in Nat
        /\ crawlDelay[h] \in Nat /\ queue \in [Hosts -> Seq(URLs)] /\ ready \in Seq(Hosts)
    <2> HIDE DEF h
    <2>1. crawlDelay[h] \in CrawlDelays \cup {0}
      BY <1>1 DEF FrontierInv, FrontierTypeOK
    <2>2. \A x \in CrawlDelays \cup {0} : x \in Nat
      BY FrontierAssumption
    <2>3. crawlDelay[h] \in Nat
      BY <2>1, <2>2, Zenon
    <2> QED
      BY <2>3 DEF FrontierInv, FrontierTypeOK
  <1> HIDE DEF h
  <1>4. now + gap(took, crawlDelay[h]) \in Nat
    <2>1. gap(took, crawlDelay[h]) \in Nat
      BY <1>1, <1>3, GapIsNat
    <2> QED
      BY <1>3, <2>1
  <1>5. readyAt' \in ReadyTimes /\ \A g \in Hosts : g # h => readyAt'[g] = readyAt[g]
    BY <1>1, <1>2, <1>3, <1>4 DEF ReadyTimes
  <1>6. ~busy'[h] /\ \A g \in Hosts : g # h => busy'[g] = busy[g]
    BY <1>1, <1>2, <1>3
  <1>7. OneFetchPerHost /\ busy[h]
    BY <1>1, <1>2 DEF FrontierInv, OneFetchPerHost, h
  <1>8. HeapInv'
    <2>1. Holds(ready, ReadyHosts) /\ Ordered(ready, readyAt)
      BY DEF FrontierInv, HeapInv
    <2>2. \A c \in 1..Len(ready) : readyAt'[ready[c]] = readyAt[ready[c]]
      BY <1>5, <1>7, HeapIsMet
    <2>3. Ordered(ready, readyAt')
      <3>1. ready \in Seq(Hosts) /\ Ordered(ready, readyAt)
        BY <1>3, <2>1
      <3>2. PICK later : later = readyAt'
        OBVIOUS
      <3>3. \A c \in 1..Len(ready) : later[ready[c]] = readyAt[ready[c]]
        BY <2>2, <3>2
      <3>4. Ordered(ready, later)
        BY <3>1, <3>3, OrderedSame
      <3> QED
        BY <3>2, <3>4
    <2>4. h \notin ReadyHosts
      BY <1>7 DEF ReadyHosts
    <2>5. CASE queue[h] # <<>>
      <3>1. ReadyHosts' = ReadyHosts \cup {h}
        BY <1>1, <1>2, <1>6, <2>5 DEF ReadyHosts
      <3>2. ready' = HeapPush(ready, h, readyAt', priority)
        BY <1>2, <2>5
      <3>3. Holds(ready', ReadyHosts \cup {h}) /\ Ordered(ready', readyAt')
        BY <1>1, <1>5, <2>1, <2>3, <2>4, <3>2, PushKeepsHeap
      <3> QED
        BY <3>1, <3>3 DEF HeapInv
    <2>6. CASE queue[h] = <<>>
      <3>1. ReadyHosts' = ReadyHosts /\ ready' = ready
        BY <1>1, <1>2, <1>6, <2>6 DEF ReadyHosts
      <3>2. Holds(ready', ReadyHosts') /\ Ordered(ready', readyAt')
        BY <2>1, <2>3, <3>1
      <3> QED
        BY <3>2 DEF HeapInv
    <2> QED
      BY <2>5, <2>6
  <1>9. FrontierTypeOK'
    <2>1. ready' \in Seq(Hosts)
      BY <1>8 DEF HeapInv, Holds
    <2>2. busy' \in [Hosts -> BOOLEAN] /\ readyAt' \in [Hosts -> Nat]
      BY <1>1, <1>2, <1>3, <1>5 DEF ReadyTimes
    <2>3. out' \subseteq URLs /\ crawled' \subseteq URLs
      BY <1>2 DEF FrontierInv, FrontierTypeOK
    <2> QED
      BY <2>1, <2>2, <2>3, <1>2 DEF FrontierInv, FrontierTypeOK
  <1>10. OneFetchPerHost'
    <2>1. ASSUME NEW g \in Hosts PROVE busy'[g] <=> \E v \in out' : HostOf[v] = g
      <3>1. CASE g = h
        BY <3>1, <1>2, <1>6, <1>7 DEF OneFetchPerHost, h
      <3>2. CASE g # h
        BY <3>2, <1>2, <1>6, <1>7 DEF OneFetchPerHost, h
      <3> QED
        BY <3>1, <3>2
    <2> QED
      BY <2>1, <1>2, <1>7 DEF OneFetchPerHost
  <1>11. Queued' = Queued /\ Admitted' = Admitted
    <2>1. Queued' = Queued
      BY <1>2 DEF Queued
    <2> QED
      BY <2>1, <1>2 DEF Admitted
  <1>12. QueueInv'
    BY <1>2 DEF FrontierInv, QueueInv
  <1>13. UnmetInv'
    <2>1. UnmetInv
      BY DEF FrontierInv
    <2>2. h \in known
      BY <1>1, <1>7, <2>1 DEF UnmetInv
    <2>3. ASSUME NEW g \in Hosts, g \notin known'
          PROVE  queue'[g] = <<>> /\ ~busy'[g] /\ readyAt'[g] = 0
                 /\ \A v \in crawled' : HostOf[v] # g
      <3>1. g \notin known /\ g # h
        BY <2>2, <2>3, <1>2
      <3>2. queue[g] = <<>> /\ ~busy[g] /\ readyAt[g] = 0 /\ \A v \in crawled : HostOf[v] # g
        BY <3>1, <2>1 DEF UnmetInv
      <3>3. HostOf[u] # g
        BY <3>1 DEF h
      <3> QED
        BY <3>1, <3>2, <3>3, <1>2, <1>5, <1>6
    <2> QED
      BY <2>3 DEF UnmetInv
  <1>14. SeenInv'
    <2>1. SeenInv
      BY DEF FrontierInv
    <2>2. Queued' \cap (out' \cup crawled') = {} /\ out' \cap crawled' = {}
      BY <1>2, <1>11, <2>1 DEF SeenInv
    <2> QED
      BY <1>2, <1>11, <2>1, <2>2 DEF SeenInv
  <1>15. CountInv'
    BY <1>2, <1>11 DEF FrontierInv, CountInv
  <1> QED
    BY <1>8, <1>9, <1>10, <1>12, <1>13, <1>14, <1>15 DEF FrontierInv

\* SetCrawlDelay keeps the invariant: at most it meets a host.
LEMMA DelayKeeps ==
  ASSUME FrontierInv, NEW h \in Hosts, NEW d \in CrawlDelays, SetCrawlDelay(h, d)
  PROVE  FrontierInv'
  <1>1. known' = known \cup {h} /\ readyAt' \in ReadyTimes
        /\ (\A g \in Hosts : (g \in known \/ g # h) => readyAt'[g] = readyAt[g])
        /\ Ordered(ready, readyAt')
    <2>1. Meet(h)
      BY DEF SetCrawlDelay
    <2> QED
      BY <2>1, MeetKeeps
  <1>2. /\ crawlDelay' = [crawlDelay EXCEPT ![h] = d]
        /\ now' = now /\ seen' = seen /\ queue' = queue /\ busy' = busy /\ priority' = priority
        /\ ready' = ready /\ pending' = pending /\ out' = out /\ crawled' = crawled
    BY DEF SetCrawlDelay
  <1>3. ReadyHosts' = ReadyHosts /\ Queued' = Queued
    BY <1>2 DEF ReadyHosts, Queued
  <1>4. Admitted' = Admitted
    BY <1>2, <1>3 DEF Admitted
  <1>5. FrontierTypeOK'
    <2>1. crawlDelay' \in [Hosts -> CrawlDelays \cup {0}] /\ readyAt' \in [Hosts -> Nat] /\ known' \subseteq Hosts
      BY <1>1, <1>2 DEF FrontierInv, FrontierTypeOK, ReadyTimes
    <2> QED
      BY <2>1, <1>2 DEF FrontierInv, FrontierTypeOK
  <1>6. HeapInv'
    BY <1>1, <1>2, <1>3 DEF FrontierInv, HeapInv
  <1>7. OneFetchPerHost' /\ QueueInv'
    BY <1>2 DEF FrontierInv, OneFetchPerHost, QueueInv
  <1>8. UnmetInv'
    BY <1>1, <1>2 DEF FrontierInv, UnmetInv
  <1>9. SeenInv' /\ CountInv'
    BY <1>2, <1>3, <1>4 DEF FrontierInv, SeenInv, CountInv
  <1> QED
    BY <1>5, <1>6, <1>7, <1>8, <1>9 DEF FrontierInv

\* A step that changes at most the time keeps the invariant.
LEMMA TimeKeeps ==
  ASSUME FrontierInv, now' \in Nat,
         UNCHANGED <<seen, known, queue, busy, readyAt, crawlDelay, priority, ready,
                     pending, out, crawled>>
  PROVE  FrontierInv'
  <1>1. ReadyHosts' = ReadyHosts /\ Queued' = Queued
    BY DEF ReadyHosts, Queued
  <1>2. Admitted' = Admitted
    BY <1>1 DEF Admitted
  <1>3. FrontierTypeOK' /\ OneFetchPerHost' /\ QueueInv' /\ UnmetInv'
    BY DEF FrontierInv, FrontierTypeOK, OneFetchPerHost, QueueInv, UnmetInv
  <1>4. HeapInv' /\ SeenInv' /\ CountInv'
    BY <1>1, <1>2 DEF FrontierInv, HeapInv, SeenInv, CountInv
  <1> QED
    BY <1>3, <1>4 DEF FrontierInv

\* A new frontier satisfies the invariant.
LEMMA NewKeeps ==
  ASSUME New
  PROVE  FrontierInv
  <1>1. FrontierTypeOK
    BY DEF New, FrontierTypeOK
  <1>2. OneFetchPerHost
    BY DEF New, OneFetchPerHost
  <1>3. HeapInv
    <2>1. ReadyHosts = {} /\ ready = <<>>
      BY DEF New, ReadyHosts
    <2> QED
      BY <2>1 DEF HeapInv, Holds, Ordered
  <1>4. QueueInv /\ UnmetInv
    BY DEF New, QueueInv, HostQueues, UnmetInv
  <1>5. Queued = {} /\ Admitted = {}
    <2>1. Queued = {}
      BY FrontierAssumption DEF New, Queued
    <2> QED
      BY <2>1 DEF New, Admitted
  <1>6. SeenInv
    BY <1>5 DEF New, SeenInv
  <1>7. CountInv
    BY <1>5, FS_EmptySet DEF New, CountInv
  <1> QED
    BY <1>1, <1>2, <1>3, <1>4, <1>6, <1>7 DEF FrontierInv

\* Every step keeps the invariant.
LEMMA StepKeeps ==
  ASSUME FrontierInv, [FrontierNext]_frontierVars
  PROVE  FrontierInv'
  <1>0. now \in Nat
    BY DEF FrontierInv, FrontierTypeOK
  <1>1. CASE Next
    BY <1>1, NextKeeps
  <1>2. ASSUME NEW u \in URLs, NEW took \in Durations, Done(u, took) PROVE FrontierInv'
    BY <1>2, DoneKeeps
  <1>3. CASE Tick
    <2>1. now' \in Nat
      BY <1>0, <1>3 DEF Tick
    <2>2. UNCHANGED <<seen, known, queue, busy, readyAt, crawlDelay, priority, ready,
                      pending, out, crawled>>
      BY <1>3 DEF Tick
    <2> QED
      BY <2>1, <2>2, TimeKeeps
  <1>4. ASSUME NEW u \in URLs, Add(u) PROVE FrontierInv'
    BY <1>4, AddKeeps
  <1>5. ASSUME NEW h \in Hosts, NEW d \in CrawlDelays, SetCrawlDelay(h, d) PROVE FrontierInv'
    BY <1>5, DelayKeeps
  <1>6. CASE UNCHANGED frontierVars
    <2>1. now' \in Nat
      BY <1>0, <1>6 DEF frontierVars
    <2>2. UNCHANGED <<seen, known, queue, busy, readyAt, crawlDelay, priority, ready,
                      pending, out, crawled>>
      BY <1>6 DEF frontierVars
    <2> QED
      BY <2>1, <2>2, TimeKeeps
  <1> QED
    BY <1>1, <1>2, <1>3, <1>4, <1>5, <1>6 DEF FrontierNext, Work

\* The frontier's invariant: the heap, the back queues, the SeenSet and the counter
\* agree after every call of Add, SetCrawlDelay, Next and Done, in any order.
THEOREM FrontierCorrect == Spec => []FrontierInv
  <1>1. New => FrontierInv
    BY NewKeeps
  <1>2. FrontierInv /\ [FrontierNext]_frontierVars => FrontierInv'
    BY StepKeeps
  <1> QED
    BY <1>1, <1>2, PTL DEF Spec

\* The frontier's state keeps its type.
THEOREM FrontierTypeCorrect == Spec => []FrontierTypeOK
  <1>1. FrontierInv => FrontierTypeOK
    BY DEF FrontierInv
  <1> QED
    BY <1>1, FrontierCorrect, PTL

\* The heap holds exactly the hosts that may be fetched, each once, and its root is
\* ready first: when Next returns nothing, there was nothing to return.
THEOREM HeapIsRight == Spec => []HeapIsReadySet
  <1>1. FrontierInv => HeapIsReadySet
    <2> SUFFICES ASSUME FrontierInv PROVE HeapIsReadySet
      OBVIOUS
    <2>1. OneFetchPerHost /\ Holds(ready, ReadyHosts) /\ Ordered(ready, readyAt)
          /\ ready \in Seq(Hosts) /\ readyAt \in ReadyTimes
      BY DEF FrontierInv, FrontierTypeOK, HeapInv, ReadyTimes
    <2>2. ASSUME NEW h \in Hosts
          PROVE  queue[h] # <<>> /\ ~busy[h] <=> \E i \in 1..Len(ready) : ready[i] = h
      <3>1. h \in ReadyHosts <=> queue[h] # <<>> /\ ~busy[h]
        BY DEF ReadyHosts
      <3>2. h \in ReadyHosts <=> \E i \in 1..Len(ready) : ready[i] = h
        BY <2>1 DEF Holds
      <3> QED
        BY <3>1, <3>2
    <2>3. \A i, j \in 1..Len(ready) : ready[i] = ready[j] => i = j
      BY <2>1 DEF Holds
    <2>4. \A i \in 1..Len(ready) : readyAt[ready[1]] <= readyAt[ready[i]]
      BY <2>1, RootIsLeast
    <2> QED
      BY <2>1, <2>2, <2>3, <2>4 DEF HeapIsReadySet
  <1> QED
    BY <1>1, FrontierCorrect, PTL

\* No URL admitted is lost, doubled or counted wrongly.
THEOREM UrlsAreAccounted == Spec => []UrlsAccounted
  <1>1. FrontierInv => UrlsAccounted
    BY DEF FrontierInv, SeenInv, CountInv, UrlsAccounted, Admitted
  <1> QED
    BY <1>1, FrontierCorrect, PTL

-----------------------------------------------------------------------------
(***************************************************************************)
(* Each step of the frontier is a step of Politeness.                      *)
(***************************************************************************)

\* Politeness sees the busy hosts and the candidates the frontier has.
LEMMA SameCandidates ==
  ASSUME FrontierInv
  PROVE  /\ \A h \in Hosts : h \in Abstract!BusyHosts <=> busy[h]
         /\ Abstract!Candidates = ReadyHosts
         /\ Abstract!Known = Admitted
  <1>1. \A h \in Hosts : h \in Abstract!BusyHosts <=> busy[h]
    BY DEF FrontierInv, OneFetchPerHost, Abstract!BusyHosts
  <1>2. Abstract!Candidates = ReadyHosts
    BY <1>1 DEF Abstract!Candidates, ReadyHosts
  <1>3. Abstract!Known = Admitted
    BY DEF Abstract!Known, Admitted, Queued
  <1> QED
    BY <1>1, <1>2, <1>3

\* hostLocked on a new host is FirstSeen.
LEMMA MeetIsFirstSeen ==
  ASSUME FrontierInv, NEW h \in Hosts, h \notin known, Meet(h), UNCHANGED <<now, out, crawled>>
  PROVE  Abstract!FirstSeen(h)
  <1>1. ~busy[h] /\ readyAt[h] = 0 /\ \A u \in crawled : HostOf[u] # h
    BY DEF FrontierInv, UnmetInv
  <1>2. readyAt' = [readyAt EXCEPT ![h] = now]
    BY DEF Meet
  <1>3. h \notin Abstract!BusyHosts
    BY <1>1, SameCandidates
  <1> QED
    BY <1>1, <1>2, <1>3 DEF Abstract!FirstSeen

\* Every step of the frontier is one Politeness allows.
LEMMA StepIsPolite ==
  ASSUME FrontierInv, [FrontierNext]_frontierVars
  PROVE  [Abstract!PromiseNext]_(Abstract!promiseVars)
  <1>1. CASE Next
    <2> DEFINE h == ready[1]
    <2>1. h \in Hosts /\ 1 \in 1..Len(ready) /\ queue[h] # <<>> /\ ~busy[h]
      BY <1>1, NextMoves
    <2>2. readyAt[h] <= now /\ queue' = [queue EXCEPT ![h] = Tail(@)]
          /\ out' = out \cup {Head(queue[h])} /\ UNCHANGED <<now, crawled, readyAt>>
      BY <1>1 DEF Next
    <2>3. h \in Abstract!Candidates
      BY <2>1, SameCandidates DEF ReadyHosts
    <2>4. ASSUME NEW g \in Abstract!Candidates PROVE readyAt[h] <= readyAt[g]
      <3>1. Holds(ready, ReadyHosts) /\ Ordered(ready, readyAt) /\ ready \in Seq(Hosts)
            /\ readyAt \in ReadyTimes
        BY DEF FrontierInv, FrontierTypeOK, HeapInv, ReadyTimes
      <3>2. PICK i \in 1..Len(ready) : ready[i] = g
        BY <3>1, SameCandidates DEF Holds
      <3> QED
        BY <3>1, <3>2, RootIsLeast
    <2> HIDE DEF h
    <2>5. Abstract!HandOut(h)
      BY <2>2, <2>3, <2>4 DEF Abstract!HandOut
    <2> QED
      BY <2>1, <2>5 DEF Abstract!PromiseNext
  <1>2. ASSUME NEW u \in URLs, NEW took \in Durations, Done(u, took)
        PROVE  Abstract!PromiseNext
    <2>1. u \in out /\ out' = out \ {u} /\ crawled' = crawled \cup {u} /\ UNCHANGED <<now, queue>>
          /\ readyAt' = [readyAt EXCEPT ![HostOf[u]] = now + gap(took, crawlDelay[HostOf[u]])]
      BY <1>2 DEF Done
    <2>2. crawlDelay[HostOf[u]] \in CrawlDelays \cup {0}
      BY FrontierAssumption DEF FrontierInv, FrontierTypeOK
    <2>3. gap(took, crawlDelay[HostOf[u]]) \in Rests
      BY <2>2 DEF Rests
    <2>4. \E rest \in Rests : readyAt' = [readyAt EXCEPT ![HostOf[u]] = now + rest]
      BY <2>1, <2>3
    <2>5. Abstract!Finish(u)
      BY <2>1, <2>4 DEF Abstract!Finish
    <2> QED
      BY <2>5 DEF Abstract!PromiseNext
  <1>3. CASE Tick
    <2>1. Abstract!Tick
      BY <1>3 DEF Tick, Abstract!Tick
    <2> QED
      BY <2>1 DEF Abstract!PromiseNext
  <1>4. ASSUME NEW u \in URLs, Add(u) PROVE Abstract!PromiseNext
    <2>1. u \notin Abstract!Known
      BY <1>4, AddMoves, SameCandidates
    <2>2. HostOf[u] \in Hosts
      BY FrontierAssumption
    <2>3. Meet(HostOf[u]) /\ queue' = [queue EXCEPT ![HostOf[u]] = Append(@, u)]
          /\ UNCHANGED <<now, out, crawled>>
      BY <1>4 DEF Add, assignLocked
    <2>4. CASE HostOf[u] \in known
      <3>1. readyAt' = readyAt
        BY <2>3, <2>4 DEF Meet
      <3>2. Abstract!Enqueue(u)
        BY <2>1, <2>3, <3>1 DEF Abstract!Enqueue
      <3> QED
        BY <3>2 DEF Abstract!PromiseNext
    <2>5. CASE HostOf[u] \notin known
      <3>1. Abstract!FirstSeen(HostOf[u])
        BY <2>2, <2>3, <2>5, MeetIsFirstSeen
      <3>2. Abstract!EnqueueFirst(u)
        BY <2>1, <2>3, <3>1 DEF Abstract!EnqueueFirst
      <3> QED
        BY <3>2 DEF Abstract!PromiseNext
    <2> QED
      BY <2>4, <2>5
  <1>5. ASSUME NEW h \in Hosts, NEW d \in CrawlDelays, SetCrawlDelay(h, d)
        PROVE  [Abstract!PromiseNext]_(Abstract!promiseVars)
    <2>1. Meet(h) /\ UNCHANGED <<now, queue, out, crawled>>
      BY <1>5 DEF SetCrawlDelay
    <2>2. CASE h \in known
      <3>1. readyAt' = readyAt
        BY <2>1, <2>2 DEF Meet
      <3> QED
        BY <2>1, <3>1 DEF Abstract!promiseVars
    <2>3. CASE h \notin known
      <3>1. Abstract!FirstSeen(h) /\ UNCHANGED queue
        BY <2>1, <2>3, MeetIsFirstSeen
      <3> QED
        BY <3>1 DEF Abstract!PromiseNext
    <2> QED
      BY <2>2, <2>3
  <1>6. CASE UNCHANGED frontierVars
    BY <1>6 DEF frontierVars, Abstract!promiseVars
  <1> QED
    BY <1>1, <1>2, <1>3, <1>4, <1>5, <1>6 DEF FrontierNext, Work

\* The frontier implements Politeness: one fetch per host at a time, URLs of a host in
\* order, the rest between two fetches kept, and the host ready longest first.
THEOREM FrontierIsPolite == Spec => IsPolite
  <1>1. New => Abstract!PromiseInit
    BY DEF New, Abstract!PromiseInit
  <1>2. FrontierInv /\ [FrontierNext]_frontierVars => [Abstract!PromiseNext]_(Abstract!promiseVars)
    BY StepIsPolite
  <1> QED
    BY <1>1, <1>2, FrontierCorrect, PTL DEF Spec, IsPolite, Abstract!Promise
=============================================================================
