----------------------------- MODULE QueryProofs -----------------------------
(***************************************************************************)
(* Proofs about Hedge and Search.  First the merge: an invariant of its    *)
(* loop says that the page so far holds the candidates consumed so far,    *)
(* each as often as it was met, in order, and that no head is better than  *)
(* the last of them.  Then the hedged call: what its counters count.  Then *)
(* the query: when the floor is applied every slot says what its child     *)
(* answered, and that does not change any more.                            *)
(***************************************************************************)
EXTENDS Search, IterationProofs, FiniteSetTheorems

Results == DOMAIN Score

-----------------------------------------------------------------------------
(***************************************************************************)
(* The merge.                                                              *)
(***************************************************************************)

\* What MergeTopK is given: ranked lists, one for each of some shards.
RankedLists(lists) ==
  /\ IsFiniteSet(DOMAIN lists)
  /\ lists \in [DOMAIN lists -> Seq(Results)]
  /\ \A s \in DOMAIN lists : \A q \in 1..Len(lists[s]) : \A p \in 1..(q - 1) :
       ~Better(lists[s][q], lists[s][p])

Entries(D, lists) == {c \in D \X Nat : 1 <= c[2] /\ c[2] <= Len(lists[c[1]])}
Consumed(D, m) == {c \in D \X Nat : 1 <= c[2] /\ c[2] < m.pos[c[1]]}

\* What the two sets of entries contain.
LEMMA InConsumed ==
  ASSUME NEW D, NEW m
  PROVE  /\ Consumed(D, m) \subseteq D \X Nat
         /\ \A a \in D \X Nat : a \in Consumed(D, m) <=> 1 <= a[2] /\ a[2] < m.pos[a[1]]
  BY DEF Consumed

\* The order of results is total, so that being not better is transitive.
LEMMA BetterOrder ==
  /\ \A x \in Results : ~Better(x, x)
  /\ \A x, y \in Results : Better(x, y) => ~Better(y, x)
  /\ \A x, y, z \in Results : ~Better(x, y) /\ ~Better(y, z) => ~Better(x, z)
  BY RankedAssumption DEF Better, Results

\* Of finitely many results of live lists one is best.
LEMMA BestExists ==
  ASSUME NEW live, IsFiniteSet(live), live # {}, NEW head \in [live -> Results]
  PROVE  \E s \in live : \A t \in live : ~Better(head[t], head[s])
  <1> DEFINE ahead(s) == {t \in live : Better(head[t], head[s])}
             T == {Cardinality(ahead(s)) : s \in live}
  <1>1. ASSUME NEW s \in live PROVE IsFiniteSet(ahead(s)) /\ Cardinality(ahead(s)) \in Nat
    <2>1. ahead(s) \in SUBSET live
      OBVIOUS
    <2> QED
      BY <2>1, FS_Subset, FS_CardinalityType
  <1>2. T \in SUBSET Nat /\ T # {}
    BY <1>1
  <1>3. PICK n \in T : \A m \in T : n <= m
    <2> HIDE DEF T
    <2> QED
      BY <1>2, LeastNumber
  <1>4. PICK s \in live : n = Cardinality(ahead(s))
    OBVIOUS
  <1>5. ASSUME NEW t \in live, Better(head[t], head[s]) PROVE FALSE
    <2>1. ahead(t) \in SUBSET ahead(s)
      <3> SUFFICES ASSUME NEW u \in live, Better(head[u], head[t]) PROVE Better(head[u], head[s])
        OBVIOUS
      <3> QED
        BY <1>5, BetterOrder
    <2>2. t \in ahead(s) /\ t \notin ahead(t)
      BY <1>5, BetterOrder
    <2>3. Cardinality(ahead(t)) <= Cardinality(ahead(s))
          /\ Cardinality(ahead(t)) # Cardinality(ahead(s))
      <3> HIDE DEF ahead
      <3> QED
        BY <1>1, <2>1, <2>2, FS_Subset
    <2>4. Cardinality(ahead(t)) \in T
      OBVIOUS
    <2>5. Cardinality(ahead(t)) \in Nat /\ Cardinality(ahead(s)) \in Nat
      BY <1>1
    <2> HIDE DEF T, ahead
    <2> QED
      BY <1>3, <1>4, <2>3, <2>4, <2>5
  <1> QED
    BY <1>5

\* The root of the heap is a live list with a best head.
LEMMA PopBestIsBest ==
  ASSUME NEW lists, RankedLists(lists), NEW m \in Merging(lists),
         \A s \in DOMAIN lists : m.pos[s] >= 1,
         Live(lists, m) # {}
  PROVE  /\ PopBest(lists, m) \in Live(lists, m)
         /\ \A t \in Live(lists, m) :
              ~Better(HeadOf(lists, m, t), HeadOf(lists, m, PopBest(lists, m)))
  <1> DEFINE live == Live(lists, m)
             head == [s \in live |-> HeadOf(lists, m, s)]
  <1>1. IsFiniteSet(live)
    <2>1. live \in SUBSET DOMAIN lists
      BY DEF Live
    <2> QED
      BY <2>1, FS_Subset DEF RankedLists
  <1>2. head \in [live -> Results]
    <2> SUFFICES ASSUME NEW s \in live PROVE lists[s][m.pos[s]] \in Results
      BY DEF HeadOf
    <2>1. lists[s] \in Seq(Results) /\ m.pos[s] \in 1..Len(lists[s])
      BY DEF Live, RankedLists, Merging
    <2> QED
      BY <2>1
  <1>3. \E s \in live : \A t \in live : ~Better(head[t], head[s])
    <2> HIDE DEF live, head
    <2> QED
      BY <1>1, <1>2, BestExists DEF live
  <1>4. \E s \in live : \A t \in live : ~Better(HeadOf(lists, m, t), HeadOf(lists, m, s))
    BY <1>3
  <1> QED
    BY <1>4 DEF PopBest

\* What holds after n rounds of the merge.
MergeInv(lists, n) ==
  {m \in Merging(lists) :
     /\ \A s \in DOMAIN lists : m.pos[s] \in 1..(Len(lists[s]) + 1)
     /\ IsFiniteSet(Consumed(DOMAIN lists, m))
     /\ Len(m.out) = Cardinality(Consumed(DOMAIN lists, m))
     /\ Len(m.out) <= n
     /\ Len(m.out) = n \/ Live(lists, m) = {}
     /\ \A x \in Results :
          Cardinality({p \in 1..Len(m.out) : m.out[p] = x})
            = Cardinality({c \in Consumed(DOMAIN lists, m) : lists[c[1]][c[2]] = x})
     /\ \A p \in 1..(Len(m.out) - 1) : ~Better(m.out[p + 1], m.out[p])
     /\ Len(m.out) > 0 =>
          \A s \in Live(lists, m) : ~Better(HeadOf(lists, m, s), m.out[Len(m.out)])}

Where(T, f, x) == {c \in T : f[c] = x}

\* One more element is counted where it belongs, and nowhere else.
LEMMA CountGrows ==
  ASSUME NEW T, IsFiniteSet(T), NEW e, e \notin T, NEW f, NEW x
  PROVE  /\ f[e] = x => Cardinality(Where(T \cup {e}, f, x)) = Cardinality(Where(T, f, x)) + 1
         /\ f[e] # x => Cardinality(Where(T \cup {e}, f, x)) = Cardinality(Where(T, f, x))
  <1> DEFINE A == Where(T, f, x)
             B == Where(T \cup {e}, f, x)
  <1>1. A \in SUBSET T
    BY DEF Where
  <1>2. IsFiniteSet(A) /\ Cardinality(A) \in Nat
    BY <1>1, FS_Subset, FS_CardinalityType
  <1>3. B = IF f[e] = x THEN A \cup {e} ELSE A
    BY DEF Where
  <1>4. e \notin A
    BY DEF Where
  <1> HIDE DEF A, B
  <1>5. Cardinality(A \cup {e}) = Cardinality(A) + 1
    BY <1>2, <1>4, FS_AddElement
  <1> QED
    BY <1>2, <1>3, <1>5 DEF A, B

\* A round of the merge keeps its invariant.
LEMMA MergeRoundKeeps ==
  ASSUME NEW lists, RankedLists(lists), NEW n \in Nat, NEW m \in MergeInv(lists, n)
  PROVE  MergeRound(lists)[m] \in MergeInv(lists, n + 1)
  <1>0. PICK D : D = DOMAIN lists
    OBVIOUS
  <1>1. m \in Merging(lists)
    BY <1>0 DEF MergeInv
  <1>2. CASE Live(lists, m) = {}
    <2>1. MergeRound(lists)[m] = m
      BY <1>1, <1>2 DEF MergeRound
    <2>2. Len(m.out) \in Nat
      BY <1>1 DEF Merging, Results
    <2>3. Len(m.out) <= n
      BY Zenon DEF MergeInv
    <2>4. Len(m.out) <= n + 1
      BY <2>2, <2>3
    <2>5. m \in MergeInv(lists, n + 1)
      BY <1>2, <2>4, Zenon DEF MergeInv
    <2> QED
      BY <2>1, <2>5, Zenon
  <1>3. CASE Live(lists, m) # {}
    <2> DEFINE top == PopBest(lists, m)
               x0 == HeadOf(lists, m, top)
               pos2 == [m.pos EXCEPT ![top] = @ + 1]
               out2 == Append(m.out, x0)
               m2 == [pos |-> pos2, out |-> out2]
               e == <<top, m.pos[top]>>
    <2>1. MergeRound(lists)[m] = m2
      BY <1>1, <1>3, Zenon DEF MergeRound
    <2>2. /\ m.pos \in [D -> Nat] /\ m.out \in Seq(Results)
          /\ \A s \in D : m.pos[s] \in 1..(Len(lists[s]) + 1) /\ lists[s] \in Seq(Results)
      BY <1>0, <1>1 DEF Merging, MergeInv, RankedLists, Results
    <2>3. top \in Live(lists, m) /\ \A t \in Live(lists, m) : ~Better(HeadOf(lists, m, t), x0)
      <3>1. \A s \in D : m.pos[s] >= 1
        BY <2>2
      <3> QED
        BY <1>0, <1>1, <1>3, <3>1, PopBestIsBest
    <2>4. top \in D /\ m.pos[top] \in 1..Len(lists[top])
      BY <1>0, <2>2, <2>3 DEF Live
    <2>5. x0 = lists[top][m.pos[top]] /\ x0 \in Results
      BY <2>2, <2>4 DEF HeadOf
    <2> HIDE DEF top, x0
    <2>6. pos2 \in [D -> Nat] /\ out2 \in Seq(Results)
      BY <2>2, <2>4, <2>5
    <2>7. m2 \in Merging(lists) /\ m2.pos = pos2 /\ m2.out = out2
      BY <1>0, <2>6 DEF Merging, Results
    <2>8. \A s \in D : pos2[s] = IF s = top THEN m.pos[s] + 1 ELSE m.pos[s]
      BY <2>2, <2>4
    <2>9. Len(out2) = Len(m.out) + 1 /\ Len(m.out) \in Nat
          /\ \A p \in 1..Len(out2) : out2[p] = IF p <= Len(m.out) THEN m.out[p] ELSE x0
      BY <2>2, <2>5
    <2> HIDE DEF pos2, out2, m2
    <2>10. Consumed(D, m2) = Consumed(D, m) \cup {e} /\ e \notin Consumed(D, m)
      <3>1. e \in D \X Nat /\ e[1] = top /\ e[2] = m.pos[top]
        BY <2>2, <2>4
      <3>2. e \notin Consumed(D, m)
        BY <1>0, <3>1, <2>2, <2>4, InConsumed
      <3>3. ASSUME NEW c \in D \X Nat
            PROVE  c \in Consumed(D, m2) <=> c \in Consumed(D, m) \/ c = e
        <4>1. c[1] \in D /\ c[2] \in Nat /\ c = <<c[1], c[2]>>
          BY <3>3
        <4>2. c \in Consumed(D, m2) <=> 1 <= c[2] /\ c[2] < pos2[c[1]]
          BY <1>0, <2>7, InConsumed
        <4>3. c \in Consumed(D, m) <=> 1 <= c[2] /\ c[2] < m.pos[c[1]]
          BY <1>0, InConsumed
        <4>4. c = e <=> c[1] = top /\ c[2] = m.pos[top]
          BY <4>1, <3>1
        <4>5. CASE c[1] = top
          BY <4>1, <4>2, <4>3, <4>4, <4>5, <2>2, <2>4, <2>8
        <4>6. CASE c[1] # top
          BY <4>1, <4>2, <4>3, <4>4, <4>6, <2>2, <2>4, <2>8
        <4> QED
          BY <4>5, <4>6
      <3>4. Consumed(D, m2) \subseteq D \X Nat /\ Consumed(D, m) \subseteq D \X Nat
        BY <1>0, InConsumed
      <3> QED
        BY <3>1, <3>2, <3>3, <3>4
    <2>11. IsFiniteSet(Consumed(D, m2))
           /\ Cardinality(Consumed(D, m2)) = Cardinality(Consumed(D, m)) + 1
      <3>1. IsFiniteSet(Consumed(D, m))
        BY <1>0 DEF MergeInv
      <3> QED
        BY <3>1, <2>10, FS_AddElement
    <2>12. ASSUME NEW x \in Results
           PROVE  Cardinality({p \in 1..Len(out2) : out2[p] = x})
                   = Cardinality({c \in Consumed(D, m2) : lists[c[1]][c[2]] = x})
      <3> DEFINE f == [c \in Consumed(D, m2) |-> lists[c[1]][c[2]]]
                 k == Len(m.out)
      <3>1. Cardinality({p \in 1..k : m.out[p] = x})
              = Cardinality({c \in Consumed(D, m) : lists[c[1]][c[2]] = x})
        BY <1>0 DEF MergeInv
      <3>2. {c \in Consumed(D, m) : lists[c[1]][c[2]] = x}
               = {c \in Consumed(D, m) : f[c] = x}
        BY <2>10
      <3>3. {c \in Consumed(D, m2) : lists[c[1]][c[2]] = x}
               = {c \in Consumed(D, m) \cup {e} : f[c] = x}
        BY <2>10
      <3>4. f[e] = x0
        BY <2>5, <2>10
      <3>5. {p \in 1..k : m.out[p] = x} = {p \in 1..k : out2[p] = x}
        BY <2>9
      <3>6. 1..Len(out2) = 1..k \cup {k + 1} /\ k + 1 \notin 1..k /\ out2[k + 1] = x0
        BY <2>9
      <3>7. IsFiniteSet(Consumed(D, m))
        BY <1>0 DEF MergeInv
      <3> HIDE DEF f, k
      <3>8. /\ f[e] = x => Cardinality(Where(Consumed(D, m) \cup {e}, f, x))
                            = Cardinality(Where(Consumed(D, m), f, x)) + 1
            /\ f[e] # x => Cardinality(Where(Consumed(D, m) \cup {e}, f, x))
                            = Cardinality(Where(Consumed(D, m), f, x))
        <4> HIDE DEF e
        <4> QED
          BY <3>7, <2>10, CountGrows
      <3>9. /\ out2[k + 1] = x => Cardinality(Where(1..k \cup {k + 1}, out2, x))
                                   = Cardinality(Where(1..k, out2, x)) + 1
            /\ out2[k + 1] # x => Cardinality(Where(1..k \cup {k + 1}, out2, x))
                                   = Cardinality(Where(1..k, out2, x))
        <4> DEFINE T == 1..k
                   q == k + 1
        <4>1. IsFiniteSet(T) /\ q \notin T
          BY <2>9, <3>6, FS_Interval DEF k
        <4> HIDE DEF T, q
        <4>2. /\ out2[q] = x => Cardinality(Where(T \cup {q}, out2, x)) = Cardinality(Where(T, out2, x)) + 1
              /\ out2[q] # x => Cardinality(Where(T \cup {q}, out2, x)) = Cardinality(Where(T, out2, x))
          BY <4>1, CountGrows
        <4> QED
          BY <4>2 DEF T, q
      <3> QED
        BY <3>1, <3>2, <3>3, <3>4, <3>5, <3>6, <3>8, <3>9 DEF Where
    <2>13. ASSUME NEW p \in 1..(Len(out2) - 1) PROVE ~Better(out2[p + 1], out2[p])
      <3>1. CASE p < Len(m.out)
        BY <2>9, <3>1 DEF MergeInv
      <3>2. CASE p = Len(m.out)
        <4>1. Len(m.out) > 0 /\ out2[p + 1] = x0 /\ out2[p] = m.out[Len(m.out)]
          BY <2>9, <3>2
        <4>2. ~Better(HeadOf(lists, m, top), m.out[Len(m.out)])
          BY <4>1, <2>3 DEF MergeInv
        <4> QED
          BY <4>1, <4>2 DEF x0
      <3> QED
        BY <2>9, <3>1, <3>2
    <2>14. ASSUME NEW s \in Live(lists, m2) PROVE ~Better(HeadOf(lists, m2, s), out2[Len(out2)])
      <3>1. out2[Len(out2)] = x0
        BY <2>9
      <3>2. s \in D /\ pos2[s] <= Len(lists[s]) /\ HeadOf(lists, m2, s) = lists[s][pos2[s]]
        BY <1>0, <2>7 DEF Live, HeadOf
      <3>3. CASE s = top
        <4>1. pos2[s] \in 1..Len(lists[s]) /\ m.pos[s] \in 1..(pos2[s] - 1)
          BY <2>2, <2>4, <2>8, <3>2, <3>3
        <4>2. ~Better(lists[s][pos2[s]], lists[s][m.pos[s]])
          BY <1>0, <4>1, <3>2 DEF RankedLists
        <4> QED
          BY <4>2, <3>1, <3>2, <3>3, <2>5
      <3>4. CASE s # top
        <4>1. pos2[s] = m.pos[s] /\ s \in Live(lists, m)
          BY <1>0, <2>8, <3>2, <3>4 DEF Live
        <4>2. HeadOf(lists, m2, s) = HeadOf(lists, m, s)
          BY <4>1, <3>2 DEF HeadOf
        <4> QED
          BY <4>1, <4>2, <3>1, <2>3
      <3> QED
        BY <3>3, <3>4
    <2>15. \A s \in D : pos2[s] \in 1..(Len(lists[s]) + 1)
      BY <2>2, <2>4, <2>8
    <2>16. Len(m.out) = Cardinality(Consumed(D, m)) /\ Len(m.out) = n
      BY <1>0, <1>3 DEF MergeInv
    <2>17. Len(out2) = Cardinality(Consumed(D, m2)) /\ Len(out2) = n + 1 /\ n + 1 <= n + 1
      BY <2>9, <2>11, <2>16
    <2>18. m2 \in MergeInv(lists, n + 1)
      BY <1>0, <2>7, <2>11, <2>12, <2>13, <2>14, <2>15, <2>17, Zenon DEF MergeInv
    <2> QED
      BY <2>1, <2>18
  <1> QED
    BY <1>2, <1>3

\* The invariant holds of what the loop of MergeTopK ends with.
LEMMA MergeLoop ==
  ASSUME NEW lists, RankedLists(lists), NEW k \in Nat, k > 0
  PROVE  \E m \in MergeInv(lists, k) : MergeTopK(lists, k) = m.out
  <1> DEFINE g == MergeRound(lists)
             start == [pos |-> [s \in DOMAIN lists |-> 1], out |-> <<>>]
             I == [n \in Nat |-> MergeInv(lists, n)]
  <1>1. start \in Merging(lists)
    BY DEF Merging
  <1>2. start \in MergeInv(lists, 0)
    <2>1. Consumed(DOMAIN lists, start) = {}
      <3> SUFFICES ASSUME NEW c \in Consumed(DOMAIN lists, start) PROVE FALSE
        OBVIOUS
      <3>1. c[1] \in DOMAIN lists /\ c[2] \in Nat /\ 1 <= c[2] /\ c[2] < start.pos[c[1]]
        <4> HIDE DEF start
        <4>1. PICK D : D = DOMAIN lists
          OBVIOUS
        <4>2. c \in D \X Nat /\ 1 <= c[2] /\ c[2] < start.pos[c[1]]
          BY <4>1, InConsumed
        <4> QED
          BY <4>1, <4>2
      <3>2. start.pos[c[1]] = 1
        BY <3>1
      <3> QED
        BY <3>1, <3>2
    <2>2. \A s \in DOMAIN lists : start.pos[s] \in 1..(Len(lists[s]) + 1)
      <3> SUFFICES ASSUME NEW s \in DOMAIN lists PROVE 1 \in 1..(Len(lists[s]) + 1)
        OBVIOUS
      <3>1. lists[s] \in Seq(Results)
        BY DEF RankedLists
      <3> QED
        BY <3>1
    <2>3. start.out = <<>> /\ Len(start.out) = 0
      OBVIOUS
    <2>4. ASSUME NEW x PROVE /\ {p \in 1..Len(start.out) : start.out[p] = x} = {}
                             /\ {c \in Consumed(DOMAIN lists, start) : lists[c[1]][c[2]] = x} = {}
      BY <2>1, <2>3
    <2>5. Cardinality({}) = 0 /\ IsFiniteSet({}) /\ 0 <= 0 /\ ~(0 > 0)
      BY FS_EmptySet
    <2>6. ASSUME NEW p \in 1..(Len(start.out) - 1) PROVE FALSE
      BY <2>3, <2>6
    <2> HIDE DEF start
    <2> QED
      BY <1>1, <2>1, <2>2, <2>3, <2>4, <2>5, <2>6, Zenon DEF MergeInv
  <1>3. \A n \in Nat : \A m \in MergeInv(lists, n) : g[m] \in MergeInv(lists, n + 1)
    BY MergeRoundKeeps
  <1>4. Iterate(g, start, k) \in I[k]
    <2>1. start \in I[0] /\ \A n \in Nat : n < k => \A s \in I[n] : g[s] \in I[n + 1]
      BY <1>2, <1>3
    <2> HIDE DEF g, start, I
    <2> QED
      BY <2>1, LoopInvariant
  <1> QED
    BY <1>4 DEF MergeTopK

\* The lists have finitely many entries.
LEMMA EntriesFinite ==
  ASSUME NEW D, IsFiniteSet(D), NEW lists, \A s \in D : lists[s] \in Seq(Results)
  PROVE  IsFiniteSet(Entries(D, lists))
  <1> DEFINE f == [s \in D |-> {s} \X (1..Len(lists[s]))]
             S == {f[s] : s \in D}
  <1>1. ASSUME NEW T \in S PROVE IsFiniteSet(T)
    <2>1. PICK s \in D : T = {s} \X (1..Len(lists[s]))
      OBVIOUS
    <2>2. IsFiniteSet({s}) /\ IsFiniteSet(1..Len(lists[s]))
      <3>1. Len(lists[s]) \in Int /\ 1 \in Int
        OBVIOUS
      <3> QED
        BY <3>1, FS_Singleton, FS_Interval
    <2> QED
      BY <2>1, <2>2, FS_Product
  <1>2. f \in Surjection(D, S)
    BY DEF Surjection
  <1>3. IsFiniteSet(S)
    <2> HIDE DEF f, S
    <2> QED
      BY <1>2, FS_Surjection
  <1>4. IsFiniteSet(UNION S)
    <2> HIDE DEF S
    <2> QED
      BY <1>1, <1>3, FS_UNION
  <1>5. Entries(D, lists) \in SUBSET (UNION S)
    <2> SUFFICES ASSUME NEW c \in Entries(D, lists) PROVE c \in UNION S
      OBVIOUS
    <2>1. c \in D \X Nat /\ 1 <= c[2] /\ c[2] <= Len(lists[c[1]])
      BY DEF Entries
    <2>2. c[1] \in D /\ c[2] \in Nat /\ c = <<c[1], c[2]>>
      BY <2>1
    <2>3. c \in f[c[1]]
      BY <2>1, <2>2
    <2> QED
      BY <2>2, <2>3
  <1> QED
    <2> HIDE DEF S
    <2> QED
      BY <1>4, <1>5, FS_Subset

\* MergeTopK returns the k best entries of its lists, in order, each as often as it
\* is among them: it has as many as there are, up to k, and an entry that it has not,
\* or has fewer times, is not better than the last one (merge.go, MergeTopK).
THEOREM MergeIsTopK ==
  ASSUME NEW lists, RankedLists(lists), NEW k \in Int,
         NEW D, D = DOMAIN lists, NEW val, val = [c \in Entries(D, lists) |-> lists[c[1]][c[2]]],
         NEW out, out = MergeTopK(lists, k)
  PROVE  /\ out \in Seq(Results)
         /\ Len(out) = IF k <= 0 THEN 0
                       ELSE IF Cardinality(Entries(D, lists)) < k
                            THEN Cardinality(Entries(D, lists)) ELSE k
         /\ \A p \in 1..(Len(out) - 1) : ~Better(out[p + 1], out[p])
         /\ \A x \in Results :
              LET here  == Cardinality(Where(1..Len(out), out, x))
                  there == Cardinality(Where(Entries(D, lists), val, x))
              IN  \/ here = there
                  \/ here < there /\ (k > 0 => ~Better(x, out[Len(out)]))
  <1> DEFINE All == Entries(D, lists)
  <1>1. IsFiniteSet(All) /\ Cardinality(All) \in Nat
    BY EntriesFinite, FS_CardinalityType DEF RankedLists
  <1>2. ASSUME NEW x, NEW T \in SUBSET All
        PROVE  /\ IsFiniteSet(Where(T, val, x)) /\ IsFiniteSet(Where(All, val, x))
               /\ Cardinality(Where(T, val, x)) \in Nat /\ Cardinality(Where(All, val, x)) \in Nat
               /\ Cardinality(Where(T, val, x)) <= Cardinality(Where(All, val, x))
               /\ Cardinality(Where(T, val, x)) = Cardinality(Where(All, val, x))
                    => Where(T, val, x) = Where(All, val, x)
    <2>1. Where(All, val, x) \in SUBSET All /\ Where(T, val, x) \in SUBSET Where(All, val, x)
      BY DEF Where
    <2> HIDE DEF All
    <2> QED
      BY <1>1, <2>1, FS_Subset, FS_CardinalityType
  <1>3. CASE k <= 0
    <2>1. out = <<>> /\ Len(out) = 0 /\ out \in Seq(Results)
      BY <1>3 DEF MergeTopK
    <2>2. ASSUME NEW x \in Results
          PROVE  /\ Cardinality(Where(1..Len(out), out, x)) = 0
                 /\ Cardinality(Where(All, val, x)) \in Nat
      <3>1. Where(1..Len(out), out, x) = {}
        BY <2>1 DEF Where
      <3>2. Cardinality(Where(All, val, x)) \in Nat
        BY <1>2
      <3> QED
        BY <3>1, <3>2, FS_EmptySet
    <2>3. ~(k > 0)
      BY <1>3
    <2>4. \A p \in 1..(Len(out) - 1) : ~Better(out[p + 1], out[p])
      BY <2>1
    <2> HIDE DEF All
    <2> QED
      BY <1>3, <2>1, <2>2, <2>3, <2>4 DEF All
  <1>4. CASE k > 0
    <2>1. PICK m \in MergeInv(lists, k) : out = m.out
      BY <1>4, MergeLoop
    <2>2. /\ m.pos \in [D -> Nat] /\ out \in Seq(Results)
          /\ \A s \in D : m.pos[s] \in 1..(Len(lists[s]) + 1) /\ lists[s] \in Seq(Results)
      BY <2>1 DEF Merging, MergeInv, RankedLists, Results
    <2>3. Consumed(D, m) \in SUBSET All
      <3> SUFFICES ASSUME NEW c \in Consumed(D, m) PROVE c \in All
        OBVIOUS
      <3>1. c \in D \X Nat /\ 1 <= c[2] /\ c[2] < m.pos[c[1]]
        BY InConsumed
      <3>2. c[1] \in D /\ c[2] \in Nat
        BY <3>1
      <3>3. c[2] <= Len(lists[c[1]])
        BY <2>2, <3>1, <3>2
      <3> QED
        BY <3>1, <3>3 DEF Entries
    <2>4. ASSUME NEW c \in All, c \notin Consumed(D, m)
          PROVE  /\ c[1] \in Live(lists, m)
                 /\ c[2] \in 1..Len(lists[c[1]]) /\ m.pos[c[1]] \in 1..c[2]
      <3>1. c \in D \X Nat /\ 1 <= c[2] /\ c[2] <= Len(lists[c[1]])
        BY DEF Entries
      <3>2. c[1] \in D /\ c[2] \in Nat
        BY <3>1
      <3>3. ~(c[2] < m.pos[c[1]])
        BY <2>4, <3>1, InConsumed
      <3>4. m.pos[c[1]] \in Nat /\ m.pos[c[1]] >= 1 /\ Len(lists[c[1]]) \in Nat
        BY <2>2, <3>2
      <3> HIDE DEF All
      <3> QED
        BY <3>1, <3>2, <3>3, <3>4 DEF Live
    <2>5. /\ Len(out) = Cardinality(Consumed(D, m)) /\ Len(out) <= k
          /\ Len(out) = k \/ Live(lists, m) = {}
          /\ \A p \in 1..(Len(out) - 1) : ~Better(out[p + 1], out[p])
          /\ Len(out) > 0 => \A s \in Live(lists, m) : ~Better(HeadOf(lists, m, s), out[Len(out)])
      BY <2>1 DEF MergeInv
    <2>6. Cardinality(Consumed(D, m)) <= Cardinality(All)
      <3> HIDE DEF All
      <3> QED
        BY <1>1, <2>3, FS_Subset
    <2>7. Live(lists, m) = {} => Consumed(D, m) = All
      BY <2>3, <2>4
    <2>8. Len(out) = IF Cardinality(All) < k THEN Cardinality(All) ELSE k
      <3> HIDE DEF All
      <3> QED
        BY <1>1, <2>2, <2>5, <2>6, <2>7
    <2>9. ASSUME NEW x \in Results
          PROVE  Cardinality(Where(1..Len(out), out, x))
                   = Cardinality(Where(Consumed(D, m), val, x))
      <3>1. Cardinality({p \in 1..Len(out) : out[p] = x})
              = Cardinality({c \in Consumed(D, m) : lists[c[1]][c[2]] = x})
        BY <2>1 DEF MergeInv
      <3>2. {c \in Consumed(D, m) : lists[c[1]][c[2]] = x} = {c \in Consumed(D, m) : val[c] = x}
        BY <2>3
      <3> QED
        BY <3>1, <3>2 DEF Where
    <2>10. ASSUME NEW x \in Results,
                  Cardinality(Where(Consumed(D, m), val, x)) # Cardinality(Where(All, val, x))
           PROVE  ~Better(x, out[Len(out)])
      <3>1. PICK c \in All : c \notin Consumed(D, m) /\ val[c] = x
        <4>1. Where(Consumed(D, m), val, x) # Where(All, val, x)
          BY <2>10
        <4> QED
          BY <4>1, <2>3 DEF Where
      <3>2. x = lists[c[1]][c[2]]
        BY <3>1
      <3>3. /\ c[1] \in Live(lists, m)
            /\ c[2] \in 1..Len(lists[c[1]]) /\ m.pos[c[1]] \in 1..c[2]
        BY <2>4, <3>1
      <3> DEFINE head == HeadOf(lists, m, c[1])
      <3>4. c[1] \in D /\ lists[c[1]] \in Seq(Results) /\ head = lists[c[1]][m.pos[c[1]]]
        BY <2>2, <3>3 DEF Live, HeadOf
      <3>5. head \in Results /\ m.pos[c[1]] \in 1..Len(lists[c[1]])
        BY <3>3, <3>4
      <3>6. ~Better(x, head)
        <4>1. CASE m.pos[c[1]] = c[2]
          BY <4>1, <3>2, <3>4, BetterOrder
        <4>2. CASE m.pos[c[1]] # c[2]
          <5>1. m.pos[c[1]] \in 1..(c[2] - 1)
            BY <3>3, <4>2
          <5> HIDE DEF head
          <5> QED
            BY <5>1, <3>2, <3>3, <3>4 DEF RankedLists
        <4> QED
          BY <4>1, <4>2
      <3>7. Len(out) = k /\ Len(out) > 0
        BY <1>4, <2>5, <3>3
      <3>8. ~Better(head, out[Len(out)])
        BY <2>5, <3>3, <3>7
      <3>9. out[Len(out)] \in Results
        BY <2>2, <3>7
      <3> HIDE DEF head
      <3> QED
        BY <3>5, <3>6, <3>8, <3>9, BetterOrder
    <2>11. ASSUME NEW x \in Results
           PROVE  LET here  == Cardinality(Where(1..Len(out), out, x))
                      there == Cardinality(Where(All, val, x))
                  IN  \/ here = there
                      \/ here < there /\ (k > 0 => ~Better(x, out[Len(out)]))
      <3>1. Cardinality(Where(Consumed(D, m), val, x)) <= Cardinality(Where(All, val, x))
            /\ Cardinality(Where(Consumed(D, m), val, x)) \in Nat
            /\ Cardinality(Where(All, val, x)) \in Nat
        BY <1>2, <2>3
      <3> HIDE DEF All
      <3> QED
        BY <2>9, <2>10, <3>1
    <2> QED
      BY <1>4, <2>2, <2>5, <2>8, <2>11
  <1> QED
    BY <1>3, <1>4

-----------------------------------------------------------------------------
(***************************************************************************)
(* A hedged call.                                                          *)
(***************************************************************************)

\* What holds of one call, given its program counter and its locals.  A call that
\* waits has launched the replicas below launched, the channel holds outcomes of
\* different attempts, and among them every success.
OneCall(h, pc, l, pe, t, a, d) ==
  /\ pc = "off" => l = 0 /\ d = <<>> /\ \A r \in Replica(h) : a[r] = "off"
  /\ pc = "select" =>
       /\ l \in 1..Replicas[h]
       /\ \A r \in Replica(h) : a[r] = "off" <=> r >= l
       /\ t = TRUE => l < Replicas[h]
       /\ \A i \in 1..Len(d) : a[d[i]] \in {"ok", "err"}
       /\ \A i, j \in 1..Len(d) : d[i] = d[j] => i = j
       /\ \A r \in Replica(h) : a[r] = "ok" => \E i \in 1..Len(d) : d[i] = r
       /\ pe > 0 /\ pe <= l
       /\ pe = Cardinality({r \in Replica(h) : a[r] = "running"}) + Len(d)

HedgeInv ==
  /\ HedgeTypeOK
  /\ \A h \in Calls :
       /\ OneCall(h, hpc[h], launched[h], pending[h], timer[h], attempt[h], done[h])
       /\ result[h] = "none" <=> hpc[h] # "returned"

Outcomes == {"off", "running", "ok", "err"}

\* The replicas of a call are finitely many, and so are those of any of its counts.
LEMMA ReplicaFinite ==
  ASSUME NEW h \in Calls
  PROVE  /\ IsFiniteSet(Replica(h)) /\ Replica(h) \subseteq Nat /\ Cardinality(Replica(h)) = Replicas[h]
         /\ \A S \in SUBSET Replica(h) : IsFiniteSet(S) /\ Cardinality(S) \in Nat
  <1>1. 0 \in Int /\ Replicas[h] - 1 \in Int /\ Replica(h) \subseteq Nat
    BY HedgeAssumption DEF Replica
  <1>2. IsFiniteSet(Replica(h)) /\ Cardinality(Replica(h)) = Replicas[h]
    BY <1>1, HedgeAssumption, FS_Interval DEF Replica
  <1> QED
    BY <1>1, <1>2, FS_Subset, FS_CardinalityType

Launches(h, a, b, l) == \A r \in Replica(h) : b[r] = IF r = l THEN "running" ELSE a[r]

\* Launching one more replica adds one to the running ones.
LEMMA LaunchOneMore ==
  ASSUME NEW h \in Calls, NEW l \in Int, NEW pe \in Int, NEW t \in BOOLEAN, NEW t2 \in BOOLEAN,
         NEW a \in [Replica(h) -> Outcomes], NEW d \in Seq(Replica(h)),
         OneCall(h, "select", l, pe, t, a, d), l < Replicas[h], t2 = TRUE => l + 1 < Replicas[h],
         NEW b \in [Replica(h) -> Outcomes], Launches(h, a, b, l)
  PROVE  OneCall(h, "select", l + 1, pe + 1, t2, b, d)
  <1> DEFINE A == {r \in Replica(h) : a[r] = "running"}
             B == {r \in Replica(h) : b[r] = "running"}
  <1>1. l \in Nat /\ l \in Replica(h) /\ l >= 1
    BY HedgeAssumption DEF OneCall, Replica
  <1>2. \A r \in Replica(h) : r \in Nat /\ b[r] = IF r = l THEN "running" ELSE a[r]
    BY <1>1 DEF Replica, Launches
  <1>3. a[l] = "off"
    BY <1>1 DEF OneCall
  <1>4. B = A \cup {l} /\ l \notin A
    BY <1>1, <1>2, <1>3
  <1>5. A \in SUBSET Replica(h)
    OBVIOUS
  <1>6. Cardinality(B) = Cardinality(A) + 1 /\ Cardinality(A) \in Nat
    <2> HIDE DEF A, B
    <2> QED
      BY <1>4, <1>5, FS_AddElement, ReplicaFinite
  <1>8. pe = Cardinality(A) + Len(d) /\ Len(d) \in Nat
    BY DEF OneCall
  <1>9. /\ l + 1 \in 1..Replicas[h]
        /\ \A r \in Replica(h) : b[r] = "off" <=> r >= l + 1
        /\ \A r \in Replica(h) : b[r] = "ok" => \E i \in 1..Len(d) : d[i] = r
        /\ pe + 1 > 0 /\ pe + 1 <= l + 1
    BY <1>1, <1>2, <1>3, HedgeAssumption DEF OneCall
  <1>10. \A i \in 1..Len(d) : b[d[i]] \in {"ok", "err"}
    <2> SUFFICES ASSUME NEW i \in 1..Len(d) PROVE b[d[i]] \in {"ok", "err"}
      OBVIOUS
    <2>1. d[i] \in Replica(h) /\ a[d[i]] \in {"ok", "err"}
      BY DEF OneCall
    <2> QED
      BY <2>1, <1>2, <1>3
  <1>11. pe + 1 = Cardinality(B) + Len(d)
    BY <1>6, <1>8
  <1>12. \A i, j \in 1..Len(d) : d[i] = d[j] => i = j
    BY DEF OneCall
  <1> HIDE DEF A, B
  <1> QED
    BY <1>9, <1>10, <1>11, <1>12 DEF OneCall, B

\* Reading an outcome that is no success, while others are outstanding.
LEMMA DropOutcome ==
  ASSUME NEW h \in Calls, NEW l, NEW pe \in Int, NEW t, NEW a \in [Replica(h) -> Outcomes], NEW d \in Seq(Replica(h)),
         OneCall(h, "select", l, pe, t, a, d), d # <<>>, a[Head(d)] # "ok", pe # 1
  PROVE  OneCall(h, "select", l, pe - 1, t, a, Tail(d)) /\ Tail(d) \in Seq(Replica(h))
  <1> DEFINE e == Tail(d)
             A == {r \in Replica(h) : a[r] = "running"}
  <1>1. /\ e \in Seq(Replica(h)) /\ Len(d) \in Nat /\ Len(e) = Len(d) - 1 /\ Len(e) \in Nat
        /\ \A i \in 1..Len(e) : i + 1 \in 1..Len(d) /\ e[i] = d[i + 1]
        /\ Head(d) = d[1] /\ 1 \in 1..Len(d)
    OBVIOUS
  <1>2. Cardinality(A) \in Nat /\ pe = Cardinality(A) + Len(d) /\ pe > 0 /\ pe <= l
        /\ l \in 1..Replicas[h]
    BY ReplicaFinite DEF OneCall
  <1> HIDE DEF e, A
  <1>3. pe - 1 > 0 /\ pe - 1 <= l /\ pe - 1 = Cardinality(A) + Len(e)
    BY <1>1, <1>2, HedgeAssumption
  <1>4. \A i \in 1..Len(e) : a[e[i]] \in {"ok", "err"}
    BY <1>1 DEF OneCall
  <1>5. ASSUME NEW i \in 1..Len(e), NEW j \in 1..Len(e), e[i] = e[j] PROVE i = j
    <2>1. i + 1 = j + 1
      BY <1>1, <1>5 DEF OneCall
    <2> QED
      BY <2>1
  <1>6. ASSUME NEW r \in Replica(h), a[r] = "ok" PROVE \E i \in 1..Len(e) : e[i] = r
    <2>1. PICK i \in 1..Len(d) : d[i] = r
      BY <1>6 DEF OneCall
    <2>2. i # 1
      BY <2>1, <1>1, <1>6
    <2>3. i - 1 \in 1..Len(e) /\ (i - 1) + 1 = i
      BY <2>2, <1>1
    <2> QED
      BY <2>1, <2>3, <1>1
  <1>7. /\ \A r \in Replica(h) : a[r] = "off" <=> r >= l
        /\ t = TRUE => l < Replicas[h]
    BY DEF OneCall
  <1>8. OneCall(h, "select", l, pe - 1, t, a, e)
    BY <1>2, <1>3, <1>4, <1>5, <1>6, <1>7 DEF OneCall, A
  <1> QED
    BY <1>1, <1>8 DEF e

\* When the last outstanding outcome is a failure, and every replica was launched,
\* every replica has failed.
LEMMA LastOutcome ==
  ASSUME NEW h \in Calls, NEW pe \in Int, NEW t, NEW a \in [Replica(h) -> Outcomes], NEW d \in Seq(Replica(h)),
         NEW l, OneCall(h, "select", l, pe, t, a, d), ~(l < Replicas[h]),
         d # <<>>, a[Head(d)] # "ok", pe = 1
  PROVE  \A r \in Replica(h) : a[r] = "err"
  <1> DEFINE A == {r \in Replica(h) : a[r] = "running"}
  <1>1. Len(d) \in Nat /\ Len(d) >= 1 /\ Head(d) = d[1] /\ 1 \in 1..Len(d)
    OBVIOUS
  <1>2. A \in SUBSET Replica(h) /\ pe = Cardinality(A) + Len(d)
    BY DEF OneCall
  <1>3. Cardinality(A) \in Nat /\ IsFiniteSet(A)
    BY <1>2, ReplicaFinite
  <1>4. Cardinality(A) = 0 /\ Len(d) = 1
    <2>1. 1 = Cardinality(A) + Len(d)
      BY <1>2
    <2>2. \A x, y \in Nat : y >= 1 /\ 1 = x + y => x = 0 /\ y = 1
      OBVIOUS
    <2> HIDE DEF A
    <2> QED
      BY <1>1, <1>3, <2>1, <2>2, Zenon
  <1>5. A = {}
    <2> HIDE DEF A
    <2> QED
      BY <1>3, <1>4, FS_EmptySet
  <1> SUFFICES ASSUME NEW r \in Replica(h) PROVE a[r] = "err"
    OBVIOUS
  <1>6. a[r] # "running"
    BY <1>5
  <1>7. a[r] # "off"
    <2>1. r \in Nat /\ r < Replicas[h] /\ l \in 1..Replicas[h]
      BY HedgeAssumption DEF Replica, OneCall
    <2> QED
      BY <2>1, HedgeAssumption DEF OneCall
  <1>8. a[r] # "ok"
    <2> SUFFICES ASSUME a[r] = "ok" PROVE FALSE
      OBVIOUS
    <2>1. PICK i \in 1..Len(d) : d[i] = r
      BY DEF OneCall
    <2>2. i = 1
      BY <1>4
    <2> QED
      BY <2>1, <2>2, <1>1
  <1> QED
    BY <1>6, <1>7, <1>8 DEF Outcomes

\* An attempt that ends moves from the running ones into the channel.
LEMMA OutcomeSent ==
  ASSUME NEW h \in Calls, NEW l, NEW pe \in Int, NEW t, NEW a \in [Replica(h) -> Outcomes], NEW d \in Seq(Replica(h)),
         OneCall(h, "select", l, pe, t, a, d),
         NEW r \in Replica(h), a[r] = "running", NEW what \in {"ok", "err"},
         NEW b \in [Replica(h) -> Outcomes],
         \A q \in Replica(h) : b[q] = IF q = r THEN what ELSE a[q]
  PROVE  OneCall(h, "select", l, pe, t, b, Append(d, r)) /\ Append(d, r) \in Seq(Replica(h))
  <1> DEFINE A == {q \in Replica(h) : a[q] = "running"}
             B == {q \in Replica(h) : b[q] = "running"}
             e == Append(d, r)
  <1>1. \A q \in Replica(h) : b[q] = IF q = r THEN what ELSE a[q]
    OBVIOUS
  <1>2. /\ e \in Seq(Replica(h)) /\ Len(d) \in Nat /\ Len(e) = Len(d) + 1
        /\ \A i \in 1..Len(e) : e[i] = IF i <= Len(d) THEN d[i] ELSE r
        /\ \A i \in 1..Len(d) : d[i] \in Replica(h)
    OBVIOUS
  <1>3. B = A \ {r} /\ r \in A /\ A \in SUBSET Replica(h)
    BY <1>1
  <1>4. Cardinality(B) = Cardinality(A) - 1 /\ Cardinality(A) \in Nat
    <2> HIDE DEF A, B
    <2> QED
      BY <1>3, FS_RemoveElement, ReplicaFinite
  <1>5. pe = Cardinality(A) + Len(d)
    BY DEF OneCall
  <1> HIDE DEF A, B, e
  <1>6. pe = Cardinality(B) + Len(e)
    BY <1>2, <1>4, <1>5
  <1>7. \A i \in 1..Len(d) : d[i] # r
    BY DEF OneCall
  <1>8. \A i \in 1..Len(e) : b[e[i]] \in {"ok", "err"}
    <2> SUFFICES ASSUME NEW i \in 1..Len(e) PROVE b[e[i]] \in {"ok", "err"}
      OBVIOUS
    <2>1. CASE i <= Len(d)
      <3>1. i \in 1..Len(d) /\ e[i] = d[i] /\ d[i] \in Replica(h) /\ d[i] # r
        BY <2>1, <1>2, <1>7
      <3> QED
        BY <3>1, <1>1 DEF OneCall
    <2>2. CASE ~(i <= Len(d))
      BY <2>2, <1>1, <1>2
    <2> QED
      BY <2>1, <2>2
  <1>9. ASSUME NEW i \in 1..Len(e), NEW j \in 1..Len(e), e[i] = e[j] PROVE i = j
    <2>1. CASE i <= Len(d) /\ j <= Len(d)
      <3>1. i \in 1..Len(d) /\ j \in 1..Len(d) /\ d[i] = d[j]
        BY <2>1, <1>2, <1>9
      <3> QED
        BY <3>1 DEF OneCall
    <2>2. CASE ~(i <= Len(d) /\ j <= Len(d))
      BY <2>2, <1>2, <1>7, <1>9
    <2> QED
      BY <2>1, <2>2
  <1>10. ASSUME NEW q \in Replica(h), b[q] = "ok" PROVE \E i \in 1..Len(e) : e[i] = q
    <2>1. CASE q = r
      <3>1. Len(e) \in 1..Len(e) /\ e[Len(e)] = r
        BY <1>2
      <3> QED
        BY <3>1, <2>1
    <2>2. CASE q # r
      <3>1. PICK i \in 1..Len(d) : d[i] = q
        BY <1>1, <1>10, <2>2 DEF OneCall
      <3>2. i \in 1..Len(e) /\ e[i] = d[i]
        BY <1>2
      <3> QED
        BY <3>1, <3>2
    <2> QED
      BY <2>1, <2>2
  <1>11. \A q \in Replica(h) : b[q] = "off" <=> q >= l
    BY <1>1 DEF OneCall
  <1>12. (t = TRUE => l < Replicas[h]) /\ pe > 0 /\ pe <= l /\ l \in 1..Replicas[h]
    BY DEF OneCall
  <1>13. OneCall(h, "select", l, pe, t, b, e)
    BY <1>6, <1>8, <1>9, <1>10, <1>11, <1>12 DEF OneCall, B
  <1> QED
    BY <1>2, <1>13 DEF e

\* The first attempts of a call.
LEMMA FirstLaunch ==
  ASSUME NEW h \in Calls, NEW n \in 1..Replicas[h], NEW t, t = TRUE => n < Replicas[h],
         NEW b \in [Replica(h) -> Outcomes],
         \A r \in Replica(h) : b[r] = IF r \in 0..(n - 1) THEN "running" ELSE "off"
  PROVE  OneCall(h, "select", n, n, t, b, <<>>)
  <1> DEFINE B == {r \in Replica(h) : b[r] = "running"}
  <1>1. B = 0..(n - 1)
    BY HedgeAssumption DEF Replica
  <1>2. Cardinality(B) = n
    <2>1. 0 \in Int /\ n - 1 \in Int /\ ~(0 > n - 1) /\ (n - 1) - 0 + 1 = n
      BY HedgeAssumption
    <2>2. Cardinality(0..(n - 1)) = (n - 1) - 0 + 1
      BY <2>1, FS_Interval
    <2> HIDE DEF B
    <2> QED
      BY <1>1, <2>1, <2>2
  <1>3. \A r \in Replica(h) : b[r] = "off" <=> r >= n
    BY HedgeAssumption DEF Outcomes, Replica
  <1>4. Len(<<>>) = 0 /\ n = Cardinality(B) + Len(<<>>) /\ n > 0 /\ n <= n
    BY <1>2, HedgeAssumption
  <1>5. \A r \in Replica(h) : b[r] # "ok"
    OBVIOUS
  <1>6. OneCall(h, "select", n, n, t, b, <<>>)
    <2> DEFINE d == <<>>
    <2>1. \A i \in 1..Len(d) : FALSE
      OBVIOUS
    <2> HIDE DEF B, d
    <2>2. OneCall(h, "select", n, n, t, b, d)
      BY <1>3, <1>4, <1>5, <2>1 DEF OneCall, B, d
    <2> QED
      BY <2>2 DEF d
  <1> QED
    BY <1>6

\* The calls are the children, and a call that an action leaves alone keeps what
\* holds of it.
LEMMA HedgeInvInit == HedgeInit => HedgeInv
  <1> SUFFICES ASSUME HedgeInit PROVE HedgeInv
    OBVIOUS
  <1>1. HedgeTypeOK
    BY HedgeAssumption DEF HedgeInit, HedgeTypeOK
  <1>2. ASSUME NEW h \in Calls
        PROVE  /\ OneCall(h, hpc[h], launched[h], pending[h], timer[h], attempt[h], done[h])
               /\ result[h] = "none" <=> hpc[h] # "returned"
    BY DEF HedgeInit, OneCall
  <1> QED
    BY <1>1, <1>2 DEF HedgeInv

\* The types, with the outcomes named.
LEMMA CallTypes ==
  ASSUME HedgeTypeOK, NEW h \in Calls
  PROVE  /\ attempt[h] \in [Replica(h) -> Outcomes]
         /\ done[h] \in Seq(Replica(h)) /\ pending[h] \in Int /\ launched[h] \in 0..Replicas[h]
  BY HedgeAssumption DEF HedgeTypeOK, Outcomes

\* A step of one call h that leaves the others alone keeps the invariant if what
\* it makes of h satisfies it.
LEMMA OneCallMoves ==
  ASSUME HedgeInv, NEW h \in Calls,
         NEW pc \in {"off", "select", "returned"}, NEW l \in 0..Replicas[h],
         NEW pe \in 0..Replicas[h], NEW t \in BOOLEAN, NEW a \in [Replica(h) -> Outcomes],
         NEW d \in Seq(Replica(h)), NEW what \in {"none", "ok", "err", "ctx"},
         hpc' = [hpc EXCEPT ![h] = pc], launched' = [launched EXCEPT ![h] = l],
         pending' = [pending EXCEPT ![h] = pe], timer' = [timer EXCEPT ![h] = t],
         attempt' = [attempt EXCEPT ![h] = a], done' = [done EXCEPT ![h] = d],
         result' = [result EXCEPT ![h] = what], over' = over,
         OneCall(h, pc, l, pe, t, a, d), what = "none" <=> pc # "returned"
  PROVE  HedgeInv'
  <1>1. HedgeTypeOK
    BY DEF HedgeInv
  <1>2. /\ DOMAIN hpc = Calls /\ DOMAIN launched = Calls /\ DOMAIN pending = Calls /\ DOMAIN timer = Calls
        /\ DOMAIN attempt = Calls /\ DOMAIN done = Calls /\ DOMAIN result = Calls
    BY <1>1 DEF HedgeTypeOK
  <1>3. \A k \in Calls :
          IF k = h
          THEN /\ hpc'[k] = pc /\ launched'[k] = l /\ pending'[k] = pe /\ timer'[k] = t
               /\ attempt'[k] = a /\ done'[k] = d /\ result'[k] = what
          ELSE /\ hpc'[k] = hpc[k] /\ launched'[k] = launched[k] /\ pending'[k] = pending[k]
               /\ timer'[k] = timer[k] /\ attempt'[k] = attempt[k] /\ done'[k] = done[k]
               /\ result'[k] = result[k]
    BY <1>2
  <1>4. l \in Nat /\ pe \in Nat /\ l <= Replicas[h] /\ pe <= Replicas[h] /\ d \in Seq(Nat)
    <2>1. l \in Nat /\ pe \in Nat /\ l <= Replicas[h] /\ pe <= Replicas[h]
      BY HedgeAssumption
    <2>2. Replica(h) \in SUBSET Nat
      BY ReplicaFinite
    <2> QED
      BY <2>1, <2>2
  <1>5. HedgeTypeOK'
    <2>1. /\ hpc' \in [Calls -> {"off", "select", "returned"}] /\ timer' \in [Calls -> BOOLEAN]
          /\ launched' \in [Calls -> Nat] /\ pending' \in [Calls -> Nat]
          /\ result' \in [Calls -> {"none", "ok", "err", "ctx"}] /\ over' \in SUBSET Calls
      BY <1>1, <1>4 DEF HedgeTypeOK
    <2>2. done' \in [Calls -> Seq(Nat)]
      BY <1>1, <1>4 DEF HedgeTypeOK
    <2>3. attempt' = [k \in Calls |-> attempt'[k]]
      BY <1>2
    <2>4. ASSUME NEW k \in Calls
          PROVE  /\ launched'[k] <= Replicas[k] /\ pending'[k] <= Replicas[k]
                 /\ attempt'[k] \in [Replica(k) -> {"off", "running", "ok", "err"}]
                 /\ done'[k] \in Seq(Replica(k))
      <3>1. CASE k = h
        BY <1>3, <1>4, <3>1 DEF Outcomes
      <3>2. CASE k # h
        BY <1>1, <1>3, <3>2 DEF HedgeTypeOK
      <3> QED
        BY <3>1, <3>2
    <2> QED
      BY <2>1, <2>2, <2>3, <2>4 DEF HedgeTypeOK
  <1>6. ASSUME NEW k \in Calls
        PROVE  /\ OneCall(k, hpc'[k], launched'[k], pending'[k], timer'[k], attempt'[k], done'[k])
               /\ result'[k] = "none" <=> hpc'[k] # "returned"
    <2>1. CASE k = h
      BY <1>3, <2>1
    <2>2. CASE k # h
      BY <1>3, <2>2 DEF HedgeInv
    <2> QED
      BY <2>1, <2>2
  <1> QED
    BY <1>5, <1>6 DEF HedgeInv

\* Whatever holds of a call, it may return.
LEMMA ReturnKeeps ==
  ASSUME HedgeInv, NEW h \in Calls, NEW what \in {"ok", "err", "ctx"}, HedgeReturns(h, what)
  PROVE  HedgeInv'
  <1> DEFINE a == [r \in Replica(h) |-> "off"]
  <1>1. a \in [Replica(h) -> Outcomes] /\ 0 \in 0..Replicas[h] /\ <<>> \in Seq(Replica(h))
    BY HedgeAssumption DEF Outcomes
  <1>2. OneCall(h, "returned", 0, 0, FALSE, a, <<>>)
    BY DEF OneCall
  <1>3. /\ hpc' = [hpc EXCEPT ![h] = "returned"] /\ launched' = [launched EXCEPT ![h] = 0]
        /\ pending' = [pending EXCEPT ![h] = 0] /\ timer' = [timer EXCEPT ![h] = FALSE]
        /\ attempt' = [attempt EXCEPT ![h] = a] /\ done' = [done EXCEPT ![h] = <<>>]
        /\ result' = [result EXCEPT ![h] = what] /\ over' = over
    BY DEF HedgeReturns
  <1> HIDE DEF a
  <1> QED
    BY <1>1, <1>2, <1>3, OneCallMoves

\* A call starts.
LEMMA StartKeeps ==
  ASSUME HedgeInv, NEW h \in Calls, StartHedge(h)
  PROVE  HedgeInv'
  <1>1. CASE Replicas[h] = 0
    <2>1. HedgeReturns(h, "ctx")
      BY <1>1 DEF StartHedge
    <2> QED
      BY <2>1, ReturnKeeps
  <1>2. CASE Replicas[h] # 0
    <2> DEFINE n == IF Delayed THEN 1 ELSE Replicas[h]
               t == Delayed /\ n < Replicas[h]
               b == [r \in Replica(h) |-> IF r \in 0..(n - 1) THEN "running" ELSE attempt[h][r]]
    <2>1. HedgeTypeOK /\ hpc[h] = "off" /\ launched[h] = 0 /\ done[h] = <<>>
          /\ result[h] = "none" /\ \A r \in Replica(h) : attempt[h][r] = "off"
      BY DEF HedgeInv, StartHedge, OneCall
    <2>2. n \in 1..Replicas[h] /\ t \in BOOLEAN /\ (t = TRUE => n < Replicas[h])
      BY <1>2, HedgeAssumption
    <2>3. Launch(h, n) /\ pending' = [pending EXCEPT ![h] = n]
          /\ hpc' = [hpc EXCEPT ![h] = "select"] /\ UNCHANGED <<done, result, over>>
      BY <1>2 DEF StartHedge
    <2>4. attempt' = [attempt EXCEPT ![h] = b] /\ timer' = [timer EXCEPT ![h] = t]
          /\ launched' = [launched EXCEPT ![h] = n]
      BY <2>1, <2>3 DEF Launch, HedgeTypeOK
    <2>5. done' = [done EXCEPT ![h] = <<>>] /\ result' = [result EXCEPT ![h] = "none"]
      <3>1. done = [k \in Calls |-> done[k]] /\ done[h] = <<>> /\ done' = done
        BY <2>1, <2>3 DEF HedgeTypeOK
      <3>2. done' = [done EXCEPT ![h] = done[h]]
        BY <3>1
      <3>3. result' = [result EXCEPT ![h] = "none"]
        BY <2>1, <2>3 DEF HedgeTypeOK
      <3> QED
        BY <3>1, <3>2, <3>3
    <2> HIDE DEF n, t
    <2>6. OneCall(h, "select", n, n, t, b, <<>>) /\ b \in [Replica(h) -> Outcomes]
      <3>1. b \in [Replica(h) -> Outcomes]
        BY <2>1 DEF Outcomes
      <3>2. \A r \in Replica(h) : b[r] = IF r \in 0..(n - 1) THEN "running" ELSE "off"
        BY <2>1
      <3> HIDE DEF b
      <3>3. OneCall(h, "select", n, n, t, b, <<>>)
        BY <2>2, <3>1, <3>2, FirstLaunch
      <3> QED
        BY <3>1, <3>3
    <2> HIDE DEF b
    <2>7. n \in 0..Replicas[h] /\ <<>> \in Seq(Replica(h)) /\ over' = over
      <3>1. Replicas[h] \in Nat
        BY HedgeAssumption
      <3>2. n \in 0..Replicas[h]
        BY <2>2, <3>1
      <3>3. <<>> \in Seq(Replica(h))
        OBVIOUS
      <3> QED
        BY <2>3, <3>2, <3>3
    <2> DEFINE d == <<>>
    <2>8. OneCall(h, "select", n, n, t, b, d) /\ d \in Seq(Replica(h)) /\ done' = [done EXCEPT ![h] = d]
      BY <2>5, <2>6, <2>7
    <2>9. /\ hpc' = [hpc EXCEPT ![h] = "select"] /\ launched' = [launched EXCEPT ![h] = n]
          /\ pending' = [pending EXCEPT ![h] = n] /\ timer' = [timer EXCEPT ![h] = t]
          /\ attempt' = [attempt EXCEPT ![h] = b] /\ done' = [done EXCEPT ![h] = d]
          /\ result' = [result EXCEPT ![h] = "none"] /\ over' = over
          /\ n \in 0..Replicas[h] /\ t \in BOOLEAN /\ b \in [Replica(h) -> Outcomes]
          /\ d \in Seq(Replica(h)) /\ OneCall(h, "select", n, n, t, b, d)
      BY <2>2, <2>3, <2>4, <2>5, <2>6, <2>7, <2>8
    <2> HIDE DEF d
    <2> QED
      BY <2>9, OneCallMoves
  <1> QED
    BY <1>1, <1>2

\* A waiting call launches one more replica, and may read a failure at the same time.
LEMMA LaunchKeeps ==
  ASSUME HedgeInv, NEW h \in Calls, hpc[h] = "select", launched[h] < Replicas[h],
         Launch(h, launched[h] + 1), UNCHANGED <<hpc, result, over>>,
         \/ pending' = [pending EXCEPT ![h] = @ + 1] /\ UNCHANGED done
         \/ /\ pending' = pending /\ done' = [done EXCEPT ![h] = Tail(@)]
            /\ done[h] # <<>> /\ attempt[h][Head(done[h])] # "ok"
  PROVE  HedgeInv'
  <1> DEFINE l == launched[h]
             pe == pending[h]
             a == attempt[h]
             d == done[h]
             t2 == Delayed /\ l + 1 < Replicas[h]
             b == [r \in Replica(h) |-> IF r \in l..((l + 1) - 1) THEN "running" ELSE a[r]]
  <1>1. HedgeTypeOK /\ a \in [Replica(h) -> Outcomes] /\ d \in Seq(Replica(h)) /\ pe \in Int
        /\ l \in 0..Replicas[h] /\ result[h] = "none" /\ OneCall(h, "select", l, pe, timer[h], a, d)
    BY CallTypes DEF HedgeInv
  <1>2. /\ attempt' = [attempt EXCEPT ![h] = b] /\ timer' = [timer EXCEPT ![h] = t2]
        /\ launched' = [launched EXCEPT ![h] = l + 1] /\ over' = over
        /\ hpc' = [hpc EXCEPT ![h] = "select"] /\ result' = [result EXCEPT ![h] = "none"]
    BY <1>1 DEF Launch, HedgeTypeOK
  <1>3. t2 \in BOOLEAN /\ (t2 = TRUE => l + 1 < Replicas[h]) /\ l + 1 \in 0..Replicas[h] /\ l \in Nat
    BY <1>1, HedgeAssumption
  <1>4. pe > 0 /\ pe <= l
    BY <1>1 DEF OneCall
  <1>5. \A r \in Replica(h) : b[r] = IF r = l THEN "running" ELSE a[r]
    BY <1>3
  <1>6. \/ pending' = [pending EXCEPT ![h] = pe + 1] /\ UNCHANGED done
        \/ /\ pending' = pending /\ done' = [done EXCEPT ![h] = Tail(d)]
           /\ d # <<>> /\ a[Head(d)] # "ok"
    OBVIOUS
  <1>7. pending' = pending => pending' = [pending EXCEPT ![h] = pe]
    BY <1>1 DEF HedgeTypeOK
  <1>8. done' = done => done' = [done EXCEPT ![h] = d]
    BY <1>1 DEF HedgeTypeOK
  <1>9. l < Replicas[h]
    OBVIOUS
  <1> HIDE DEF l, pe, a, d, t2
  <1>10. OneCall(h, "select", l + 1, pe + 1, t2, b, d) /\ b \in [Replica(h) -> Outcomes]
    <2> DEFINE t == timer[h]
    <2>1. OneCall(h, "select", l, pe, t, a, d) /\ pe \in Int
          /\ a \in [Replica(h) -> Outcomes] /\ d \in Seq(Replica(h)) /\ t \in BOOLEAN
      BY <1>1 DEF HedgeTypeOK
    <2>2. b \in [Replica(h) -> Outcomes]
      BY <1>1 DEF Outcomes
    <2> HIDE DEF b, t
    <2>3. l \in Int /\ t2 \in BOOLEAN /\ (t2 = TRUE => l + 1 < Replicas[h])
      BY <1>3
    <2>4. Launches(h, a, b, l)
      BY <1>5 DEF Launches
    <2>5. OneCall(h, "select", l + 1, pe + 1, t2, b, d)
      BY <2>4, <1>9, <2>1, <2>2, <2>3, LaunchOneMore
    <2> QED
      BY <2>2, <2>5
  <1>11. pe + 1 \in 0..Replicas[h] /\ pe \in 0..Replicas[h] /\ pe + 1 \in Int
         /\ (pe + 1) - 1 = pe /\ pe + 1 # 1
    BY <1>1, <1>3, <1>4, <1>9, HedgeAssumption
  <1>12. CASE pending' = [pending EXCEPT ![h] = pe + 1] /\ UNCHANGED done
    <2> HIDE DEF b
    <2> DEFINE l1 == l + 1
               p1 == pe + 1
    <2>1. /\ hpc' = [hpc EXCEPT ![h] = "select"] /\ launched' = [launched EXCEPT ![h] = l1]
          /\ pending' = [pending EXCEPT ![h] = p1] /\ timer' = [timer EXCEPT ![h] = t2]
          /\ attempt' = [attempt EXCEPT ![h] = b] /\ done' = [done EXCEPT ![h] = d]
          /\ result' = [result EXCEPT ![h] = "none"] /\ over' = over
          /\ l1 \in 0..Replicas[h] /\ p1 \in 0..Replicas[h] /\ t2 \in BOOLEAN
          /\ b \in [Replica(h) -> Outcomes] /\ d \in Seq(Replica(h))
          /\ OneCall(h, "select", l1, p1, t2, b, d)
      BY <1>1, <1>2, <1>3, <1>8, <1>10, <1>11, <1>12
    <2> HIDE DEF l1, p1
    <2> QED
      BY <2>1, OneCallMoves
  <1>13. CASE /\ pending' = pending /\ done' = [done EXCEPT ![h] = Tail(d)]
              /\ d # <<>> /\ a[Head(d)] # "ok"
    <2>1. Head(d) \in Replica(h)
      BY <1>1, <1>13
    <2>2. b[Head(d)] # "ok"
      BY <2>1, <1>5, <1>13
    <2> HIDE DEF b
    <2>3. OneCall(h, "select", l + 1, (pe + 1) - 1, t2, b, Tail(d)) /\ Tail(d) \in Seq(Replica(h))
      BY <1>1, <1>10, <1>11, <1>13, <2>2, DropOutcome
    <2>4. OneCall(h, "select", l + 1, pe, t2, b, Tail(d))
      BY <2>3, <1>11
    <2> DEFINE l1 == l + 1
               d1 == Tail(d)
    <2>5. /\ hpc' = [hpc EXCEPT ![h] = "select"] /\ launched' = [launched EXCEPT ![h] = l1]
          /\ pending' = [pending EXCEPT ![h] = pe] /\ timer' = [timer EXCEPT ![h] = t2]
          /\ attempt' = [attempt EXCEPT ![h] = b] /\ done' = [done EXCEPT ![h] = d1]
          /\ result' = [result EXCEPT ![h] = "none"] /\ over' = over
          /\ l1 \in 0..Replicas[h] /\ pe \in 0..Replicas[h] /\ t2 \in BOOLEAN
          /\ b \in [Replica(h) -> Outcomes] /\ d1 \in Seq(Replica(h))
          /\ OneCall(h, "select", l1, pe, t2, b, d1)
      BY <1>2, <1>3, <1>7, <1>10, <1>11, <1>13, <2>3, <2>4
    <2> HIDE DEF l1, d1
    <2> QED
      BY <2>5, OneCallMoves
  <1> QED
    BY <1>6, <1>12, <1>13

\* What a step of a waiting call keeps, and when it ends in failure.
LEMMA HedgeStepKeeps ==
  ASSUME HedgeInv, NEW h \in Calls, HedgeStep(h)
  PROVE  /\ HedgeInv'
         /\ \A k \in Calls : result[k] = "none" /\ result'[k] = "err" =>
              k = h /\ \A r \in Replica(h) : attempt[k][r] = "err"
         /\ hpc[h] = "select" /\ over' = over
         /\ \A k \in Calls : k # h => hpc'[k] = hpc[k] /\ result'[k] = result[k]
  <1>1. HedgeTypeOK /\ OneCall(h, hpc[h], launched[h], pending[h], timer[h], attempt[h], done[h])
        /\ attempt[h] \in [Replica(h) -> Outcomes] /\ done[h] \in Seq(Replica(h))
        /\ pending[h] \in Int /\ launched[h] \in 0..Replicas[h]
    BY CallTypes DEF HedgeInv
  <1>2. ASSUME NEW what \in {"ok", "err", "ctx"}, HedgeReturns(h, what), hpc[h] = "select",
               what = "err" => \A r \in Replica(h) : attempt[h][r] = "err"
        PROVE  /\ HedgeInv'
               /\ \A k \in Calls : result[k] = "none" /\ result'[k] = "err" =>
                    k = h /\ \A r \in Replica(h) : attempt[k][r] = "err"
               /\ over' = over
               /\ \A k \in Calls : k # h => hpc'[k] = hpc[k] /\ result'[k] = result[k]
    <2>1. HedgeInv'
      BY <1>2, ReturnKeeps
    <2> QED
      BY <1>1, <1>2, <2>1 DEF HedgeReturns, HedgeTypeOK
  <1>3. CASE ContextCase(h)
    BY <1>2, <1>3 DEF ContextCase
  <1>4. CASE TimerCase(h)
    <2>1. hpc[h] = "select" /\ timer[h] /\ Launch(h, launched[h] + 1)
          /\ pending' = [pending EXCEPT ![h] = @ + 1] /\ UNCHANGED <<hpc, done, result, over>>
      BY <1>4 DEF TimerCase
    <2>2. launched[h] < Replicas[h]
      BY <1>1, <2>1 DEF OneCall
    <2>3. HedgeInv'
      BY <2>1, <2>2, LaunchKeeps
    <2> QED
      BY <2>1, <2>3
  <1>5. CASE DoneCase(h)
    <2>1. hpc[h] = "select" /\ done[h] # <<>>
      BY <1>5 DEF DoneCase
    <2>2. CASE attempt[h][Head(done[h])] = "ok"
      BY <1>2, <1>5, <2>1, <2>2 DEF DoneCase
    <2>3. CASE attempt[h][Head(done[h])] # "ok"
      <3>1. Failure(h)
        BY <1>5, <2>3 DEF DoneCase
      <3>2. CASE launched[h] < Replicas[h]
        <4>1. Launch(h, launched[h] + 1) /\ done' = [done EXCEPT ![h] = Tail(@)]
              /\ UNCHANGED <<hpc, pending, result, over>>
          BY <3>1, <3>2 DEF Failure
        <4>2. HedgeInv'
          BY <4>1, <3>2, <2>1, <2>3, LaunchKeeps
        <4> QED
          BY <2>1, <4>1, <4>2
      <3>3. CASE ~(launched[h] < Replicas[h]) /\ pending[h] = 1
        <4>1. HedgeReturns(h, "err")
          BY <3>1, <3>3 DEF Failure
        <4>2. \A r \in Replica(h) : attempt[h][r] = "err"
          BY <1>1, <2>1, <2>3, <3>3, LastOutcome
        <4> QED
          BY <1>2, <2>1, <4>1, <4>2
      <3>4. CASE ~(launched[h] < Replicas[h]) /\ pending[h] # 1
        <4>1. /\ done' = [done EXCEPT ![h] = Tail(@)]
              /\ pending' = [pending EXCEPT ![h] = @ - 1]
              /\ UNCHANGED <<hpc, launched, timer, attempt, result, over>>
          BY <3>1, <3>4 DEF Failure
        <4> DEFINE l == launched[h]
                   pe == pending[h] - 1
                   d == Tail(done[h])
                   t == timer[h]
                   a == attempt[h]
        <4>2. OneCall(h, "select", l, pe, t, a, d) /\ d \in Seq(Replica(h))
          BY <1>1, <2>1, <2>3, <3>4, DropOutcome
        <4>3. /\ hpc' = [hpc EXCEPT ![h] = "select"] /\ launched' = [launched EXCEPT ![h] = l]
              /\ pending' = [pending EXCEPT ![h] = pe] /\ timer' = [timer EXCEPT ![h] = t]
              /\ attempt' = [attempt EXCEPT ![h] = a] /\ done' = [done EXCEPT ![h] = d]
              /\ result' = [result EXCEPT ![h] = "none"] /\ over' = over
          <5>1. result[h] = "none"
            BY <2>1 DEF HedgeInv
          <5> QED
            BY <1>1, <2>1, <4>1, <5>1 DEF HedgeTypeOK
        <4>4. l \in 0..Replicas[h] /\ pe \in 0..Replicas[h] /\ t \in BOOLEAN /\ a \in [Replica(h) -> Outcomes]
          <5>1. pe > 0 /\ pe <= l
            BY <4>2 DEF OneCall
          <5> QED
            BY <1>1, <5>1, HedgeAssumption DEF HedgeTypeOK
        <4> HIDE DEF l, pe, d, t, a
        <4>5. HedgeInv'
          BY <4>2, <4>3, <4>4, OneCallMoves
        <4> QED
          BY <2>1, <4>1, <4>5
      <3> QED
        BY <3>2, <3>3, <3>4
    <2> QED
      BY <2>2, <2>3
  <1> QED
    BY <1>3, <1>4, <1>5 DEF HedgeStep

\* An attempt that ends keeps the invariant.
LEMMA AttemptKeeps ==
  ASSUME HedgeInv, NEW h \in Calls, NEW r \in Replica(h), AttemptEnds(h, r)
  PROVE  HedgeInv'
  <1>1. HedgeTypeOK /\ OneCall(h, "select", launched[h], pending[h], timer[h], attempt[h], done[h])
        /\ attempt[h] \in [Replica(h) -> Outcomes] /\ done[h] \in Seq(Replica(h))
        /\ pending[h] \in Int /\ launched[h] \in 0..Replicas[h] /\ result[h] = "none"
        /\ hpc[h] = "select" /\ timer[h] \in BOOLEAN /\ pending[h] \in 0..Replicas[h]
    BY CallTypes DEF HedgeInv, AttemptEnds, HedgeTypeOK
  <1>2. PICK what \in {"ok", "err"} : attempt' = [attempt EXCEPT ![h][r] = what]
    BY DEF AttemptEnds
  <1> DEFINE b == [attempt[h] EXCEPT ![r] = what]
             d == Append(done[h], r)
             l == launched[h]
             pe == pending[h]
             t == timer[h]
  <1>3. OneCall(h, "select", l, pe, t, b, d)
        /\ b \in [Replica(h) -> Outcomes] /\ d \in Seq(Replica(h))
    <2>1. attempt[h][r] = "running"
      BY DEF AttemptEnds
    <2>2. b \in [Replica(h) -> Outcomes] /\ \A q \in Replica(h) : b[q] = IF q = r THEN what ELSE attempt[h][q]
      BY <1>1 DEF Outcomes
    <2> HIDE DEF b
    <2> QED
      BY <1>1, <2>1, <2>2, OutcomeSent
  <1>4. /\ hpc' = [hpc EXCEPT ![h] = "select"] /\ launched' = [launched EXCEPT ![h] = l]
        /\ pending' = [pending EXCEPT ![h] = pe] /\ timer' = [timer EXCEPT ![h] = t]
        /\ attempt' = [attempt EXCEPT ![h] = b] /\ done' = [done EXCEPT ![h] = d]
        /\ result' = [result EXCEPT ![h] = "none"] /\ over' = over
    BY <1>1, <1>2 DEF AttemptEnds, HedgeTypeOK
  <1>5. l \in 0..Replicas[h] /\ pe \in 0..Replicas[h] /\ t \in BOOLEAN
    BY <1>1
  <1> HIDE DEF b, d, l, pe, t
  <1> QED
    BY <1>3, <1>4, <1>5, OneCallMoves

-----------------------------------------------------------------------------
(***************************************************************************)
(* The query.                                                              *)
(***************************************************************************)

\* Scatter starts the children in turn; a slot is filled when its child has
\* returned, and says what it returned.
ScatterInv ==
  /\ spc \in {"scatter", "gather", "returned"}
  /\ next \in 1..(N + 1) /\ inGroup \in SUBSET Children
  /\ OK \in [Children -> BOOLEAN] /\ ended \in BOOLEAN
  /\ \A i \in Children : hpc[i] = "off" <=> i >= next
  /\ \A i \in inGroup : i < next
  /\ \A i \in Children : i < next /\ i \notin inGroup =>
       hpc[i] = "returned" /\ OK[i] = (result[i] = "ok")
  /\ spc # "scatter" => next = N + 1
  /\ spc = "returned" => inGroup = {}

\* What was returned, and that it was decided on what the children answered.
VerdictInv ==
  /\ verdict \in {"none", "page", "ctx", "insufficient"}
  /\ verdict = "none" <=> spc # "returned"
  /\ verdict # "page" => page = <<>>
  /\ verdict = "page" =>
       \/ N = 0 /\ page = <<>>
       \/ Cardinality(Answering) >= Need /\ page = Merged[Answering]
  /\ verdict \in {"ctx", "insufficient"} => Cardinality(Answering) < Need
  /\ verdict = "ctx" => ended

SearchInv == HedgeInv /\ ScatterInv /\ VerdictInv

\* The invariant holds when a query begins.
LEMMA SearchInvInit == Init => SearchInv
  <1> SUFFICES ASSUME Init PROVE SearchInv
    OBVIOUS
  <1>1. HedgeInv
    BY HedgeInvInit DEF Init
  <1>2. ScatterInv
    <2>1. N \in Nat /\ Calls = Children /\ 1 \in 1..(N + 1) /\ \A i \in Children : i \in Nat /\ i >= 1
      BY SearchAssumption DEF Children
    <2>2. /\ spc = "scatter" /\ next = 1 /\ inGroup = {} /\ ended = FALSE
          /\ OK = [i \in Children |-> FALSE] /\ \A i \in Children : hpc[i] = "off"
      BY <2>1 DEF Init, HedgeInit
    <2>3. OK \in [Children -> BOOLEAN] /\ ended \in BOOLEAN /\ next \in 1..(N + 1)
      BY <2>1, <2>2
    <2>4. \A i \in Children : i >= next /\ ~(i < next)
      BY <2>1, <2>2
    <2> QED
      BY <2>2, <2>3, <2>4 DEF ScatterInv
  <1>3. VerdictInv
    BY DEF Init, VerdictInv
  <1> QED
    BY <1>1, <1>2, <1>3 DEF SearchInv

\* Once the group is done, the slots say which children answered.
LEMMA SlotsAreAnswers ==
  ASSUME SearchInv, next = N + 1, inGroup = {}
  PROVE  Responded = Answering
  <1>1. \A i \in Children : i < next
    BY SearchAssumption DEF Children
  <1> QED
    BY <1>1 DEF SearchInv, ScatterInv, Responded, Answering

\* When every child has returned, the answers stay.
LEMMA AnswersStay ==
  ASSUME SearchInv, spc = "returned", \A i \in Children : hpc[i] = "returned" => result'[i] = result[i]
  PROVE  Answering' = Answering
  <1>1. \A i \in Children : i < next
    BY SearchAssumption DEF Children, SearchInv, ScatterInv
  <1>2. \A i \in Children : result'[i] = result[i]
    BY <1>1 DEF SearchInv, ScatterInv
  <1> QED
    BY <1>2 DEF Answering

\* What the steps of the hedged calls do to the query's view of them.
CallsGoOn ==
  /\ \A i \in Children : hpc[i] = "off" <=> hpc'[i] = "off"
  /\ \A i \in Children : hpc[i] = "returned" => hpc'[i] = "returned" /\ result'[i] = result[i]

\* A step of a hedged call that lets the others go on leaves the query as it is.
LEMMA CallsGoOnKeeps ==
  ASSUME SearchInv, HedgeInv', CallsGoOn, UNCHANGED <<spc, next, inGroup, OK, verdict, page>>,
         ended' \in BOOLEAN, ended => ended'
  PROVE  SearchInv'
  <1>1. ScatterInv'
    BY DEF SearchInv, ScatterInv, CallsGoOn
  <1>2. VerdictInv'
    <2>1. CASE spc = "returned"
      <3>1. Answering' = Answering
        BY <2>1, AnswersStay DEF CallsGoOn
      <3> QED
        BY <3>1, <2>1 DEF SearchInv, VerdictInv
    <2>2. CASE spc # "returned"
      BY <2>2 DEF SearchInv, VerdictInv
    <2> QED
      BY <2>1, <2>2
  <1> QED
    BY <1>1, <1>2 DEF SearchInv

\* Every step keeps the invariant, and a call that it fails has no replica left.
LEMMA SearchInvNext ==
  ASSUME SearchInv, [Next]_searchVars
  PROVE  /\ SearchInv'
         /\ \A h \in Calls : result[h] = "none" /\ result'[h] = "err" =>
              \A r \in Replica(h) : attempt[h][r] = "err"
  <1>1. HedgeInv /\ HedgeTypeOK /\ Calls = Children /\ N \in Nat /\ ScatterInv /\ VerdictInv
    BY SearchAssumption DEF SearchInv, HedgeInv
  <1>2. CASE Go
    <2>1. next \in Children /\ hpc[next] = "off" /\ spc = "scatter"
          /\ StartHedge(next) /\ inGroup' = inGroup \cup {next}
          /\ next' = next + 1 /\ UNCHANGED <<spc, OK, ended, verdict, page>>
      BY <1>1, <1>2 DEF Go, StartHedge, ScatterInv, Children
    <2>2. HedgeInv'
      BY <1>1, <2>1, StartKeeps
    <2>3. /\ \A i \in Children : i # next => hpc'[i] = hpc[i] /\ result'[i] = result[i]
          /\ hpc'[next] # "off"
          /\ result'[next] # "err"
      <3>1. result[next] = "none" /\ result \in [Children -> {"none", "ok", "err", "ctx"}]
            /\ hpc \in [Children -> {"off", "select", "returned"}]
        BY <1>1, <2>1 DEF HedgeInv, HedgeTypeOK
      <3>2. \/ /\ hpc' = [hpc EXCEPT ![next] = "returned"]
               /\ result' = [result EXCEPT ![next] = "ctx"]
            \/ hpc' = [hpc EXCEPT ![next] = "select"] /\ result' = result
        BY <2>1 DEF StartHedge, HedgeReturns
      <3> QED
        BY <2>1, <3>1, <3>2
    <2>4. ScatterInv'
      <3>1. next \in 1..N /\ next' \in 1..(N + 1)
        BY <1>1, <2>1 DEF Children
      <3>2. \A i \in Children : i \in Int /\ (hpc'[i] = "off" <=> i >= next')
        BY <1>1, <2>1, <2>3, <3>1 DEF ScatterInv, Children
      <3>3. \A i \in inGroup' : i < next'
        BY <1>1, <2>1, <3>1 DEF ScatterInv, Children
      <3>4. ASSUME NEW i \in Children, i < next', i \notin inGroup'
            PROVE  hpc'[i] = "returned" /\ OK'[i] = (result'[i] = "ok")
        <4>1. i < next /\ i \notin inGroup /\ i # next
          BY <1>1, <2>1, <3>1, <3>4 DEF Children
        <4> QED
          BY <1>1, <2>1, <2>3, <4>1 DEF ScatterInv
      <3>5. inGroup' \in SUBSET Children
        BY <1>1, <2>1 DEF ScatterInv
      <3> QED
        BY <1>1, <2>1, <3>1, <3>2, <3>3, <3>4, <3>5 DEF ScatterInv
    <2>5. VerdictInv'
      BY <1>1, <2>1 DEF VerdictInv
    <2> QED
      BY <1>1, <2>2, <2>3, <2>4, <2>5 DEF SearchInv
  <1>3. CASE WaitForGroup
    <2>1. HedgeInv'
      BY <1>1, <1>3 DEF WaitForGroup, hedgeVars, HedgeInv, HedgeTypeOK
    <2>2. ScatterInv'
      <3>1. N = 0 => inGroup = {}
        BY <1>1 DEF ScatterInv, Children
      <3>2. next = N + 1
        BY <1>1, <1>3 DEF WaitForGroup, ScatterInv
      <3> QED
        BY <1>1, <1>3, <3>1, <3>2 DEF WaitForGroup, ScatterInv, hedgeVars
    <2>3. VerdictInv'
      BY <1>1, <1>3 DEF WaitForGroup, VerdictInv, hedgeVars
    <2> QED
      BY <2>1, <2>2, <2>3, <1>3 DEF SearchInv, WaitForGroup, hedgeVars
  <1>4. CASE Finish
    <2>1. HedgeInv'
      BY <1>1, <1>4 DEF Finish, hedgeVars, HedgeInv, HedgeTypeOK
    <2>2. ScatterInv'
      BY <1>1, <1>4 DEF Finish, ScatterInv, hedgeVars
    <2>3. Responded = Answering
      BY <1>1, <1>4, SlotsAreAnswers DEF Finish, ScatterInv
    <2>4. Answering' = Answering
      BY <1>4 DEF Finish, hedgeVars, Answering
    <2>5. VerdictInv'
      <3>0. verdict = "none" /\ page = <<>>
        BY <1>1, <1>4 DEF Finish, VerdictInv
      <3>1. CASE Cardinality(Responded) < Need
        BY <1>4, <3>0, <3>1, <2>3, <2>4 DEF Finish, Refusal, VerdictInv
      <3>2. CASE ~(Cardinality(Responded) < Need)
        <4>1. Cardinality(Responded) \in Int /\ Need \in Int
          <5>1. Responded \in SUBSET Children /\ IsFiniteSet(Children)
            BY <1>1, FS_Interval DEF Responded, Children
          <5>2. Cardinality(Responded) \in Nat
            BY <5>1, FS_Subset, FS_CardinalityType
          <5> QED
            BY <1>1, <5>2, SearchAssumption DEF Need
        <4>2. Cardinality(Responded) >= Need
          BY <3>2, <4>1
        <4> QED
          BY <1>4, <3>2, <4>2, <2>3, <2>4 DEF Finish, Merge, VerdictInv
      <3> QED
        BY <3>1, <3>2
    <2> QED
      BY <2>1, <2>2, <2>5, <1>4 DEF SearchInv, Finish, hedgeVars
  <1>5. ASSUME NEW i \in Children, ChildEnds(i)
        PROVE  SearchInv' /\ result' = result
    <2>1. HedgeInv'
      BY <1>1, <1>5 DEF ChildEnds, hedgeVars, HedgeInv, HedgeTypeOK
    <2>2. ScatterInv'
      <3>1. spc # "returned"
        BY <1>1, <1>5 DEF ChildEnds, ScatterInv
      <3>2. \A j \in Children : OK'[j] = IF j = i THEN result[i] = "ok" ELSE OK[j]
        BY <1>1, <1>5 DEF ChildEnds, ScatterInv
      <3>3. OK' \in [Children -> BOOLEAN]
        BY <1>1, <1>5 DEF ChildEnds, ScatterInv
      <3>4. ASSUME NEW j \in Children, j < next', j \notin inGroup'
            PROVE  hpc'[j] = "returned" /\ OK'[j] = (result'[j] = "ok")
        <4>1. CASE j = i
          BY <1>5, <3>2, <4>1 DEF ChildEnds, hedgeVars
        <4>2. CASE j # i
          BY <1>1, <1>5, <3>2, <3>4, <4>2 DEF ChildEnds, hedgeVars, ScatterInv
        <4> QED
          BY <4>1, <4>2
      <3> QED
        BY <1>1, <1>5, <3>1, <3>3, <3>4 DEF ChildEnds, hedgeVars, ScatterInv
    <2>3. VerdictInv'
      <3>1. spc # "returned"
        BY <1>1, <1>5 DEF ChildEnds, ScatterInv
      <3> QED
        BY <1>1, <1>5, <3>1 DEF ChildEnds, VerdictInv, hedgeVars
    <2> QED
      BY <2>1, <2>2, <2>3, <1>5 DEF SearchInv, ChildEnds, hedgeVars
  <1>6. ASSUME NEW i \in Children, CallStep(i)
        PROVE  /\ SearchInv'
               /\ \A h \in Calls : result[h] = "none" /\ result'[h] = "err" =>
                    \A r \in Replica(h) : attempt[h][r] = "err"
    <2>1. HedgeStep(i) /\ UNCHANGED <<spc, next, inGroup, OK, ended, verdict, page>>
      BY <1>6 DEF CallStep
    <2>2. /\ HedgeInv'
          /\ \A k \in Calls : result[k] = "none" /\ result'[k] = "err" =>
               k = i /\ \A r \in Replica(i) : attempt[k][r] = "err"
          /\ hpc[i] = "select"
          /\ \A k \in Calls : k # i => hpc'[k] = hpc[k] /\ result'[k] = result[k]
      BY <1>1, <2>1, HedgeStepKeeps
    <2>3. hpc'[i] # "off"
      BY <1>1, <2>1, <2>2 DEF HedgeStep, ContextCase, TimerCase, DoneCase, Failure, HedgeReturns,
           HedgeTypeOK
    <2>4. CallsGoOn
      BY <1>1, <2>2, <2>3 DEF CallsGoOn
    <2>5. ended' = ended /\ ended \in BOOLEAN
      BY <1>1, <2>1 DEF ScatterInv
    <2> QED
      BY <2>1, <2>2, <2>4, <2>5, CallsGoOnKeeps
  <1>7. ASSUME Attempts PROVE SearchInv' /\ result' = result
    <2>1. PICK i \in Children : \E r \in Replica(i) : AttemptEnds(i, r)
      BY <1>7 DEF Attempts
    <2>2. HedgeInv'
      BY <1>1, <2>1, AttemptKeeps
    <2>3. CallsGoOn /\ result' = result
      BY <2>1 DEF AttemptEnds, CallsGoOn
    <2>4. ended' = ended /\ ended \in BOOLEAN /\ UNCHANGED <<spc, next, inGroup, OK, verdict, page>>
      BY <1>1, <1>7 DEF ScatterInv, Attempts
    <2> QED
      BY <2>2, <2>3, <2>4, CallsGoOnKeeps
  <1>8. ASSUME UNCHANGED <<hpc, launched, pending, timer, attempt, done, result>>,
               over' \in SUBSET Children, ended' \in BOOLEAN, ended => ended',
               UNCHANGED <<spc, next, inGroup, OK, verdict, page>>
        PROVE  SearchInv' /\ result' = result
    <2>1. HedgeInv'
      <3>1. HedgeTypeOK'
        BY <1>1, <1>8 DEF HedgeTypeOK
      <3> QED
        BY <1>1, <1>8, <3>1 DEF HedgeInv
    <2>2. CallsGoOn
      BY <1>8 DEF CallsGoOn
    <2> QED
      BY <1>8, <2>1, <2>2, CallsGoOnKeeps
  <1>9. CASE EndQuery
    BY <1>1, <1>8, <1>9 DEF EndQuery
  <1>10. ASSUME NEW i \in Children, SubDeadline(i) PROVE SearchInv' /\ result' = result
    <2>1. over' \in SUBSET Children /\ ended \in BOOLEAN
      BY <1>1, <1>10 DEF SubDeadline, HedgeTypeOK, ScatterInv
    <2> QED
      BY <1>8, <1>10, <2>1 DEF SubDeadline
  <1>11. CASE UNCHANGED searchVars
    <2>1. over' \in SUBSET Children /\ ended \in BOOLEAN
      BY <1>1, <1>11 DEF HedgeTypeOK, ScatterInv, searchVars, hedgeVars
    <2> QED
      BY <1>8, <1>11, <2>1 DEF searchVars, hedgeVars
  <1>12. CASE Answered
    BY <1>11, <1>12 DEF Answered
  <1> QED
    BY <1>2, <1>3, <1>4, <1>5, <1>6, <1>7, <1>9, <1>10, <1>11, <1>12 DEF Next, Goroutines

-----------------------------------------------------------------------------
(***************************************************************************)
(* The theorems.                                                           *)
(***************************************************************************)

\* The inductive invariant of a query and its hedged calls: what the counters of a
\* call count, what the slots of Scatter say, what a verdict was decided on.
THEOREM SearchCorrect == Spec => []SearchInv
  <1>1. SearchInv /\ [Next]_searchVars => SearchInv'
    BY SearchInvNext
  <1> QED
    BY SearchInvInit, <1>1, PTL DEF Spec

\* What Merged holds for some children is the merge of their ranked lists.
LEMMA MergedIsTopK ==
  ASSUME NEW S \in SUBSET Children,
         NEW lists, lists = [i \in S |-> Ranked[i]]
  PROVE  /\ Merged[S] = MergeTopK(lists, K)
         /\ DOMAIN lists = S /\ RankedLists(lists)
  <1>1. IsFiniteSet(S)
    <2>1. IsFiniteSet(Children)
      BY SearchAssumption, FS_Interval DEF Children
    <2> QED
      BY <2>1, FS_Subset
  <1>2. DOMAIN lists = S /\ lists \in [S -> Seq(Results)]
    BY RankedAssumption DEF Results
  <1>3. \A s \in S : lists[s] = Ranked[s]
    OBVIOUS
  <1>4. \A s \in S : \A q \in 1..Len(lists[s]) : \A p \in 1..(q - 1) :
          ~Better(lists[s][q], lists[s][p])
    BY <1>3, RankedAssumption
  <1> QED
    BY <1>1, <1>2, <1>4 DEF RankedLists, Merged

\* A page is the K best results of the children that answered, in order, none of
\* them twice or left out, served only when enough of them answered; a query is
\* refused only for cause (coordinator.go, Search; merge.go, MergeTopK).
THEOREM PagesAreTopK == Spec => []PageIsTopK
  <1>1. SearchInv => PageIsTopK
    <2> SUFFICES ASSUME SearchInv PROVE PageIsTopK
      OBVIOUS
    <2>1. RefusedForCause
      BY DEF SearchInv, VerdictInv, RefusedForCause
    <2>2. ASSUME verdict = "page"
          PROVE  /\ N = 0 \/ Cardinality(Answering) >= Need
                 /\ Len(page) = IF K <= 0 THEN 0
                      ELSE IF Cardinality(Candidates) < K THEN Cardinality(Candidates) ELSE K
                 /\ \A p \in 1..(Len(page) - 1) : ~Better(page[p + 1], page[p])
                 /\ \A c \in Candidates : LET x == Ranked[c[1]][c[2]] IN
                      \/ CountOn(x) = CountAmong(x)
                      \/ CountOn(x) < CountAmong(x) /\ (K > 0 => ~Better(x, page[Len(page)]))
      <3>1. Answering \in SUBSET Children
        BY DEF Answering
      <3> DEFINE lists == [i \in Answering |-> Ranked[i]]
                 val == [c \in Entries(Answering, lists) |-> lists[c[1]][c[2]]]
      <3>2. /\ Merged[Answering] = MergeTopK(lists, K)
            /\ DOMAIN lists = Answering /\ RankedLists(lists)
        BY <3>1, MergedIsTopK
      <3>3. Candidates = Entries(Answering, lists)
        <4>1. ASSUME NEW c \in Candidates PROVE c \in Entries(Answering, lists)
          <5>1. PICK i \in Answering : c \in {<<i, p>> : p \in 1..Len(Ranked[i])}
            BY DEF Candidates
          <5>2. PICK p \in 1..Len(Ranked[i]) : c = <<i, p>>
            BY <5>1
          <5>3. lists[i] = Ranked[i] /\ Len(Ranked[i]) \in Nat
            BY <3>1, RankedAssumption
          <5>4. c \in Answering \X Nat /\ c[1] = i /\ c[2] = p /\ 1 <= p /\ p <= Len(lists[i])
            BY <5>2, <5>3
          <5> QED
            BY <5>4 DEF Entries
        <4>2. ASSUME NEW c \in Entries(Answering, lists) PROVE c \in Candidates
          <5>1. c \in Answering \X Nat /\ 1 <= c[2] /\ c[2] <= Len(lists[c[1]])
            BY DEF Entries
          <5>2. c[1] \in Answering /\ c[2] \in Nat /\ c = <<c[1], c[2]>>
            BY <5>1
          <5>3. lists[c[1]] = Ranked[c[1]] /\ Len(Ranked[c[1]]) \in Nat
            BY <3>1, <5>2, RankedAssumption
          <5>4. c[2] \in 1..Len(Ranked[c[1]])
            BY <5>1, <5>2, <5>3
          <5> QED
            BY <5>2, <5>4 DEF Candidates
        <4> QED
          BY <4>1, <4>2
      <3>4. CASE N = 0 /\ page = <<>>
        <4>1. Candidates = {} /\ Len(page) = 0
          BY <3>1, <3>4 DEF Candidates, Children
        <4>2. Cardinality(Candidates) = 0 /\ K \in Int
          BY <4>1, FS_EmptySet, SearchAssumption
        <4>3. \A p \in 1..(Len(page) - 1) : FALSE
          BY <4>1
        <4> QED
          BY <3>4, <4>1, <4>2, <4>3
      <3>5. CASE Cardinality(Answering) >= Need /\ page = Merged[Answering]
        <4>1. K \in Int /\ page = MergeTopK(lists, K)
          BY <3>2, <3>5, SearchAssumption
        <4> HIDE DEF lists
        <4>2. /\ page \in Seq(Results)
              /\ Len(page) = IF K <= 0 THEN 0
                             ELSE IF Cardinality(Entries(Answering, lists)) < K
                                  THEN Cardinality(Entries(Answering, lists)) ELSE K
              /\ \A p \in 1..(Len(page) - 1) : ~Better(page[p + 1], page[p])
              /\ \A x \in Results :
                   LET here  == Cardinality(Where(1..Len(page), page, x))
                       there == Cardinality(Where(Entries(Answering, lists), val, x))
                   IN  \/ here = there
                       \/ here < there /\ (K > 0 => ~Better(x, page[Len(page)]))
          <5>1. PICK v : v = val
            OBVIOUS
          <5> HIDE DEF val
          <5> QED
            BY <3>2, <4>1, <5>1, MergeIsTopK DEF val
        <4>3. ASSUME NEW x
              PROVE  /\ CountOn(x) = Cardinality(Where(1..Len(page), page, x))
                     /\ CountAmong(x) = Cardinality(Where(Entries(Answering, lists), val, x))
          <5>1. CountOn(x) = Cardinality(Where(1..Len(page), page, x))
            BY DEF CountOn, Where
          <5>2. ASSUME NEW c \in Candidates PROVE val[c] = Ranked[c[1]][c[2]]
            <6>1. c \in Answering \X Nat
              BY <3>3 DEF Entries
            <6>2. c[1] \in Answering
              BY <6>1
            <6> QED
              BY <3>3, <6>2 DEF lists
          <5>3. {c \in Candidates : Ranked[c[1]][c[2]] = x} = Where(Candidates, val, x)
            <6> HIDE DEF val
            <6> QED
              BY <5>2 DEF Where
          <5> QED
            BY <3>3, <5>1, <5>3 DEF CountAmong
        <4>4. ASSUME NEW c \in Candidates PROVE Ranked[c[1]][c[2]] \in Results
          <5>1. PICK i \in Answering : c \in {<<i, p>> : p \in 1..Len(Ranked[i])}
            BY DEF Candidates
          <5>2. PICK p \in 1..Len(Ranked[i]) : c = <<i, p>>
            BY <5>1
          <5>3. Ranked[i] \in Seq(Results) /\ c[1] = i /\ c[2] = p
            BY <3>1, <5>2, RankedAssumption DEF Results
          <5> QED
            BY <5>3
        <4>5. ASSUME NEW c \in Candidates
              PROVE  LET x == Ranked[c[1]][c[2]] IN
                      \/ CountOn(x) = CountAmong(x)
                      \/ CountOn(x) < CountAmong(x) /\ (K > 0 => ~Better(x, page[Len(page)]))
          <5> HIDE DEF val
          <5> QED
            BY <4>2, <4>3, <4>4
        <4> QED
          BY <3>3, <3>5, <4>2, <4>5
      <3> QED
        BY <2>2, <3>4, <3>5 DEF SearchInv, VerdictInv
    <2> QED
      BY <2>1, <2>2 DEF PageIsTopK
  <1> QED
    BY SearchCorrect, <1>1, PTL

\* Type correctness of a query and its hedged calls.
THEOREM SearchTypeCorrect == Spec => []SearchTypeOK
  <1>1. SearchInv => SearchTypeOK
    <2> SUFFICES ASSUME SearchInv PROVE SearchTypeOK
      OBVIOUS
    <2>1. page \in Seq(DOMAIN Score)
      <3>1. CASE page = <<>>
        BY <3>1
      <3>2. CASE page = Merged[Answering]
        <4>1. Answering \in SUBSET Children
          BY DEF Answering
        <4>2. PICK lists : lists = [i \in Answering |-> Ranked[i]]
          OBVIOUS
        <4>3. Merged[Answering] = MergeTopK(lists, K) /\ RankedLists(lists)
          BY <4>1, <4>2, MergedIsTopK
        <4>4. page \in Seq(Results)
          BY <3>2, <4>3, MergeIsTopK, SearchAssumption
        <4> QED
          BY <4>4 DEF Results
      <3> QED
        BY <3>1, <3>2 DEF SearchInv, VerdictInv
    <2> QED
      BY <2>1 DEF SearchInv, HedgeInv, ScatterInv, VerdictInv, SearchTypeOK
  <1> QED
    BY SearchCorrect, <1>1, PTL

\* While a hedged call waits, pending counts what it waits for, and that is
\* something (hedge.go, "for pending > 0").
THEOREM PendingCounts == Spec => []PendingIsOutstanding
  <1>1. SearchInv => PendingIsOutstanding
    <2> SUFFICES ASSUME SearchInv, NEW h \in Calls, hpc[h] = "select"
                 PROVE  pending[h] > 0 /\ pending[h] = Cardinality(Running(h)) + Len(done[h])
      BY DEF PendingIsOutstanding
    <2> QED
      BY DEF SearchInv, HedgeInv, OneCall, Running
  <1> QED
    BY SearchCorrect, <1>1, PTL

\* A hedged call fails only when every replica was tried and failed, whatever the
\* order of timer, failures and late answers (hedge.go, Hedge).
THEOREM HedgeFailsLast == Spec => FailsOnlyWhenAllFail
  <1>1. SearchInv /\ [Next]_searchVars =>
          [\A h \in Calls : result[h] = "none" /\ result'[h] = "err" =>
             \A r \in Replica(h) : attempt[h][r] = "err"]_hedgeVars
    BY SearchInvNext
  <1> QED
    BY SearchCorrect, <1>1, PTL DEF Spec, FailsOnlyWhenAllFail
=============================================================================
