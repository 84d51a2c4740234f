---------------------------- MODULE LoaderProofs ----------------------------
(***************************************************************************)
(* The result cache and the loader in front of it, for any sets of keys,   *)
(* pages and callers and any capacity.                                     *)
(***************************************************************************)
EXTENDS Loader, TLAPS

\* The key used last is at the front of the list.
HotInFront == hot # Nothing => Len(ll) > 0 /\ ll[1] = hot

CacheTypeOK ==
  /\ ll \in Seq(CacheKeys)
  /\ items \in [CacheKeys -> Pages \cup {Nothing}]
  /\ hot \in CacheKeys \cup {Nothing}

\* The inductive invariant of the cache.
CacheInv == CacheTypeOK /\ CacheConsistent /\ HotInFront

\* The part of the cache a step may leave alone keeps the invariant.
LEMMA CacheUnchanged == CacheInv /\ UNCHANGED cacheVars => CacheInv'
  BY DEF CacheInv, CacheTypeOK, CacheConsistent, HotInFront, cacheVars

\* A key the map holds has a place in the list.
LEMMA PositionOf ==
  ASSUME CacheInv, NEW k \in CacheKeys, items[k] # Nothing
  PROVE  Position(k) \in 1..Len(ll) /\ ll[Position(k)] = k
  BY DEF CacheInv, CacheConsistent, Position

\* MoveToFront permutes the list and puts the key first (cache.go, Get and Set).
LEMMA MoveToFrontPermutes ==
  ASSUME CacheInv, NEW k \in CacheKeys, items[k] # Nothing
  PROVE  /\ MoveToFront(k) \in Seq(CacheKeys)
         /\ Len(MoveToFront(k)) = Len(ll)
         /\ Len(ll) > 0 /\ MoveToFront(k)[1] = k
         /\ \A i, j \in 1..Len(ll) : MoveToFront(k)[i] = MoveToFront(k)[j] => i = j
         /\ \A x \in CacheKeys : (\E i \in 1..Len(ll) : MoveToFront(k)[i] = x)
                             <=> (\E i \in 1..Len(ll) : ll[i] = x)
  <1> DEFINE p == Position(k)
             m == MoveToFront(k)
             n == Len(ll)
  <1>1. p \in 1..n /\ ll[p] = k
    BY PositionOf
  <1>2. n \in Nat /\ \A i \in 1..n : ll[i] \in CacheKeys
    BY DEF CacheInv, CacheTypeOK
  <1>3. \A i \in 1..n : m[i] = IF i = 1 THEN k ELSE IF i <= p THEN ll[i - 1] ELSE ll[i]
    BY DEF MoveToFront
  <1>4. m \in Seq(CacheKeys) /\ Len(m) = n
    <2>1. m \in [1..n -> CacheKeys]
      BY <1>1, <1>2 DEF MoveToFront
    <2> HIDE DEF m
    <2>2. m \in Seq(CacheKeys)
      BY <1>2, <2>1
    <2> QED
      BY <1>2, <2>1, <2>2
  <1>5. \A i, j \in 1..n : ll[i] = ll[j] => i = j
    BY DEF CacheInv, CacheConsistent
  <1> HIDE DEF m, p, n
  <1>6. \A i, j \in 1..n : m[i] = m[j] => i = j
    BY <1>1, <1>2, <1>3, <1>5
  <1>7. ASSUME NEW x \in CacheKeys PROVE (\E i \in 1..n : m[i] = x) <=> (\E i \in 1..n : ll[i] = x)
    <2>1. ASSUME NEW i \in 1..n, m[i] = x PROVE \E j \in 1..n : ll[j] = x
      BY <2>1, <1>1, <1>2, <1>3
    <2>2. ASSUME NEW i \in 1..n, ll[i] = x PROVE \E j \in 1..n : m[j] = x
      <3>1. CASE i = p
        BY <3>1, <2>2, <1>1, <1>2, <1>3
      <3>2. CASE i < p
        <4>1. i + 1 \in 1..n /\ i + 1 # 1 /\ i + 1 <= p /\ (i + 1) - 1 = i
          BY <3>2, <1>1, <1>2
        <4> QED
          BY <4>1, <2>2, <1>3
      <3>3. CASE i > p
        BY <3>3, <2>2, <1>1, <1>2, <1>3
      <3> QED
        BY <3>1, <3>2, <3>3, <1>1, <1>2
    <2> QED
      BY <2>1, <2>2
  <1> QED
    BY <1>1, <1>2, <1>3, <1>4, <1>6, <1>7 DEF m, n

\* A lookup that hits keeps the cache consistent.
LEMMA HitKeeps ==
  ASSUME CacheInv, NEW k \in CacheKeys, Hit(k)
  PROVE  CacheInv'
  <1>1. /\ ll' = MoveToFront(k) /\ items' = items /\ hot' = k /\ items[k] # Nothing
    BY DEF Hit
  <1>2. CacheTypeOK'
    BY <1>1, MoveToFrontPermutes DEF CacheInv, CacheTypeOK
  <1>3. CacheConsistent'
    BY <1>1, MoveToFrontPermutes DEF CacheInv, CacheConsistent
  <1>4. HotInFront'
    BY <1>1, MoveToFrontPermutes DEF HotInFront
  <1> QED
    BY <1>2, <1>3, <1>4 DEF CacheInv

\* Storing a page keeps the cache consistent, whether the key was there, the
\* cache had room, or the back of the list had to leave (cache.go, Set, evict).
LEMMA SetKeeps ==
  ASSUME CacheInv, NEW k \in CacheKeys, NEW page \in Pages, Set(k, page)
  PROVE  CacheInv'
  <1> USE CacheAssumption
  <1>1. CASE Capacity <= 0
    BY <1>1, CacheUnchanged DEF Set
  <1>2. CASE Capacity > 0 /\ items[k] # Nothing
    <2>1. ll' = MoveToFront(k) /\ items' = [items EXCEPT ![k] = page] /\ hot' = k
      BY <1>2 DEF Set, Update
    <2>2. CacheTypeOK'
      BY <1>2, <2>1, MoveToFrontPermutes DEF CacheInv, CacheTypeOK
    <2>3. \A x \in CacheKeys : items'[x] # Nothing <=> items[x] # Nothing
      BY <1>2, <2>1 DEF CacheInv, CacheTypeOK
    <2>4. CacheConsistent'
      <3>1. Len(ll') = Len(ll) /\ Len(ll) \in Nat
        BY <1>2, <2>1, MoveToFrontPermutes DEF CacheInv, CacheTypeOK
      <3>2. \A x \in CacheKeys : items'[x] # Nothing <=> \E i \in 1..Len(ll) : ll'[i] = x
        BY <1>2, <2>1, <2>3, MoveToFrontPermutes DEF CacheInv, CacheConsistent
      <3>3. \A i, j \in 1..Len(ll) : ll'[i] = ll'[j] => i = j
        BY <1>2, <2>1, MoveToFrontPermutes
      <3> QED
        BY <3>1, <3>2, <3>3 DEF CacheInv, CacheConsistent
    <2>5. HotInFront'
      BY <1>2, <2>1, MoveToFrontPermutes DEF HotInFront
    <2> QED
      BY <2>2, <2>4, <2>5 DEF CacheInv
  <1>3. CASE Capacity > 0 /\ items[k] = Nothing
    <2> DEFINE n == Len(ll)
               q == PushFront(k)
    <2>1. n \in Nat /\ \A i \in 1..n : ll[i] \in CacheKeys /\ ll[i] # k
      BY <1>3 DEF CacheInv, CacheTypeOK, CacheConsistent
    <2>2. /\ q \in Seq(CacheKeys) /\ Len(q) = n + 1 /\ q[1] = k
          /\ \A i \in 2..(n + 1) : q[i] = ll[i - 1]
      BY <2>1 DEF CacheInv, CacheTypeOK, PushFront
    <2>3. \A i, j \in 1..n : ll[i] = ll[j] => i = j
      BY DEF CacheInv, CacheConsistent
    <2>4. \A i \in 1..n : i + 1 \in 2..(n + 1) /\ q[i + 1] = ll[i]
      BY <2>1, <2>2
    <2>5. n <= Capacity /\ hot' = k
      BY <1>3 DEF CacheInv, CacheConsistent, Set
    <2>6. \A x \in CacheKeys : items[x] # Nothing <=> \E i \in 1..n : ll[i] = x
      BY DEF CacheInv, CacheConsistent
    <2>7. items \in [CacheKeys -> Pages \cup {Nothing}]
      BY DEF CacheInv, CacheTypeOK
    <2>8. CASE n + 1 <= Capacity
      <3>1. ll' = q /\ items' = [items EXCEPT ![k] = page]
        BY <1>3, <2>1, <2>8 DEF Set, Insert
      <3> HIDE DEF q, n
      <3>2. CacheTypeOK'
        BY <3>1, <2>2, <2>5, <2>7 DEF CacheTypeOK
      <3>3. \A i, j \in 1..(n + 1) : q[i] = q[j] => i = j
        BY <2>1, <2>2, <2>3
      <3>4. ASSUME NEW x \in CacheKeys PROVE items'[x] # Nothing <=> \E i \in 1..(n + 1) : q[i] = x
        <4>1. CASE x = k
          BY <4>1, <3>1, <2>1, <2>2, <2>7
        <4>2. CASE x # k
          <5>1. items'[x] = items[x]
            BY <4>2, <3>1, <2>7
          <5>2. (\E i \in 1..(n + 1) : q[i] = x) <=> \E i \in 1..n : ll[i] = x
            <6>1. ASSUME NEW i \in 1..(n + 1), q[i] = x PROVE i - 1 \in 1..n /\ ll[i - 1] = x
              BY <6>1, <4>2, <2>1, <2>2
            <6>2. ASSUME NEW i \in 1..n, ll[i] = x PROVE i + 1 \in 1..(n + 1) /\ q[i + 1] = x
              BY <6>2, <2>1, <2>4
            <6> QED
              BY <6>1, <6>2
          <5> QED
            BY <5>1, <5>2, <2>6
        <4> QED
          BY <4>1, <4>2
      <3>5. Len(ll') = n + 1 /\ n + 1 <= IF Capacity <= 0 THEN 0 ELSE Capacity
        BY <3>1, <2>1, <2>2, <2>8, <1>3
      <3>6. CacheConsistent'
        BY <3>1, <3>3, <3>4, <3>5 DEF CacheConsistent
      <3>7. HotInFront'
        BY <3>1, <3>5, <2>1, <2>2, <2>5 DEF HotInFront
      <3> QED
        BY <3>2, <3>6, <3>7 DEF CacheInv
    <2>9. CASE n + 1 > Capacity
      <3>1. ll' = SubSeq(q, 1, n)
        BY <1>3, <2>1, <2>9 DEF Set, Insert, Evict
      <3>2. items' = [items EXCEPT ![k] = page, ![q[n + 1]] = Nothing]
        BY <1>3, <2>1, <2>9 DEF Set, Insert, Evict
      <3>3. n > 0 /\ n <= Capacity
        BY <1>3, <2>1, <2>5, <2>9
      <3> HIDE DEF q, n
      <3>4. q[n + 1] = ll[n] /\ ll[n] \in CacheKeys /\ ll[n] # k
        BY <3>3, <2>1, <2>4
      <3>5. ll' \in Seq(CacheKeys) /\ Len(ll') = n /\ \A i \in 1..n : ll'[i] = q[i]
        BY <3>1, <2>1, <2>2
      <3>6. CacheTypeOK'
        BY <3>2, <3>4, <3>5, <2>5, <2>7 DEF CacheTypeOK
      <3>7. \A i, j \in 1..n : q[i] = q[j] => i = j
        BY <2>1, <2>2, <2>3
      <3>8. ASSUME NEW x \in CacheKeys PROVE items'[x] # Nothing <=> \E i \in 1..n : q[i] = x
        <4>1. CASE x = k
          BY <4>1, <3>2, <3>3, <3>4, <2>1, <2>2, <2>7
        <4>2. CASE x = ll[n]
          <5>1. items'[x] = Nothing
            BY <4>2, <3>2, <3>4, <2>7
          <5>2. ASSUME NEW i \in 1..n, q[i] = x PROVE FALSE
            <6>1. CASE i = 1
              BY <6>1, <5>2, <4>2, <3>4, <2>2
            <6>2. CASE i # 1
              <7>1. i - 1 \in 1..n /\ i \in 2..(n + 1) /\ n \in 1..n /\ i - 1 # n
                BY <6>2, <3>3, <2>1
              <7> QED
                BY <7>1, <5>2, <4>2, <2>2, <2>3
            <6> QED
              BY <6>1, <6>2
          <5> QED
            BY <5>1, <5>2
        <4>3. CASE x # k /\ x # ll[n]
          <5>1. items'[x] = items[x]
            BY <4>3, <3>2, <3>4, <2>7
          <5>2. (\E i \in 1..n : q[i] = x) <=> \E i \in 1..n : ll[i] = x
            <6>1. ASSUME NEW i \in 1..n, q[i] = x PROVE i - 1 \in 1..n /\ ll[i - 1] = x
              BY <6>1, <4>3, <2>1, <2>2
            <6>2. ASSUME NEW i \in 1..n, ll[i] = x PROVE i + 1 \in 1..n /\ q[i + 1] = x
              BY <6>2, <4>3, <2>1, <2>4
            <6> QED
              BY <6>1, <6>2
          <5> QED
            BY <5>1, <5>2, <2>6
        <4> QED
          BY <4>1, <4>2, <4>3
      <3>9. CacheConsistent' /\ HotInFront'
        BY <3>3, <3>5, <3>7, <3>8, <2>1, <2>2, <2>5, <1>3 DEF CacheConsistent, HotInFront
      <3> QED
        BY <3>6, <3>9 DEF CacheInv
    <2> QED
      BY <2>1, <2>8, <2>9
  <1> QED
    BY <1>1, <1>2, <1>3

\* What the inductive argument needs to know of the flights: what a cache entry,
\* a flight or a channel holds belongs to its key, only a flight in the group has
\* a result or anyone in it, and who is in it waits for its key or has left.
FlightInv ==
  /\ \A k \in CacheKeys : items[k] \in {PageOf[k], Nothing}
  /\ \A k \in CacheKeys : result[k] \in {PageOf[k], Nothing} \cup Failures
  /\ \A c \in Callers : inbox[c] \in {PageOf[key[c]], Nothing} \cup Failures
  /\ \A k \in CacheKeys : \A c \in joined[k] : key[c] = k /\ pc[c] \in {"waiting", "returned"}
  /\ \A k \in CacheKeys : stored[k] => result[k] # Nothing
  /\ \A k \in CacheKeys : result[k] # Nothing \/ joined[k] # {} => owner[k] # NoFlight

\* The inductive invariant of the loader.
LoaderInv ==
  /\ LoaderTypeOK /\ CacheInv
  /\ FlightInv
  /\ RightPage /\ NobodyForgotten

\* The cache is empty and nobody has called Get at first.
LEMMA LoaderInvInit == Init => LoaderInv
  <1> SUFFICES ASSUME Init PROVE LoaderInv
    OBVIOUS
  <1> USE CacheAssumption, LoaderAssumption DEF Init, NewLRUCache
  <1>1. LoaderTypeOK
    BY DEF LoaderTypeOK
  <1>2. CacheInv
    BY DEF CacheInv, CacheTypeOK, CacheConsistent, HotInFront
  <1>3. FlightInv
    BY DEF FlightInv
  <1>4. RightPage /\ NobodyForgotten
    BY DEF RightPage, NobodyForgotten
  <1> QED
    BY <1>1, <1>2, <1>3, <1>4 DEF LoaderInv

\* Every step of a caller or a flight keeps the invariant.
LEMMA LoaderInvNext == LoaderInv /\ [Next]_vars => LoaderInv'
  <1> SUFFICES ASSUME LoaderInv, [Next]_vars PROVE LoaderInv'
    OBVIOUS
  <1> USE CacheAssumption, LoaderAssumption DEF Failures, flightVars
  <1>0. CacheInv'
    <2>1. ASSUME NEW c \in Callers, Lookup(c) PROVE CacheInv'
      BY <2>1, HitKeeps, CacheUnchanged DEF Lookup, Miss, LoaderInv, LoaderTypeOK
    <2>2. ASSUME NEW k \in CacheKeys, Store(k) PROVE CacheInv'
      BY <2>2, SetKeeps, CacheUnchanged DEF Store, LoaderInv, LoaderTypeOK
    <2>3. ASSUME UNCHANGED cacheVars PROVE CacheInv'
      BY <2>3, CacheUnchanged DEF LoaderInv
    <2> QED
      BY <2>1, <2>2, <2>3 DEF Next, Get, vars, DoChan, GiveUp, Receive, EndContext, Again,
         LoadReturns, Deliver
  <1>1. ASSUME NEW c \in Callers, Lookup(c) PROVE LoaderInv'
    <2>1. items' = items
      BY <1>1 DEF Lookup, Hit, Miss, cacheVars
    <2>2. LoaderTypeOK'
      <3>1. ll' \in Seq(CacheKeys)
        BY <1>0 DEF CacheInv, CacheTypeOK
      <3>2. answer' \in [Callers -> Pages \cup Failures \cup {"ctx", Nothing}]
        <4>1. items[key[c]] \in Pages \cup {Nothing}
          BY DEF LoaderInv, LoaderTypeOK
        <4>2. answer' = answer \/ answer' = [answer EXCEPT ![c] = items[key[c]]]
          BY <1>1 DEF Lookup, Return
        <4> QED
          BY <4>1, <4>2 DEF LoaderInv, LoaderTypeOK
      <3> QED
        BY <1>1, <2>1, <3>1, <3>2 DEF Lookup, Return, LoaderInv, LoaderTypeOK
    <2>3. FlightInv'
      BY <1>1, <2>1 DEF Lookup, Return, LoaderInv, LoaderTypeOK, FlightInv
    <2>4. RightPage'
      BY <1>1, <2>1 DEF Lookup, Return, LoaderInv, LoaderTypeOK, FlightInv, RightPage
    <2>5. NobodyForgotten'
      BY <1>1, <2>1 DEF Lookup, Return, LoaderInv, LoaderTypeOK, NobodyForgotten
    <2> QED
      BY <1>0, <2>2, <2>3, <2>4, <2>5 DEF LoaderInv
  <1>2. ASSUME NEW c \in Callers, DoChan(c) PROVE LoaderInv'
    <2>1. LoaderTypeOK'
      BY <1>2 DEF DoChan, LoaderInv, LoaderTypeOK, cacheVars
    <2>2. FlightInv'
      BY <1>2 DEF DoChan, LoaderInv, LoaderTypeOK, FlightInv, cacheVars
    <2>3. RightPage'
      BY <1>2 DEF DoChan, LoaderInv, RightPage
    <2>4. NobodyForgotten'
      BY <1>2 DEF DoChan, LoaderInv, LoaderTypeOK, NobodyForgotten
    <2> QED
      BY <1>0, <2>1, <2>2, <2>3, <2>4 DEF LoaderInv
  <1>3. ASSUME NEW k \in CacheKeys, LoadReturns(k) PROVE LoaderInv'
    <2>1. LoaderTypeOK'
      BY <1>3 DEF LoadReturns, LoaderInv, LoaderTypeOK, cacheVars
    <2>2. FlightInv'
      BY <1>3 DEF LoadReturns, LoaderInv, LoaderTypeOK, FlightInv, cacheVars
    <2>3. RightPage' /\ NobodyForgotten'
      BY <1>3 DEF LoadReturns, LoaderInv, RightPage, NobodyForgotten
    <2> QED
      BY <1>0, <2>1, <2>2, <2>3 DEF LoaderInv
  <1>4. ASSUME NEW k \in CacheKeys, Store(k) PROVE LoaderInv'
    <2>1. \A x \in CacheKeys : items'[x] \in {PageOf[x], Nothing}
      BY <1>4 DEF Store, LoaderInv, LoaderTypeOK, FlightInv, Set, Update, Insert, Evict, cacheVars
    <2>2. LoaderTypeOK'
      BY <1>0, <1>4 DEF Store, LoaderInv, LoaderTypeOK, CacheInv, CacheTypeOK
    <2>3. FlightInv'
      BY <1>4, <2>1 DEF Store, LoaderInv, LoaderTypeOK, FlightInv
    <2>4. RightPage' /\ NobodyForgotten'
      BY <1>4 DEF Store, LoaderInv, RightPage, NobodyForgotten
    <2> QED
      BY <1>0, <2>2, <2>3, <2>4 DEF LoaderInv
  <1>5. ASSUME NEW k \in CacheKeys, Deliver(k) PROVE LoaderInv'
    <2>1. LoaderTypeOK'
      BY <1>5 DEF Deliver, LoaderInv, LoaderTypeOK, cacheVars
    <2>2. FlightInv'
      BY <1>5 DEF Deliver, LoaderInv, LoaderTypeOK, FlightInv, cacheVars
    <2>3. RightPage'
      BY <1>5 DEF Deliver, LoaderInv, RightPage
    <2>4. NobodyForgotten'
      BY <1>5 DEF Deliver, LoaderInv, LoaderTypeOK, FlightInv, NobodyForgotten
    <2> QED
      BY <1>0, <2>1, <2>2, <2>3, <2>4 DEF LoaderInv
  <1>6. ASSUME NEW c \in Callers, GiveUp(c) \/ Receive(c) PROVE LoaderInv'
    <2>1. LoaderTypeOK'
      BY <1>6 DEF GiveUp, Receive, Return, LoaderInv, LoaderTypeOK, cacheVars
    <2>2. FlightInv'
      <3>1. pc' = [pc EXCEPT ![c] = "returned"]
        BY <1>6 DEF GiveUp, Receive, Return
      <3>2. UNCHANGED <<items, key, inbox, owner, result, stored, joined>>
        BY <1>6 DEF GiveUp, Receive, cacheVars
      <3> QED
        BY <3>1, <3>2 DEF LoaderInv, LoaderTypeOK, FlightInv
    <2>3. RightPage'
      BY <1>6 DEF GiveUp, Receive, Return, LoaderInv, LoaderTypeOK, FlightInv, RightPage
    <2>4. NobodyForgotten'
      BY <1>6 DEF GiveUp, Receive, Return, LoaderInv, LoaderTypeOK, NobodyForgotten
    <2> QED
      BY <1>0, <2>1, <2>2, <2>3, <2>4 DEF LoaderInv
  <1>7. ASSUME NEW c \in Callers, EndContext(c) PROVE LoaderInv'
    BY <1>0, <1>7 DEF EndContext, LoaderInv, LoaderTypeOK, FlightInv, RightPage, NobodyForgotten,
       cacheVars
  <1>8. ASSUME NEW c \in Callers, Again(c) PROVE LoaderInv'
    <2>1. LoaderTypeOK'
      BY <1>8 DEF Again, LoaderInv, LoaderTypeOK, cacheVars
    <2>2. FlightInv'
      BY <1>8 DEF Again, LoaderInv, LoaderTypeOK, FlightInv, cacheVars
    <2>3. RightPage'
      BY <1>8 DEF Again, LoaderInv, LoaderTypeOK, RightPage
    <2>4. NobodyForgotten'
      BY <1>8 DEF Again, LoaderInv, LoaderTypeOK, NobodyForgotten
    <2> QED
      BY <1>0, <2>1, <2>2, <2>3, <2>4 DEF LoaderInv
  <1>9. CASE UNCHANGED vars
    BY <1>0, <1>9 DEF vars, LoaderInv, LoaderTypeOK, FlightInv, RightPage, NobodyForgotten, cacheVars
  <1> QED
    BY <1>1, <1>2, <1>3, <1>4, <1>5, <1>6, <1>7, <1>8, <1>9 DEF Next, Get

\* The loader's variables keep their types and its inductive invariant holds.
THEOREM LoaderCorrect == Spec => []LoaderInv
  BY LoaderInvInit, LoaderInvNext, PTL DEF Spec

\* The list and the map of the cache hold the same keys, each once, and never
\* more than the capacity, whatever callers and flights do (cache.go, Set, evict).
THEOREM CacheStaysConsistent == Spec => []CacheConsistent
  <1>1. LoaderInv => CacheConsistent
    BY DEF LoaderInv, CacheInv
  <1> QED
    BY <1>1, LoaderCorrect, PTL

\* A Get never returns the page of another key (cache.go, Loader.Get).
THEOREM PagesAreRight == Spec => []RightPage
  <1>1. LoaderInv => RightPage
    BY DEF LoaderInv
  <1> QED
    BY <1>1, LoaderCorrect, PTL

\* No caller waits for a flight that has left the group without answering it
\* (cache.go, DoChan and the end of a flight).
THEOREM NobodyIsForgotten == Spec => []NobodyForgotten
  <1>1. LoaderInv => NobodyForgotten
    BY DEF LoaderInv
  <1> QED
    BY <1>1, LoaderCorrect, PTL

\* With room for two, the key used last is never the one evicted (cache.go, evict).
THEOREM HotKeyIsSafe == Spec => HotKeyStays
  <1>1. ASSUME LoaderInv, [Next]_vars
        PROVE  [Capacity >= 2 /\ hot # Nothing => items'[hot] # Nothing]_cacheVars
    <2> SUFFICES ASSUME Capacity >= 2, hot # Nothing PROVE items'[hot] # Nothing
      OBVIOUS
    <2> USE CacheAssumption, LoaderAssumption
    <2>1. hot \in CacheKeys /\ Len(ll) \in Nat /\ 1 \in 1..Len(ll) /\ ll[1] = hot
          /\ items[hot] # Nothing
      BY <1>1 DEF LoaderInv, CacheInv, CacheTypeOK, HotInFront, CacheConsistent
    <2>2. ASSUME items' = items PROVE items'[hot] # Nothing
      BY <2>1, <2>2
    <2>3. ASSUME NEW k \in CacheKeys, Store(k) PROVE items'[hot] # Nothing
      <3>1. CASE items' = items
        BY <3>1, <2>2
      <3>2. CASE items' # items
        <4>1. Set(k, result[k]) /\ result[k] \in Pages
          BY <1>1, <2>3, <3>2 DEF Store, LoaderInv, LoaderTypeOK, cacheVars
        <4>2. CASE items' = [items EXCEPT ![k] = result[k]]
          BY <4>1, <4>2, <2>1, <1>1 DEF LoaderInv, LoaderTypeOK
        <4>3. CASE items[k] = Nothing /\ Len(ll) + 1 > Capacity /\ Evict(k, result[k])
          <5>0. Len(ll) + 1 > Capacity /\ Capacity >= 2 /\ Len(ll) \in Nat
            BY <4>3, <2>1
          <5>1. Len(ll) \in 1..Len(ll) /\ Len(ll) # 1
            BY <5>0
          <5>2. PushFront(k)[Len(ll) + 1] = ll[Len(ll)]
            BY <5>1, <2>1, <1>1 DEF PushFront, LoaderInv, LoaderTypeOK
          <5>3. ll[Len(ll)] # hot /\ ll[Len(ll)] \in CacheKeys
            <6>1. ll[Len(ll)] = ll[1] => Len(ll) = 1
              BY <5>1, <2>1, <1>1 DEF LoaderInv, CacheInv, CacheConsistent
            <6>2. ll[Len(ll)] \in CacheKeys
              BY <5>1, <1>1 DEF LoaderInv, LoaderTypeOK
            <6> QED
              BY <6>1, <6>2, <5>1, <2>1
          <5>4. items' = [items EXCEPT ![k] = result[k], ![ll[Len(ll)]] = Nothing]
            BY <4>3, <5>2 DEF Evict
          <5> QED
            BY <5>3, <5>4, <4>1, <2>1, <1>1 DEF LoaderInv, LoaderTypeOK
        <4> QED
          BY <4>1, <4>2, <4>3, <3>2 DEF Set, Update, Insert, cacheVars
      <3> QED
        BY <3>1, <3>2
    <2> QED
      BY <1>1, <2>2, <2>3 DEF Next, Get, vars, cacheVars, Lookup, Hit, Miss, DoChan, GiveUp,
         Receive, EndContext, Again, LoadReturns, Deliver
  <1> QED
    BY <1>1, LoaderCorrect, PTL DEF Spec, HotKeyStays
=============================================================================
