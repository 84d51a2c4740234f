------------------------------ MODULE LRUCache ------------------------------
(***************************************************************************)
(* The result cache of serve/cache.go: a list of keys, most recently used  *)
(* first, and a map of items.  Every method holds c.mu, so each is a step. *)
(***************************************************************************)
EXTENDS Integers, Sequences

CONSTANTS
  CacheKeys, Pages,
  Capacity,  \* may be zero or negative: such a cache stores nothing
  Nothing    \* no item

ASSUME CacheAssumption == Capacity \in Int /\ Nothing \notin Pages

VARIABLES
  ll,    \* the list, as its keys
  items, \* key -> the page its list element holds, or Nothing
  hot    \* history: the key last found by Get or written by Set

cacheVars == <<ll, items, hot>>

NewLRUCache ==
  /\ ll = <<>>
  /\ items = [k \in CacheKeys |-> Nothing]
  /\ hot = Nothing

\* Where the list element of a key is.
Position(key) == CHOOSE i \in 1..Len(ll) : ll[i] = key

\* The list after MoveToFront: the elements before the key's move back by one.
MoveToFront(key) ==
  [i \in 1..Len(ll) |-> IF i = 1 THEN key
                        ELSE IF i <= Position(key) THEN ll[i - 1] ELSE ll[i]]

PushFront(key) == <<key>> \o ll

\* A slip: a hit leaves the list as it is.
HitNoMove(key) ==
  /\ items[key] # Nothing
  /\ hot' = key
  /\ UNCHANGED <<ll, items>>

\* Get, when it finds the key.
Hit(key) ==
  /\ items[key] # Nothing
  /\ ll' = MoveToFront(key)
  /\ hot' = key
  /\ UNCHANGED items

Miss(key) == items[key] = Nothing /\ UNCHANGED cacheVars

\* A slip: the evicted element stays in the map.
EvictListOnly(key, page) ==
  /\ ll' = SubSeq(PushFront(key), 1, Len(ll))
  /\ items' = [items EXCEPT ![key] = page]

\* PushFront of a key, and evict: the back of the list leaves.
Evict(key, page) ==
  /\ ll' = SubSeq(PushFront(key), 1, Len(ll))
  /\ items' = [items EXCEPT ![key] = page, ![PushFront(key)[Len(ll) + 1]] = Nothing]

Update(key, page) == ll' = MoveToFront(key) /\ items' = [items EXCEPT ![key] = page]

Insert(key, page) ==
  IF Len(ll) + 1 > Capacity THEN Evict(key, page)
  ELSE ll' = PushFront(key) /\ items' = [items EXCEPT ![key] = page]

Set(key, page) ==
  IF Capacity <= 0 THEN UNCHANGED cacheVars
  ELSE /\ IF items[key] # Nothing THEN Update(key, page) ELSE Insert(key, page)
       /\ hot' = key

-----------------------------------------------------------------------------
\* The list and the map hold the same keys, each once, and never more of them
\* than the capacity (cache.go, Set and evict).
CacheConsistent ==
  /\ \A k \in CacheKeys : items[k] # Nothing <=> \E i \in 1..Len(ll) : ll[i] = k
  /\ \A i, j \in 1..Len(ll) : ll[i] = ll[j] => i = j
  /\ Len(ll) <= IF Capacity <= 0 THEN 0 ELSE Capacity

\* With room for two, the key used last survives the next Set (cache.go: the
\* least recently used entry is the one that is evicted).
HotKeyStays ==
  [][Capacity >= 2 /\ hot # Nothing => items'[hot] # Nothing]_cacheVars
=============================================================================
