------------------------------ MODULE MemStore ------------------------------
(***************************************************************************)
(* The in-process coordination store of control/store.go: a key/value map  *)
(* whose keys may be attached to leases, and whose changes are fanned out  *)
(* to watchers through bounded channels.                                   *)
(*                                                                         *)
(* Every method of MemStore holds m.mu from start to end, so each one is   *)
(* one step here.  The exception is the end of a lease: the loop of expire *)
(* deletes the lease's keys one by one with the lock held, and a watcher   *)
(* may receive from its channel (which takes no lock) between two of these *)
(* deletions.  That loop is the variable dying; while it is not empty the  *)
(* lock is taken and every other method waits (Idle).                      *)
(*                                                                         *)
(* Abstractions.  A key is a pair <<prefix, name>>.  The key list of a     *)
(* lease is a set: appendUnique keeps it duplicate free, and its order     *)
(* only decides in which order an ending lease deletes its keys, which the *)
(* model leaves open.  A map entry that is missing is Absent (kv), NoLease *)
(* (leaseOf) or {} (keysOf), which is what the code's lookups return.      *)
(***************************************************************************)
EXTENDS Naturals, Sequences

CONSTANTS
  Nodes,       \* the node ids
  Roles,       \* the singleton roles that elect a leader
  Shards,      \* the shards of the routing table
  MaxLeases,   \* bound: how many leases are ever granted
  Watchers,    \* the callers of Watch, one channel each at a time
  WatchPrefix, \* the prefix each of them watches
  BufCap,      \* capacity of a watch channel, 64 in the code
  Values,      \* what can be stored: node ids and the texts of replica sets
  Absent       \* no value

Leases  == 1..MaxLeases
NoLease == 0

LeaderKey(role) == <<"leader", role>>
NodeKey(id)     == <<"node", id>>
RouteKey(shard) == <<"route", shard>>

Keys == {LeaderKey(r) : r \in Roles} \cup {NodeKey(n) : n \in Nodes}
          \cup {RouteKey(s) : s \in Shards}

Prefix(key) == key[1]
Prefixes == {"leader", "node", "route"}

Events == [type : {"put"}, key : Keys, value : Values]
            \cup [type : {"delete"}, key : Keys, value : {Absent}]

ASSUME StoreAssumption ==
  /\ MaxLeases \in Nat
  /\ BufCap \in Nat \ {0}
  /\ WatchPrefix \in [Watchers -> Prefixes]
  /\ Absent \notin Values

VARIABLES
  kv,        \* key -> value, or Absent
  leaseOf,   \* key -> the lease it is attached to, or NoLease
  keysOf,    \* lease -> the keys attached to it
  nextLid,   \* the next lease id Grant hands out
  watchers,  \* the registered watchers
  buf,       \* watcher -> the events queued in its channel
  chan,      \* watcher -> "none", "open", "cancelled" (its context has ended
             \* but its goroutine has not run yet) or "closed"
  dying,     \* keys the running expire loop still has to visit
  dyingLease,\* the lease that loop is ending
  ended,     \* history: the leases revoked or expired
  revived,   \* history: the ended leases a key was attached to afterwards
  lost       \* history: the watchers that missed an event on a full channel

storeVars == <<kv, leaseOf, keysOf, nextLid, watchers, buf, chan, dying,
               dyingLease, ended, revived, lost>>

leaseVars == <<nextLid, dying, dyingLease, ended>>
watchVars == <<watchers, chan>>

\* The lock is free: no expire loop is in progress.
Idle == dying = {}

Granted == 1..(nextLid - 1)
Live    == Granted \ ended

-----------------------------------------------------------------------------
PutEvent(key, value) == [type |-> "put", key |-> key, value |-> value]

DeleteEvent(key) == [type |-> "delete", key |-> key, value |-> Absent]

Matches(w, e) == w \in watchers /\ WatchPrefix[w] = Prefix(e.key)

\* Every registered watcher of the key's prefix gets the event, unless its
\* channel is full: then the select's default branch drops it.
fan(e) ==
  /\ buf' = [w \in Watchers |->
               IF Matches(w, e) /\ Len(buf[w]) < BufCap
               THEN Append(buf[w], e) ELSE buf[w]]
  /\ lost' = lost \cup {w \in Watchers : Matches(w, e) /\ Len(buf[w]) >= BufCap}

\* detach takes the key out of the list of the lease it names.
detach(key) ==
  [l \in Leases |-> IF l = leaseOf[key] THEN keysOf[l] \ {key} ELSE keysOf[l]]

\* Nothing checks that the lease a key is attached to is still alive.
Revive(lease) == revived' = IF lease \in ended THEN revived \cup {lease} ELSE revived

\* A slip: a key that already has a lease keeps it.
PutKeepsLease(key, value, lease) ==
  /\ Idle
  /\ kv' = [kv EXCEPT ![key] = value]
  /\ IF lease = NoLease \/ leaseOf[key] # NoLease
     THEN UNCHANGED <<leaseOf, keysOf, revived>>
     ELSE /\ leaseOf' = [leaseOf EXCEPT ![key] = lease]
          /\ keysOf' = [keysOf EXCEPT ![lease] = @ \cup {key}]
          /\ Revive(lease)
  /\ fan(PutEvent(key, value))
  /\ UNCHANGED <<leaseVars, watchVars>>

\* A slip: deleting tells nobody.
DelSilently(key) ==
  /\ kv' = [kv EXCEPT ![key] = Absent]
  /\ leaseOf' = [leaseOf EXCEPT ![key] = NoLease]
  /\ keysOf' = detach(key)
  /\ UNCHANGED <<buf, lost>>

\* Removing an absent key does nothing at all; otherwise the key leaves its
\* lease and the deletion is fanned out.
del(key) ==
  IF kv[key] = Absent
  THEN UNCHANGED <<kv, leaseOf, keysOf, buf, lost>>
  ELSE /\ kv' = [kv EXCEPT ![key] = Absent]
       /\ leaseOf' = [leaseOf EXCEPT ![key] = NoLease]
       /\ keysOf' = detach(key)
       /\ fan(DeleteEvent(key))

-----------------------------------------------------------------------------
NewMemStore ==
  /\ kv = [k \in Keys |-> Absent]
  /\ leaseOf = [k \in Keys |-> NoLease]
  /\ keysOf = [l \in Leases |-> {}]
  /\ nextLid = 1
  /\ watchers = {}
  /\ buf = [w \in Watchers |-> <<>>]
  /\ chan = [w \in Watchers |-> "none"]
  /\ dying = {}
  /\ dyingLease = NoLease
  /\ ended = {}
  /\ revived = {}
  /\ lost = {}

\* A key put under another lease moves to it; with lease 0 it keeps the one
\* it may have.
Put(key, value, lease) ==
  /\ Idle
  /\ kv' = [kv EXCEPT ![key] = value]
  /\ IF lease = NoLease THEN UNCHANGED <<leaseOf, keysOf, revived>>
     ELSE /\ leaseOf' = [leaseOf EXCEPT ![key] = lease]
          /\ keysOf' = [detach(key) EXCEPT ![lease] = @ \cup {key}]
          /\ Revive(lease)
  /\ fan(PutEvent(key, value))
  /\ UNCHANGED <<leaseVars, watchVars>>

\* The claim that succeeds.  A Create that finds the key returns false and
\* changes nothing; see CreateFails.
Create(key, value, lease) ==
  /\ Idle
  /\ kv[key] = Absent
  /\ kv' = [kv EXCEPT ![key] = value]
  /\ IF lease = NoLease THEN UNCHANGED <<leaseOf, keysOf, revived>>
     ELSE /\ leaseOf' = [leaseOf EXCEPT ![key] = lease]
          /\ keysOf' = [keysOf EXCEPT ![lease] = @ \cup {key}]
          /\ Revive(lease)
  /\ fan(PutEvent(key, value))
  /\ UNCHANGED <<leaseVars, watchVars>>

CreateFails(key) ==
  /\ Idle
  /\ kv[key] # Absent
  /\ UNCHANGED storeVars

Delete(key) ==
  /\ Idle
  /\ del(key)
  /\ UNCHANGED <<leaseVars, watchVars, revived>>

\* The pairs under a prefix.
List(prefix) == [k \in {x \in Keys : Prefix(x) = prefix /\ kv[x] # Absent} |-> kv[k]]

Grant ==
  /\ Idle
  /\ nextLid \in Leases                   \* bound: MaxLeases
  /\ nextLid' = nextLid + 1
  /\ keysOf' = [keysOf EXCEPT ![nextLid] = {}]
  /\ UNCHANGED <<kv, leaseOf, buf, lost, revived, dying, dyingLease, ended, watchVars>>

\* Revoke and Expire: the lease's list is taken and forgotten, then the loop
\* below runs with the lock held.
expire(lease) ==
  /\ Idle
  /\ dying' = keysOf[lease]
  /\ dyingLease' = lease
  /\ keysOf' = [keysOf EXCEPT ![lease] = {}]
  /\ ended' = ended \cup {lease}
  /\ revived' = revived \ {lease}
  /\ UNCHANGED <<kv, leaseOf, nextLid, buf, lost, watchVars>>

\* A slip: the loop stops after its first key.
ExpireFirstOnly(key) ==
  /\ key \in dying
  /\ dying' = {}
  /\ IF leaseOf[key] = dyingLease THEN del(key)
     ELSE UNCHANGED <<kv, leaseOf, keysOf, buf, lost>>
  /\ UNCHANGED <<nextLid, dyingLease, ended, revived, watchVars>>

\* One iteration of the loop.
ExpireKey(key) ==
  /\ key \in dying
  /\ dying' = dying \ {key}
  /\ IF leaseOf[key] = dyingLease THEN del(key)
     ELSE UNCHANGED <<kv, leaseOf, keysOf, buf, lost>>
  /\ UNCHANGED <<nextLid, dyingLease, ended, revived, watchVars>>

\* A caller watches with a fresh, empty channel.
Watch(w) ==
  /\ Idle
  /\ chan[w] \in {"none", "closed"}
  /\ watchers' = watchers \cup {w}
  /\ chan' = [chan EXCEPT ![w] = "open"]
  /\ buf' = [buf EXCEPT ![w] = <<>>]
  /\ lost' = lost \ {w}
  /\ UNCHANGED <<kv, leaseOf, keysOf, revived, leaseVars>>

\* The watcher's context ends.  This takes no lock.
Cancel(w) ==
  /\ chan[w] = "open"
  /\ chan' = [chan EXCEPT ![w] = "cancelled"]
  /\ UNCHANGED <<kv, leaseOf, keysOf, revived, leaseVars, watchers, buf, lost>>

\* A slip: the channel is closed and the watcher stays registered.
DropNoUnregister(w) ==
  /\ Idle
  /\ chan[w] = "cancelled"
  /\ chan' = [chan EXCEPT ![w] = "closed"]
  /\ UNCHANGED <<kv, leaseOf, keysOf, revived, leaseVars, watchers, buf, lost>>

\* The goroutine Watch started: unregister and close, under the lock.
dropWatcher(w) ==
  /\ Idle
  /\ chan[w] = "cancelled"
  /\ watchers' = watchers \ {w}
  /\ chan' = [chan EXCEPT ![w] = "closed"]
  /\ UNCHANGED <<kv, leaseOf, keysOf, revived, leaseVars, buf, lost>>

\* The watcher receives the oldest queued event, also from a closed channel.
Recv(w) ==
  /\ buf[w] # <<>>
  /\ buf' = [buf EXCEPT ![w] = Tail(@)]
  /\ UNCHANGED <<kv, leaseOf, keysOf, revived, leaseVars, watchers, chan, lost>>

-----------------------------------------------------------------------------
\* The store under any caller that uses leases it was granted.
StoreNext ==
  \/ \E k \in Keys, v \in Values, l \in Granted \cup {NoLease} :
        Put(k, v, l) \/ Create(k, v, l)
  \/ \E k \in Keys : Delete(k) \/ ExpireKey(k)
  \/ Grant
  \/ \E l \in Granted : expire(l)
  \/ \E w \in Watchers : Watch(w) \/ Cancel(w) \/ dropWatcher(w) \/ Recv(w)

StoreSpec == NewMemStore /\ [][StoreNext]_storeVars

-----------------------------------------------------------------------------
StoreTypeOK ==
  /\ kv \in [Keys -> Values \cup {Absent}]
  /\ leaseOf \in [Keys -> Leases \cup {NoLease}]
  /\ keysOf \in [Leases -> SUBSET Keys]
  /\ nextLid \in 1..(MaxLeases + 1)
  /\ watchers \in SUBSET Watchers
  /\ buf \in [Watchers -> Seq(Events)]
  /\ chan \in [Watchers -> {"none", "open", "cancelled", "closed"}]
  /\ dying \in SUBSET Keys
  /\ dyingLease \in Leases \cup {NoLease}
  /\ ended \in SUBSET Leases
  /\ revived \in SUBSET Leases
  /\ lost \in SUBSET Watchers

\* The two lease maps of the store (store.go, leaseOf and keysOf) describe the
\* same attachment: a key is in a lease's list exactly when it names that lease,
\* save for the keys of the lease whose expire loop is running; and only a
\* present key is attached.  Put's re-attachment, del and expire all have to
\* keep both maps in step.
AttachmentConsistent ==
  \A k \in Keys :
    /\ \A l \in Leases :
         k \in keysOf[l] <=> leaseOf[k] = l /\ ~(l = dyingLease /\ k \in dying)
    /\ leaseOf[k] # NoLease => kv[k] # Absent
    /\ k \in dying => leaseOf[k] = dyingLease

\* Once a lease has been revoked or has expired (store.go, expire) no key is
\* left that was attached to it, except the ones its loop has yet to visit and
\* keys attached to it after its end.
EndedLeaseOwnsNothing ==
  \A l \in ended \ revived, k \in Keys :
    leaseOf[k] = l => k \in dying /\ l = dyingLease

\* The channel of a registered watcher is not closed: fan would panic sending on
\* a closed channel (store.go, Watch's goroutine against fan).  And a channel
\* never holds more than its capacity, so fan never blocks under the lock.
SendIsSafe ==
  \A w \in Watchers :
    /\ w \in watchers <=> chan[w] \in {"open", "cancelled"}
    /\ Len(buf[w]) <= BufCap

\* What an event says of its key.
Says(e) == IF e.type = "put" THEN e.value ELSE Absent

\* The position of the newest event on key in a queue, if there is one.
IsNewest(q, key, i) ==
  i \in 1..Len(q) /\ q[i].key = key /\ \A j \in (i + 1)..Len(q) : q[j].key # key

\* A registered watcher that has lost no event has, as the newest queued event
\* of every key, the key's present value: nothing changes a key without telling
\* it, and nothing is told out of order (store.go, fan).
QueueIsCurrent ==
  \A w \in watchers \ lost : \A k \in Keys :
    \A i \in 1..Len(buf[w]) : IsNewest(buf[w], k, i) => Says(buf[w][i]) = kv[k]
=============================================================================
