---------------------------- MODULE ControlProofs ----------------------------
(***************************************************************************)
(* The control plane, from the bottom up.  First what the coordination     *)
(* store guarantees to every caller, for any sets of keys, values and      *)
(* watchers, any number of leases and any channel size.  Then membership   *)
(* and election, for any number of nodes and roles: that they use the      *)
(* store only through its operations, so that what holds of the store      *)
(* holds here, and what they promise themselves.  The promises of election *)
(* need callers that stop calling once their lease is gone                 *)
(* (CautiousCallers).  Last the control loop, for any number of shards,    *)
(* controllers and routers: placement, the texts of replica sets, what a   *)
(* router's map tells, and what a waiting controller has done.             *)
(***************************************************************************)
EXTENDS ControlPlane, FiniteSetTheorems, TLAPS

-----------------------------------------------------------------------------
(***************************************************************************)
(* The store.                                                              *)
(***************************************************************************)

\* Bookkeeping the inductive argument needs beside the invariants themselves:
\* only granted leases are in use, and an expire loop belongs to a lease that
\* has just ended.
LeaseBookkeeping ==
  /\ \A k \in Keys : leaseOf[k] \in Granted \cup {NoLease}
  /\ ended \subseteq Granted
  /\ dying # {} => dyingLease \in ended \ revived

\* The inductive invariant of the lease maps.
LeaseInv ==
  /\ StoreTypeOK
  /\ LeaseBookkeeping
  /\ AttachmentConsistent
  /\ EndedLeaseOwnsNothing

\* Fanning an event out changes only the channels, and keeps their type.
LEMMA FanType ==
  ASSUME StoreTypeOK, NEW e \in Events, fan(e)
  PROVE  /\ buf' \in [Watchers -> Seq(Events)]
         /\ lost' \in SUBSET Watchers
  BY DEF StoreTypeOK, fan

\* Put and Delete tell watchers of proper events.
LEMMA EventTypes ==
  ASSUME NEW k \in Keys, NEW v \in Values
  PROVE  PutEvent(k, v) \in Events /\ DeleteEvent(k) \in Events
  BY DEF PutEvent, DeleteEvent, Events

\* The store starts in a state of the invariant.
LEMMA LeaseInvInit == NewMemStore => LeaseInv
  BY StoreAssumption DEF NewMemStore, LeaseInv, StoreTypeOK, LeaseBookkeeping, AttachmentConsistent,
     EndedLeaseOwnsNothing, Granted, Leases, NoLease

\* Every step of the store keeps the lease maps in step with each other.
LEMMA LeaseInvNext == LeaseInv /\ [StoreNext]_storeVars => LeaseInv'
  <1> SUFFICES ASSUME LeaseInv, [StoreNext]_storeVars PROVE LeaseInv'
    OBVIOUS
  <1> USE StoreAssumption DEF Leases, NoLease, Granted, Idle, leaseVars, watchVars
  <1>1. ASSUME NEW k \in Keys, NEW v \in Values, NEW l \in Granted \cup {NoLease}, Put(k, v, l)
        PROVE  LeaseInv'
    <2>1. StoreTypeOK'
      <3>1. buf' \in [Watchers -> Seq(Events)] /\ lost' \in SUBSET Watchers
        BY <1>1, FanType, EventTypes DEF Put, LeaseInv
      <3>2. kv' \in [Keys -> Values \cup {Absent}]
        BY <1>1 DEF Put, LeaseInv, StoreTypeOK
      <3>3. leaseOf' \in [Keys -> Leases \cup {NoLease}]
        BY <1>1 DEF Put, LeaseInv, StoreTypeOK
      <3>4. keysOf' \in [Leases -> SUBSET Keys]
        <4>1. detach(k) \in [Leases -> SUBSET Keys]
          BY DEF LeaseInv, StoreTypeOK, detach
        <4>2. CASE l = NoLease
          BY <1>1, <4>2 DEF Put, LeaseInv, StoreTypeOK
        <4>3. CASE l # NoLease
          <5>1. keysOf' = [detach(k) EXCEPT ![l] = @ \cup {k}] /\ l \in Leases
            BY <1>1, <4>3 DEF Put, LeaseInv, StoreTypeOK
          <5>2. detach(k)[l] \cup {k} \in SUBSET Keys
            BY <4>1, <5>1
          <5> QED
            BY <4>1, <5>1, <5>2
        <4>4. QED
          BY <4>2, <4>3
      <3>5. revived' \in SUBSET Leases
        BY <1>1 DEF Put, LeaseInv, StoreTypeOK, Revive
      <3>6. QED
        BY <1>1, <3>1, <3>2, <3>3, <3>4, <3>5 DEF Put, LeaseInv, StoreTypeOK
    <2>2. LeaseBookkeeping'
      BY <1>1 DEF Put, LeaseInv, StoreTypeOK, LeaseBookkeeping, Revive
    <2>3. AttachmentConsistent'
      <3>1. CASE l = NoLease
        BY <1>1, <3>1 DEF Put, LeaseInv, StoreTypeOK, AttachmentConsistent
      <3>2. CASE l # NoLease
        <4>1. /\ leaseOf' = [leaseOf EXCEPT ![k] = l]
              /\ keysOf' = [x \in Leases |->
                   IF x = l THEN keysOf[x] \cup {k}
                   ELSE IF x = leaseOf[k] THEN keysOf[x] \ {k} ELSE keysOf[x]]
              /\ dying = {} /\ dying' = {} /\ kv' = [kv EXCEPT ![k] = v]
          <5>1. /\ leaseOf' = [leaseOf EXCEPT ![k] = l] /\ l \in Leases
                /\ keysOf' = [detach(k) EXCEPT ![l] = @ \cup {k}]
                /\ dying = {} /\ dying' = {} /\ kv' = [kv EXCEPT ![k] = v]
            BY <1>1, <3>2 DEF Put, Idle, leaseVars, LeaseInv, StoreTypeOK
          <5>2. detach(k) = [x \in Leases |->
                              IF x = leaseOf[k] THEN keysOf[x] \ {k} ELSE keysOf[x]]
            BY DEF detach, LeaseInv, StoreTypeOK
          <5>3. (keysOf[l] \ {k}) \cup {k} = keysOf[l] \cup {k}
            OBVIOUS
          <5>4. detach(k)[l] \cup {k} = keysOf[l] \cup {k}
            BY <5>1, <5>2, <5>3
          <5>5. keysOf' = [x \in Leases |-> IF x = l THEN detach(k)[l] \cup {k} ELSE detach(k)[x]]
            BY <5>1, <5>2
          <5>6. keysOf' = [x \in Leases |->
                   IF x = l THEN keysOf[x] \cup {k}
                   ELSE IF x = leaseOf[k] THEN keysOf[x] \ {k} ELSE keysOf[x]]
            BY <5>2, <5>4, <5>5
          <5>7. QED
            BY <5>1, <5>6
        <4>2. QED
          BY <4>1, <3>2 DEF LeaseInv, StoreTypeOK, AttachmentConsistent
      <3>3. QED
        BY <3>1, <3>2
    <2>4. EndedLeaseOwnsNothing'
      BY <1>1 DEF Put, LeaseInv, StoreTypeOK, EndedLeaseOwnsNothing, Revive
    <2>5. QED
      BY <2>1, <2>2, <2>3, <2>4 DEF LeaseInv
  <1>2. ASSUME NEW k \in Keys, NEW v \in Values, NEW l \in Granted \cup {NoLease}, Create(k, v, l)
        PROVE  LeaseInv'
    <2>1. StoreTypeOK'
      <3>1. buf' \in [Watchers -> Seq(Events)] /\ lost' \in SUBSET Watchers
        BY <1>2, FanType, EventTypes DEF Create, LeaseInv
      <3>2. leaseOf' \in [Keys -> Leases \cup {NoLease}]
        BY <1>2 DEF Create, LeaseInv, StoreTypeOK
      <3>3. keysOf' \in [Leases -> SUBSET Keys]
        BY <1>2 DEF Create, LeaseInv, StoreTypeOK
      <3>4. revived' \in SUBSET Leases
        BY <1>2 DEF Create, LeaseInv, StoreTypeOK, Revive
      <3>5. QED
        BY <1>2, <3>1, <3>2, <3>3, <3>4 DEF Create, LeaseInv, StoreTypeOK
    <2>2. LeaseBookkeeping'
      BY <1>2 DEF Create, LeaseInv, StoreTypeOK, LeaseBookkeeping, Revive
    <2>3. AttachmentConsistent'
      BY <1>2, Absent \notin Values DEF Create, LeaseInv, StoreTypeOK, AttachmentConsistent
    <2>4. EndedLeaseOwnsNothing'
      BY <1>2 DEF Create, LeaseInv, StoreTypeOK, EndedLeaseOwnsNothing, Revive
    <2>5. QED
      BY <2>1, <2>2, <2>3, <2>4 DEF LeaseInv
  <1>3. ASSUME NEW k \in Keys, Delete(k) PROVE LeaseInv'
    <2>1. CASE kv[k] = Absent
      <3>1. UNCHANGED storeVars
        BY <1>3, <2>1 DEF Delete, del, storeVars
      <3>2. QED
        BY <3>1 DEF LeaseInv, StoreTypeOK, LeaseBookkeeping, AttachmentConsistent,
           EndedLeaseOwnsNothing, storeVars
    <2>2. CASE kv[k] # Absent
      <3>0. kv' = [kv EXCEPT ![k] = Absent] /\ leaseOf' = [leaseOf EXCEPT ![k] = NoLease]
              /\ keysOf' = detach(k) /\ fan(DeleteEvent(k)) /\ Idle
              /\ UNCHANGED <<leaseVars, watchVars, revived>>
        BY <1>3, <2>2 DEF Delete, del
      <3>1. StoreTypeOK'
        <4>1. buf' \in [Watchers -> Seq(Events)] /\ lost' \in SUBSET Watchers
          BY <3>0, FanType DEF LeaseInv, DeleteEvent, Events
        <4>2. QED
          BY <3>0, <4>1 DEF LeaseInv, StoreTypeOK, detach
      <3>2. LeaseBookkeeping'
        BY <3>0 DEF LeaseInv, StoreTypeOK, LeaseBookkeeping
      <3>3. AttachmentConsistent'
        BY <3>0 DEF LeaseInv, StoreTypeOK, AttachmentConsistent, detach
      <3>4. EndedLeaseOwnsNothing'
        BY <3>0 DEF LeaseInv, StoreTypeOK, EndedLeaseOwnsNothing
      <3>5. QED
        BY <3>1, <3>2, <3>3, <3>4 DEF LeaseInv
    <2>3. QED
      BY <2>1, <2>2
  <1>4. ASSUME NEW k \in Keys, ExpireKey(k) PROVE LeaseInv'
    <2>1. k \in dying /\ leaseOf[k] = dyingLease /\ dyingLease \in Leases /\ kv[k] # Absent
      BY <1>4 DEF ExpireKey, LeaseInv, StoreTypeOK, LeaseBookkeeping, AttachmentConsistent
    <2>2. /\ kv' = [kv EXCEPT ![k] = Absent] /\ leaseOf' = [leaseOf EXCEPT ![k] = NoLease]
          /\ keysOf' = detach(k) /\ fan(DeleteEvent(k)) /\ dying' = dying \ {k}
          /\ UNCHANGED <<nextLid, dyingLease, ended, revived, watchVars>>
      BY <1>4, <2>1 DEF ExpireKey, del
    <2>3. StoreTypeOK'
      <3>1. buf' \in [Watchers -> Seq(Events)] /\ lost' \in SUBSET Watchers
        BY <2>2, FanType DEF LeaseInv, DeleteEvent, Events
      <3>2. QED
        BY <2>2, <3>1 DEF LeaseInv, StoreTypeOK, detach
    <2>4. LeaseBookkeeping'
      BY <2>1, <2>2 DEF LeaseInv, StoreTypeOK, LeaseBookkeeping
    <2>5. AttachmentConsistent'
      BY <2>1, <2>2 DEF LeaseInv, StoreTypeOK, AttachmentConsistent, detach
    <2>6. EndedLeaseOwnsNothing'
      BY <2>1, <2>2 DEF LeaseInv, StoreTypeOK, EndedLeaseOwnsNothing, LeaseBookkeeping
    <2>7. QED
      BY <2>3, <2>4, <2>5, <2>6 DEF LeaseInv
  <1>5. ASSUME Grant PROVE LeaseInv'
    <2>1. keysOf' = keysOf
      BY <1>5 DEF Grant, LeaseInv, StoreTypeOK, LeaseBookkeeping, AttachmentConsistent
    <2>2. StoreTypeOK' /\ LeaseBookkeeping'
      BY <1>5, <2>1 DEF Grant, LeaseInv, StoreTypeOK, LeaseBookkeeping
    <2>3. AttachmentConsistent' /\ EndedLeaseOwnsNothing'
      BY <1>5, <2>1 DEF Grant, LeaseInv, AttachmentConsistent, EndedLeaseOwnsNothing
    <2>4. QED
      BY <2>2, <2>3 DEF LeaseInv
  <1>6. ASSUME NEW l \in Granted, expire(l) PROVE LeaseInv'
    <2>1. StoreTypeOK'
      BY <1>6 DEF expire, LeaseInv, StoreTypeOK
    <2>2. LeaseBookkeeping'
      BY <1>6 DEF expire, LeaseInv, StoreTypeOK, LeaseBookkeeping
    <2>3. AttachmentConsistent'
      BY <1>6 DEF expire, LeaseInv, StoreTypeOK, AttachmentConsistent
    <2>4. EndedLeaseOwnsNothing'
      BY <1>6 DEF expire, LeaseInv, StoreTypeOK, EndedLeaseOwnsNothing, AttachmentConsistent
    <2>5. QED
      BY <2>1, <2>2, <2>3, <2>4 DEF LeaseInv
  <1>7. ASSUME NEW w \in Watchers, Watch(w) \/ Cancel(w) \/ dropWatcher(w) \/ Recv(w)
        PROVE  LeaseInv'
    <2>1. UNCHANGED <<kv, leaseOf, keysOf, revived, leaseVars>>
      BY <1>7 DEF Watch, Cancel, dropWatcher, Recv
    <2>2. StoreTypeOK'
      <3>1. buf' \in [Watchers -> Seq(Events)]
        <4>1. CASE Recv(w)
          <5>1. buf[w] \in Seq(Events) /\ buf[w] # <<>>
            BY <4>1 DEF Recv, LeaseInv, StoreTypeOK
          <5>2. Tail(buf[w]) \in Seq(Events)
            BY <5>1
          <5>3. QED
            BY <4>1, <5>2 DEF Recv, LeaseInv, StoreTypeOK
        <4>2. CASE ~Recv(w)
          <5>1. buf' = buf \/ buf' = [buf EXCEPT ![w] = <<>>]
            BY <1>7, <4>2 DEF Watch, Cancel, dropWatcher
          <5>2. <<>> \in Seq(Events)
            OBVIOUS
          <5>3. QED
            BY <5>1, <5>2 DEF LeaseInv, StoreTypeOK
        <4>3. QED
          BY <4>1, <4>2
      <3>2. /\ watchers' \in SUBSET Watchers /\ lost' \in SUBSET Watchers
            /\ chan' \in [Watchers -> {"none", "open", "cancelled", "closed"}]
        BY <1>7 DEF Watch, Cancel, dropWatcher, Recv, LeaseInv, StoreTypeOK
      <3>3. QED
        BY <2>1, <3>1, <3>2 DEF LeaseInv, StoreTypeOK
    <2>3. QED
      BY <2>1, <2>2 DEF LeaseInv, LeaseBookkeeping, AttachmentConsistent, EndedLeaseOwnsNothing
  <1>8. CASE UNCHANGED storeVars
    BY <1>8 DEF LeaseInv, StoreTypeOK, LeaseBookkeeping, AttachmentConsistent,
       EndedLeaseOwnsNothing, storeVars
  <1>9. QED
    BY <1>1, <1>2, <1>3, <1>4, <1>5, <1>6, <1>7, <1>8 DEF StoreNext

\* The store's values keep their types.
THEOREM StoreTypeCorrect == StoreSpec => []StoreTypeOK
  <1>1. LeaseInv => StoreTypeOK
    BY DEF LeaseInv
  <1>2. QED
    BY <1>1, LeaseInvInit, LeaseInvNext, PTL DEF StoreSpec

\* Whatever its callers do, leaseOf and keysOf agree.
THEOREM StoreAttachment == StoreSpec => []AttachmentConsistent
  <1>1. LeaseInv => AttachmentConsistent
    BY DEF LeaseInv
  <1>2. QED
    BY <1>1, LeaseInvInit, LeaseInvNext, PTL DEF StoreSpec

\* A lease that ends takes every key attached to it with it.
THEOREM StoreLeaseEnds == StoreSpec => []EndedLeaseOwnsNothing
  <1>1. LeaseInv => EndedLeaseOwnsNothing
    BY DEF LeaseInv
  <1>2. QED
    BY <1>1, LeaseInvInit, LeaseInvNext, PTL DEF StoreSpec
-----------------------------------------------------------------------------
(***************************************************************************)
(* The watch channels.  QueueIsCurrent needs to know that a channel holds  *)
(* only events of the prefix its watcher asked for.                        *)
(***************************************************************************)
QueueMatches ==
  \A w \in watchers : \A i \in 1..Len(buf[w]) : Prefix(buf[w][i].key) = WatchPrefix[w]

WatchInv == SendIsSafe /\ QueueMatches /\ QueueIsCurrent

\* One event more on a channel with room is the newest of its key, and leaves
\* the newest event of every other key where it was.
LEMMA AppendNewest ==
  ASSUME NEW S, NEW q \in Seq(S), NEW e \in S, NEW k, NEW i \in 1..Len(Append(q, e)),
         IsNewest(Append(q, e), k, i)
  PROVE  \/ i = Len(q) + 1 /\ k = e.key
         \/ k # e.key /\ i \in 1..Len(q) /\ Append(q, e)[i] = q[i] /\ IsNewest(q, k, i)
  <1>1. Len(Append(q, e)) = Len(q) + 1 /\ Append(q, e)[Len(q) + 1] = e
          /\ \A j \in 1..Len(q) : Append(q, e)[j] = q[j]
    OBVIOUS
  <1>2. Len(q) \in Nat
    OBVIOUS
  <1>3. CASE i = Len(q) + 1
    BY <1>1, <1>3 DEF IsNewest
  <1>4. CASE i \in 1..Len(q)
    <2>1. Len(q) + 1 \in (i + 1)..Len(Append(q, e))
      BY <1>1, <1>2, <1>4
    <2>2. e.key # k
      BY <1>1, <2>1 DEF IsNewest
    <2>3. IsNewest(q, k, i)
      BY <1>1, <1>2, <1>4 DEF IsNewest
    <2>4. QED
      BY <1>1, <1>4, <2>2, <2>3
  <1>5. QED
    BY <1>1, <1>2, <1>3, <1>4

\* A change of one key that is fanned out keeps the channels current.
LEMMA FanKeepsCurrent ==
  ASSUME StoreTypeOK, WatchInv, NEW e \in Events, fan(e),
         kv' = [kv EXCEPT ![e.key] = Says(e)], UNCHANGED watchVars
  PROVE  WatchInv'
  <1> USE StoreAssumption DEF watchVars
  <1>0. e.key \in Keys
    BY DEF Events
  <1>1. \A w \in Watchers : buf[w] \in Seq(Events) /\ Len(buf[w]) \in Nat
    BY DEF StoreTypeOK
  <1>2. \A w \in Watchers :
          \/ /\ Matches(w, e) /\ Len(buf[w]) < BufCap
             /\ buf'[w] = Append(buf[w], e) /\ Len(buf'[w]) = Len(buf[w]) + 1
          \/ buf'[w] = buf[w] /\ (Matches(w, e) => w \in lost')
    BY <1>1 DEF fan
  <1>3. watchers' = watchers /\ chan' = chan /\ watchers \subseteq Watchers /\ lost \subseteq lost'
    BY DEF fan, StoreTypeOK
  <1>4. SendIsSafe'
    BY <1>1, <1>2, <1>3 DEF SendIsSafe, WatchInv
  <1>5. QueueMatches'
    <2> SUFFICES ASSUME NEW w \in watchers, NEW i \in 1..Len(buf'[w])
                 PROVE  Prefix(buf'[w][i].key) = WatchPrefix[w]
      BY <1>3 DEF QueueMatches
    <2>1. CASE buf'[w] = buf[w]
      BY <2>1 DEF QueueMatches, WatchInv
    <2>2. CASE Matches(w, e) /\ buf'[w] = Append(buf[w], e)
      BY <1>1, <1>3, <2>2 DEF QueueMatches, WatchInv, Matches
    <2>3. QED
      BY <1>2, <1>3, <2>1, <2>2
  <1>6. QueueIsCurrent'
    <2> SUFFICES ASSUME NEW w \in watchers, w \notin lost', NEW k \in Keys,
                        NEW i \in 1..Len(buf'[w]), IsNewest(buf'[w], k, i)
                 PROVE  Says(buf'[w][i]) = kv'[k]
      BY <1>3 DEF QueueIsCurrent, IsNewest, Says
    <2>0. w \in Watchers /\ w \in watchers \ lost
      BY <1>3
    <2>1. CASE buf'[w] = buf[w] /\ ~Matches(w, e)
      <3>1. i \in 1..Len(buf[w]) /\ buf[w][i].key = k
        BY <2>1 DEF IsNewest
      <3>2. Prefix(k) = WatchPrefix[w]
        BY <3>1 DEF QueueMatches, WatchInv
      <3>3. k # e.key
        BY <2>1, <3>2 DEF Matches
      <3>4. kv'[k] = kv[k]
        BY <1>0, <3>3 DEF StoreTypeOK
      <3>5. Says(buf[w][i]) = kv[k]
        BY <2>0, <2>1, <3>1 DEF QueueIsCurrent, WatchInv
      <3>6. QED
        BY <2>1, <3>4, <3>5 DEF Says
    <2>2. CASE Matches(w, e) /\ buf'[w] = Append(buf[w], e)
      <3>1. \/ i = Len(buf[w]) + 1 /\ k = e.key
            \/ /\ k # e.key /\ i \in 1..Len(buf[w])
               /\ buf'[w][i] = buf[w][i] /\ IsNewest(buf[w], k, i)
        BY <1>1, <2>0, <2>2, AppendNewest
      <3>2. CASE i = Len(buf[w]) + 1 /\ k = e.key
        <4>1. buf'[w][i] = e
          BY <1>1, <2>0, <2>2, <3>2
        <4>2. kv'[k] = Says(e)
          BY <3>2 DEF StoreTypeOK
        <4>3. QED
          BY <4>1, <4>2 DEF Says
      <3>3. CASE k # e.key /\ i \in 1..Len(buf[w]) /\ buf'[w][i] = buf[w][i] /\ IsNewest(buf[w], k, i)
        <4>1. Says(buf[w][i]) = kv[k]
          BY <2>0, <3>3 DEF QueueIsCurrent, WatchInv
        <4>2. kv'[k] = kv[k]
          BY <1>0, <3>3 DEF StoreTypeOK
        <4>3. QED
          BY <3>3, <4>1, <4>2 DEF Says
      <3>4. QED
        BY <3>1, <3>2, <3>3
    <2>3. QED
      BY <1>2, <2>0, <2>1, <2>2
  <1>7. QED
    BY <1>4, <1>5, <1>6 DEF WatchInv

\* Receiving the oldest event leaves the newest ones of the rest in place.
LEMMA TailNewest ==
  ASSUME NEW S, NEW q \in Seq(S), q # <<>>, NEW k, NEW i \in 1..Len(Tail(q)),
         IsNewest(Tail(q), k, i)
  PROVE  i + 1 \in 1..Len(q) /\ Tail(q)[i] = q[i + 1] /\ IsNewest(q, k, i + 1)
  <1>1. Len(q) \in Nat /\ Len(Tail(q)) = Len(q) - 1
          /\ \A j \in 1..Len(Tail(q)) : Tail(q)[j] = q[j + 1]
    OBVIOUS
  <1>2. i + 1 \in 1..Len(q) /\ Tail(q)[i] = q[i + 1]
    BY <1>1
  <1>3. ASSUME NEW j \in (i + 1 + 1)..Len(q) PROVE q[j].key # k
    <2>1. j - 1 \in (i + 1)..Len(Tail(q)) /\ j - 1 \in 1..Len(Tail(q)) /\ (j - 1) + 1 = j
      BY <1>1, <1>3
    <2>2. Tail(q)[j - 1] = q[j]
      BY <1>1, <2>1
    <2>3. QED
      BY <2>1, <2>2 DEF IsNewest
  <1>4. QED
    BY <1>2, <1>3 DEF IsNewest

\* Every step keeps the channels safe and current.
LEMMA WatchInvNext == LeaseInv /\ WatchInv /\ [StoreNext]_storeVars => WatchInv'
  <1> SUFFICES ASSUME LeaseInv, WatchInv, [StoreNext]_storeVars PROVE WatchInv'
    OBVIOUS
  <1>0. StoreTypeOK
    BY DEF LeaseInv
  <1>1. ASSUME NEW k \in Keys, NEW v \in Values, fan(PutEvent(k, v)),
               kv' = [kv EXCEPT ![k] = v], UNCHANGED watchVars
        PROVE  WatchInv'
    <2>1. PutEvent(k, v) \in Events /\ PutEvent(k, v).key = k /\ Says(PutEvent(k, v)) = v
      BY EventTypes DEF PutEvent, Says
    <2>2. QED
      BY <1>0, <1>1, <2>1, FanKeepsCurrent
  <1>2. ASSUME NEW k \in Keys, del(k), UNCHANGED watchVars PROVE WatchInv'
    <2>1. CASE kv[k] = Absent
      BY <1>2, <2>1 DEF del, watchVars, WatchInv, SendIsSafe, QueueMatches, QueueIsCurrent,
         IsNewest, Says
    <2>2. CASE kv[k] # Absent
      <3>1. DeleteEvent(k) \in Events /\ DeleteEvent(k).key = k /\ Says(DeleteEvent(k)) = Absent
        BY DEF DeleteEvent, Says, Events
      <3>2. kv' = [kv EXCEPT ![k] = Absent] /\ fan(DeleteEvent(k))
        BY <1>2, <2>2 DEF del
      <3>3. QED
        BY <1>0, <1>2, <3>1, <3>2, FanKeepsCurrent
    <2>3. QED
      BY <2>1, <2>2
  <1>3. ASSUME UNCHANGED <<kv, watchers, chan, buf, lost>> PROVE WatchInv'
    BY <1>3 DEF WatchInv, SendIsSafe, QueueMatches, QueueIsCurrent, IsNewest, Says
  <1>4. ASSUME NEW w \in Watchers, Watch(w) \/ Cancel(w) \/ dropWatcher(w) PROVE WatchInv'
    <2>1. /\ kv' = kv /\ watchers' \subseteq watchers \cup {w} /\ lost \ {w} = lost' \ {w}
          /\ \A x \in Watchers \ {w} : buf'[x] = buf[x] /\ chan'[x] = chan[x]
                                       /\ (x \in watchers' <=> x \in watchers)
      BY <1>0, <1>4 DEF Watch, Cancel, dropWatcher, StoreTypeOK
    <2>2. \/ buf'[w] = <<>> /\ chan'[w] = "open" /\ w \in watchers'
          \/ /\ buf'[w] = buf[w] /\ lost' = lost /\ w \in watchers
             /\ chan'[w] \in {"cancelled", "closed"}
             /\ (w \in watchers' <=> chan'[w] = "cancelled")
      BY <1>0, <1>4 DEF Watch, Cancel, dropWatcher, StoreTypeOK, WatchInv, SendIsSafe
    <2>3. watchers' \subseteq Watchers
      BY <1>0, <2>1 DEF StoreTypeOK
    <2>4. SendIsSafe'
      BY <2>1, <2>2, StoreAssumption DEF WatchInv, SendIsSafe
    <2>5. QueueMatches'
      BY <2>1, <2>2, <2>3 DEF WatchInv, QueueMatches
    <2>6. QueueIsCurrent'
      BY <2>1, <2>2, <2>3 DEF WatchInv, QueueIsCurrent, IsNewest, Says
    <2>7. QED
      BY <2>4, <2>5, <2>6 DEF WatchInv
  <1>5. ASSUME NEW w \in Watchers, Recv(w) PROVE WatchInv'
    <2>1. /\ buf' = [buf EXCEPT ![w] = Tail(buf[w])] /\ buf[w] # <<>>
          /\ UNCHANGED <<kv, watchers, chan, lost>>
      BY <1>5 DEF Recv
    <2>2. \A x \in Watchers : buf[x] \in Seq(Events) /\ Len(buf[x]) \in Nat
      BY <1>0 DEF StoreTypeOK
    <2>3. /\ buf'[w] = Tail(buf[w]) /\ Len(buf'[w]) = Len(buf[w]) - 1
          /\ \A i \in 1..Len(buf'[w]) : buf'[w][i] = buf[w][i + 1] /\ i + 1 \in 1..Len(buf[w])
          /\ \A x \in Watchers \ {w} : buf'[x] = buf[x]
      BY <1>0, <2>1, <2>2 DEF StoreTypeOK
    <2>4. SendIsSafe'
      BY <2>1, <2>2, <2>3, StoreAssumption DEF WatchInv, SendIsSafe
    <2>5. QueueMatches'
      BY <1>0, <2>1, <2>3 DEF WatchInv, QueueMatches, StoreTypeOK
    <2>6. QueueIsCurrent'
      <3> SUFFICES ASSUME NEW x \in watchers \ lost, NEW k \in Keys, NEW i \in 1..Len(buf'[x]),
                          IsNewest(buf'[x], k, i)
                   PROVE  Says(buf'[x][i]) = kv[k]
        BY <2>1 DEF QueueIsCurrent, IsNewest, Says
      <3>1. CASE x = w
        <4>1. i + 1 \in 1..Len(buf[w]) /\ buf'[w][i] = buf[w][i + 1] /\ IsNewest(buf[w], k, i + 1)
          BY <2>1, <2>2, <2>3, <3>1, TailNewest
        <4>2. Says(buf[w][i + 1]) = kv[k]
          BY <3>1, <4>1 DEF QueueIsCurrent, WatchInv
        <4>3. QED
          BY <3>1, <4>1, <4>2 DEF Says
      <3>2. CASE x # w
        BY <1>0, <2>3, <3>2 DEF QueueIsCurrent, WatchInv, StoreTypeOK
      <3>3. QED
        BY <3>1, <3>2
    <2>7. QED
      BY <2>4, <2>5, <2>6 DEF WatchInv
  <1>6. ASSUME NEW k \in Keys, NEW v \in Values, NEW l \in Granted \cup {NoLease},
               Put(k, v, l) \/ Create(k, v, l)
        PROVE  WatchInv'
    BY <1>1, <1>6 DEF Put, Create
  <1>7. ASSUME NEW k \in Keys, Delete(k) \/ ExpireKey(k) PROVE WatchInv'
    BY <1>2, <1>3, <1>7 DEF Delete, ExpireKey, watchVars
  <1>8. ASSUME Grant \/ \E l \in Granted : expire(l) PROVE WatchInv'
    BY <1>3, <1>8 DEF Grant, expire, watchVars
  <1>9. QED
    BY <1>3, <1>4, <1>5, <1>6, <1>7, <1>8 DEF StoreNext, storeVars

\* Nobody watches a new store.
LEMMA WatchInvInit == NewMemStore => WatchInv
  BY StoreAssumption DEF NewMemStore, WatchInv, SendIsSafe, QueueMatches, QueueIsCurrent

\* No send ever meets a closed channel or has to wait for room.
THEOREM StoreSendsSafely == StoreSpec => []SendIsSafe
  <1>1. WatchInv => SendIsSafe
    BY DEF WatchInv
  <1>2. QED
    BY <1>1, LeaseInvInit, LeaseInvNext, WatchInvInit, WatchInvNext, PTL DEF StoreSpec

\* A watcher that lost nothing is told the truth about every key.
THEOREM StoreQueuesCurrent == StoreSpec => []QueueIsCurrent
  <1>1. WatchInv => QueueIsCurrent
    BY DEF WatchInv
  <1>2. QED
    BY <1>1, LeaseInvInit, LeaseInvNext, WatchInvInit, WatchInvNext, PTL DEF StoreSpec
-----------------------------------------------------------------------------
(***************************************************************************)
(* What a watcher is told by a step that is not its own receive or Watch.  *)
(***************************************************************************)
Queued(q, k) == \E i \in 1..Len(q) : q[i].key = k

\* Its channel does not reopen, what was queued or lost stays so, and a key of
\* its prefix that changes leaves it with something to receive: the key's event,
\* unless that one was dropped on a full channel.
Told(w) ==
  /\ chan'[w] = "open" => chan[w] = "open"
  /\ w \in lost => w \in lost'
  /\ buf[w] # <<>> => buf'[w] # <<>>
  /\ \A k \in Keys : Queued(buf[w], k) => Queued(buf'[w], k)
  /\ w \in watchers => \A k \in Keys : kv'[k] # kv[k] /\ Prefix(k) = WatchPrefix[w] =>
       buf'[w] # <<>> /\ (w \in lost' \/ Queued(buf'[w], k))

\* A fanned-out event reaches its watchers, or finds their channels full.
LEMMA FanTells ==
  ASSUME StoreTypeOK, NEW e \in Events, fan(e), NEW w \in Watchers, chan' = chan,
         \A k \in Keys : kv'[k] # kv[k] => k = e.key
  PROVE  Told(w)
  <1> USE StoreAssumption
  <1>1. buf[w] \in Seq(Events) /\ Len(buf[w]) \in Nat
    BY DEF StoreTypeOK
  <1>2. CASE Matches(w, e) /\ Len(buf[w]) < BufCap
    <2>1. buf'[w] = Append(buf[w], e)
      BY <1>2 DEF fan
    <2>2. /\ Len(buf'[w]) = Len(buf[w]) + 1 /\ buf'[w][Len(buf[w]) + 1] = e
          /\ \A i \in 1..Len(buf[w]) : buf'[w][i] = buf[w][i]
      BY <1>1, <2>1
    <2>3. buf'[w] # <<>> /\ Queued(buf'[w], e.key)
      BY <1>1, <2>2 DEF Queued
    <2>4. \A k \in Keys : Queued(buf[w], k) => Queued(buf'[w], k)
      BY <1>1, <2>2 DEF Queued
    <2> QED
      BY <2>3, <2>4 DEF Told, fan
  <1>3. CASE ~(Matches(w, e) /\ Len(buf[w]) < BufCap)
    <2>1. buf'[w] = buf[w]
      BY <1>3 DEF fan
    <2>2. Matches(w, e) => w \in lost' /\ buf[w] # <<>>
      BY <1>1, <1>3 DEF fan
    <2>3. w \in watchers /\ Prefix(e.key) = WatchPrefix[w] => Matches(w, e)
      BY DEF Matches
    <2> QED
      BY <2>1, <2>2, <2>3 DEF Told, fan
  <1> QED
    BY <1>2, <1>3

\* Every step of the store tells a watcher what it has to, unless it is the
\* watcher's own receive or its own Watch.
LEMMA StoreTells ==
  ASSUME LeaseInv, NEW w \in Watchers
  PROVE  /\ \A k \in Keys, v \in Values, l \in Granted \cup {NoLease} : Put(k, v, l) => Told(w)
         /\ \A k \in Keys : ExpireKey(k) => Told(w)
         /\ Grant => Told(w)
         /\ \A l \in Granted : expire(l) => Told(w)
         /\ \A x \in Watchers : Cancel(x) \/ dropWatcher(x) => Told(w)
         /\ \A x \in Watchers \ {w} : Watch(x) \/ Recv(x) => Told(w)
         /\ UNCHANGED storeVars => Told(w)
  <1>0. StoreTypeOK
    BY DEF LeaseInv
  <1>1. ASSUME NEW k \in Keys, NEW v \in Values, NEW l \in Granted \cup {NoLease}, Put(k, v, l)
        PROVE  Told(w)
    <2>1. PutEvent(k, v) \in Events /\ PutEvent(k, v).key = k
      BY EventTypes DEF PutEvent
    <2>2. \A x \in Keys : kv'[x] # kv[x] => x = k
      BY <1>0, <1>1 DEF Put, StoreTypeOK
    <2> QED
      BY <1>0, <1>1, <2>1, <2>2, FanTells DEF Put, watchVars
  <1>2. ASSUME UNCHANGED <<kv, watchers, buf, lost>>, chan'[w] = "open" => chan[w] = "open"
        PROVE  Told(w)
    BY <1>2 DEF Told
  <1>3. ASSUME NEW k \in Keys, ExpireKey(k) PROVE Told(w)
    <2>1. CASE UNCHANGED <<kv, buf, lost>>
      BY <1>2, <1>3, <2>1 DEF ExpireKey, watchVars
    <2>2. CASE ~UNCHANGED <<kv, buf, lost>>
      <3>1. kv' = [kv EXCEPT ![k] = Absent] /\ fan(DeleteEvent(k)) /\ chan' = chan
        BY <1>3, <2>2 DEF ExpireKey, del, watchVars
      <3>2. DeleteEvent(k) \in Events /\ DeleteEvent(k).key = k
        BY DEF DeleteEvent, Events
      <3>3. \A x \in Keys : kv'[x] # kv[x] => x = k
        BY <1>0, <3>1 DEF StoreTypeOK
      <3> QED
        BY <1>0, <3>1, <3>2, <3>3, FanTells
    <2> QED
      BY <2>1, <2>2
  <1>4. ASSUME Grant \/ \E l \in Granted : expire(l) PROVE Told(w)
    BY <1>2, <1>4 DEF Grant, expire, watchVars
  <1>5. ASSUME NEW x \in Watchers, Cancel(x) \/ dropWatcher(x) PROVE Told(w)
    BY <1>0, <1>5 DEF Cancel, dropWatcher, Told, StoreTypeOK
  <1>6. ASSUME NEW x \in Watchers \ {w}, Watch(x) \/ Recv(x) PROVE Told(w)
    BY <1>0, <1>6 DEF Watch, Recv, Told, StoreTypeOK
  <1>7. ASSUME UNCHANGED storeVars PROVE Told(w)
    BY <1>2, <1>7 DEF storeVars
  <1> QED
    BY <1>1, <1>3, <1>4, <1>5, <1>6, <1>7

-----------------------------------------------------------------------------
(***************************************************************************)
(* Membership and election.                                                *)
(***************************************************************************)

CallerTypeOK ==
  /\ lease \in [Nodes -> Leases \cup {NoLease}]
  /\ registered \in [Nodes -> BOOLEAN]
  /\ won \in [Nodes -> SUBSET Roles]

\* Nodes work under granted leases, and no two under the same one.
LeasesDistinct ==
  /\ \A n \in Nodes : lease[n] \in Granted \cup {NoLease}
  /\ \A m, n \in Nodes : lease[m] = lease[n] /\ lease[m] # NoLease => m = n

CallerInv == LeaseInv /\ CallerTypeOK /\ LeasesDistinct

\* The keys of roles and of nodes are keys of the store, and no two of them coincide.
LEMMA KeysDistinct ==
  /\ \A r \in Roles : LeaderKey(r) \in Keys
  /\ \A n \in Nodes : NodeKey(n) \in Keys
  /\ \A q, r \in Roles : LeaderKey(q) = LeaderKey(r) => q = r
  /\ \A m, n \in Nodes : NodeKey(m) = NodeKey(n) => m = n
  /\ \A r \in Roles, n \in Nodes : LeaderKey(r) # NodeKey(n)
  BY DEF Keys, LeaderKey, NodeKey

\* Every step of a caller is a step of the store, or leaves it alone.
LEMMA CallerStepIsStoreStep ==
  ASSUME CallerInv, [Next]_vars
  PROVE  [StoreNext]_storeVars
  <1> USE KeysDistinct, ElectionAssumption
  <1>1. ASSUME NEW n \in Nodes, Start(n) PROVE StoreNext
    BY <1>1 DEF Start, StoreNext
  <1>2. ASSUME NEW n \in Nodes, MayCall(n) PROVE lease[n] \in Granted /\ n \in Values
    BY <1>2 DEF MayCall, CallerInv, LeasesDistinct
  <1>3. ASSUME NEW n \in Nodes, Register(n) PROVE StoreNext
    <2>1. Put(NodeKey(n), n, lease[n]) /\ lease[n] \in Granted \cup {NoLease} /\ n \in Values
      BY <1>2, <1>3 DEF Register
    <2>2. QED
      BY <2>1 DEF StoreNext
  <1>4. ASSUME NEW n \in Nodes, NEW r \in Roles, Campaign(n, r) PROVE StoreNext
    <2>1. Create(LeaderKey(r), n, lease[n]) /\ lease[n] \in Granted \cup {NoLease} /\ n \in Values
      BY <1>2, <1>4 DEF Campaign
    <2>2. QED
      BY <2>1 DEF StoreNext
  <1>5. ASSUME NEW n \in Nodes, NEW r \in Roles, CampaignLost(n, r) PROVE UNCHANGED storeVars
    BY <1>5 DEF CampaignLost, CreateFails
  <1>6. ASSUME NEW n \in Nodes, NEW r \in Roles, Resign(n, r) PROVE StoreNext
    BY <1>6 DEF Resign, StoreNext
  <1>7. ASSUME NEW n \in Nodes, StepDown(n) PROVE UNCHANGED storeVars
    BY <1>7 DEF StepDown
  <1>8. ASSUME NEW n \in Nodes, Leave(n) PROVE StoreNext
    <2>1. lease[n] \in Granted /\ expire(lease[n])
      BY <1>8 DEF Leave, CallerInv, LeasesDistinct
    <2>2. QED
      BY <2>1 DEF StoreNext
  <1>9. ASSUME NEW l \in Leases, Timeout(l) PROVE StoreNext
    BY <1>9 DEF Timeout, StoreNext, Live
  <1>10. ASSUME ExpireLoop PROVE StoreNext
    BY <1>10 DEF ExpireLoop, StoreNext
  <1>11. ASSUME NEW w \in Watchers, Observe(w) PROVE StoreNext
    BY <1>11 DEF Observe, StoreNext
  <1>12. ASSUME UNCHANGED vars PROVE UNCHANGED storeVars
    BY <1>12 DEF vars
  <1>13. QED
    BY <1>1, <1>3, <1>4, <1>5, <1>6, <1>7, <1>8, <1>9, <1>10, <1>11, <1>12 DEF Next

\* No node holds a lease at first.
LEMMA CallerInvInit == Init => CallerInv
  BY LeaseInvInit DEF Init, CallerInv, CallerTypeOK, LeasesDistinct, Leases

\* No step hands one lease to two nodes, and the store keeps its own invariant.
LEMMA CallerInvNext == CallerInv /\ [Next]_vars => CallerInv'
  <1> SUFFICES ASSUME CallerInv, [Next]_vars PROVE CallerInv'
    OBVIOUS
  <1>1. LeaseInv'
    BY CallerStepIsStoreStep, LeaseInvNext DEF CallerInv
  <1>2. CallerTypeOK'
    BY DEF CallerInv, CallerTypeOK, Next, Start, Register, Campaign, CampaignLost, Resign,
       StepDown, Leave, Timeout, ExpireLoop, Observe, callerVars, vars, Grant
  <1>3. LeasesDistinct'
    <2>1. ASSUME NEW n \in Nodes, Start(n) PROVE LeasesDistinct'
      BY <2>1, StoreAssumption DEF Start, Grant, CallerInv, CallerTypeOK, LeasesDistinct, Granted,
         Leases, NoLease
    <2>2. ASSUME NEW n \in Nodes, Leave(n) PROVE LeasesDistinct'
      BY <2>2 DEF Leave, expire, CallerInv, CallerTypeOK, LeasesDistinct, Granted
    <2>3. ASSUME UNCHANGED <<lease, nextLid>> PROVE LeasesDistinct'
      BY <2>3 DEF CallerInv, LeasesDistinct, Granted
    <2>4. QED
      BY <2>1, <2>2, <2>3 DEF Next, Register, Campaign, CampaignLost, Resign, StepDown, Timeout,
         ExpireLoop, Observe, callerVars, vars, storeVars, leaseVars, Put, Create, CreateFails, Delete,
         expire, ExpireKey, Watch, Cancel, dropWatcher, Recv
  <1>4. QED
    BY <1>1, <1>2, <1>3 DEF CallerInv

\* Election and membership are callers of the store: every behaviour of theirs
\* is one of the store's.
THEOREM ElectionUsesStore == Spec => StoreSpec
  <1>1. Init => NewMemStore
    BY DEF Init
  <1>2. CallerInv /\ [Next]_vars => [StoreNext]_storeVars
    BY CallerStepIsStoreStep
  <1>3. QED
    BY <1>1, <1>2, CallerInvInit, CallerInvNext, PTL DEF Spec, StoreSpec

\* The values of membership and election keep their types.
THEOREM TypeCorrect == Spec => []TypeOK
  <1>1. CallerInv => TypeOK
    BY DEF CallerInv, LeaseInv, CallerTypeOK, TypeOK
  <1>2. QED
    BY <1>1, CallerInvInit, CallerInvNext, PTL DEF Spec

-----------------------------------------------------------------------------
\* A registration that counts is attached to the lease its node works under.
RegistrationHeld ==
  \A n \in Nodes : registered[n] /\ Alive(n) =>
    kv[NodeKey(n)] = n /\ leaseOf[NodeKey(n)] = lease[n]

\* A live lease's keys are out of reach of a running expire loop.
LEMMA LiveKeysSpared ==
  ASSUME LeaseInv, NEW k \in Keys, leaseOf[k] \in Live
  PROVE  k \notin dying
  BY DEF LeaseInv, LeaseBookkeeping, AttachmentConsistent, Live

\* What a step may do to a key attached to a live lease, and to the lease.
LEMMA StoreKeeps ==
  ASSUME LeaseInv, NEW key \in Keys, leaseOf[key] \in Live
  PROVE  /\ \A k \in Keys : ExpireKey(k) => kv'[key] = kv[key] /\ leaseOf'[key] = leaseOf[key]
         /\ \A k \in Keys \ {key}, v \in Values, l \in Leases \cup {NoLease} :
              Put(k, v, l) \/ Create(k, v, l) \/ Delete(k) =>
                kv'[key] = kv[key] /\ leaseOf'[key] = leaseOf[key]
  <1>1. ASSUME NEW k \in Keys, ExpireKey(k)
        PROVE  kv'[key] = kv[key] /\ leaseOf'[key] = leaseOf[key]
    <2>1. k # key
      BY <1>1, LiveKeysSpared DEF ExpireKey
    <2>2. QED
      BY <1>1, <2>1 DEF ExpireKey, del, LeaseInv, StoreTypeOK
  <1>2. ASSUME NEW k \in Keys \ {key}, NEW v \in Values, NEW l \in Leases \cup {NoLease},
               Put(k, v, l) \/ Create(k, v, l) \/ Delete(k)
        PROVE  kv'[key] = kv[key] /\ leaseOf'[key] = leaseOf[key]
    <2>1. CASE Put(k, v, l) \/ Create(k, v, l)
      BY <1>2, <2>1 DEF Put, Create, LeaseInv, StoreTypeOK
    <2>2. CASE Delete(k)
      BY <1>2, <2>2 DEF Delete, del, LeaseInv, StoreTypeOK
    <2>3. QED
      BY <1>2, <2>1, <2>2
  <1>3. QED
    BY <1>1, <1>2

\* Every step keeps the registrations of live nodes.
LEMMA RegistrationNext ==
  ASSUME CallerInv, RegistrationHeld, [Next]_vars
  PROVE  RegistrationHeld'
  <1> SUFFICES ASSUME NEW n \in Nodes, registered'[n], lease'[n] \in Live'
               PROVE  kv'[NodeKey(n)] = n /\ leaseOf'[NodeKey(n)] = lease'[n]
    BY DEF RegistrationHeld, Alive
  <1> USE KeysDistinct, ElectionAssumption
  <1>0. LeaseInv /\ StoreTypeOK /\ NodeKey(n) \in Keys
    BY DEF CallerInv, LeaseInv
  <1>1. ASSUME NEW m \in Nodes, Register(m) PROVE kv'[NodeKey(n)] = n /\ leaseOf'[NodeKey(n)] = lease'[n]
    <2>1. CASE m = n
      BY <1>0, <1>1, <2>1 DEF Register, Put, StoreTypeOK, MayCall
    <2>2. CASE m # n
      <3>1. registered[n] /\ lease'[n] = lease[n] /\ lease[n] \in Live
        BY <1>1, <2>2 DEF Register, Put, leaseVars, Live, Granted, CallerInv, CallerTypeOK
      <3>2. leaseOf[NodeKey(n)] \in Live
        BY <3>1 DEF RegistrationHeld, Alive
      <3>3. NodeKey(m) # NodeKey(n) /\ m \in Values /\ lease[m] \in Leases \cup {NoLease}
              /\ Put(NodeKey(m), m, lease[m])
        BY <1>1, <2>2 DEF Register, CallerInv, CallerTypeOK
      <3>4. QED
        BY <1>0, <3>1, <3>2, <3>3, StoreKeeps DEF RegistrationHeld, Alive
    <2>3. QED
      BY <2>1, <2>2
  <1>2. ASSUME UNCHANGED <<kv, leaseOf>>,
               registered'[n] => registered[n] /\ lease'[n] = lease[n],
               lease[n] \in Live' => lease[n] \in Live
        PROVE  kv'[NodeKey(n)] = n /\ leaseOf'[NodeKey(n)] = lease'[n]
    BY <1>2 DEF RegistrationHeld, Alive
  <1>3. ASSUME NEW m \in Nodes, Start(m) PROVE kv'[NodeKey(n)] = n /\ leaseOf'[NodeKey(n)] = lease'[n]
    <2>1. m # n
      BY <1>3 DEF Start, CallerInv, CallerTypeOK
    <2>2. UNCHANGED <<kv, leaseOf>> /\ registered[n] /\ lease'[n] = lease[n] /\ ended' = ended
      BY <1>3, <2>1 DEF Start, Grant, CallerInv, CallerTypeOK
    <2>3. lease[n] \in Granted
      BY <1>3, <2>2 DEF CallerInv, LeasesDistinct, Live, Granted, NoLease
    <2>4. QED
      BY <2>2, <2>3 DEF RegistrationHeld, Alive, Live
  <1>4. ASSUME NEW m \in Nodes, Leave(m) PROVE kv'[NodeKey(n)] = n /\ leaseOf'[NodeKey(n)] = lease'[n]
    <2>1. m # n
      BY <1>4 DEF Leave, CallerInv, CallerTypeOK
    <2>2. QED
      BY <1>2, <1>4, <2>1 DEF Leave, expire, Live, Granted, CallerInv, CallerTypeOK
  <1>5. ASSUME NEW l \in Leases, Timeout(l) PROVE kv'[NodeKey(n)] = n /\ leaseOf'[NodeKey(n)] = lease'[n]
    BY <1>2, <1>5 DEF Timeout, expire, Live, Granted, callerVars
  <1>6. ASSUME ExpireLoop PROVE kv'[NodeKey(n)] = n /\ leaseOf'[NodeKey(n)] = lease'[n]
    <2>1. PICK k \in Keys : ExpireKey(k) /\ UNCHANGED callerVars
      BY <1>6 DEF ExpireLoop
    <2>2. registered[n] /\ lease'[n] = lease[n] /\ lease[n] \in Live
      BY <2>1 DEF ExpireKey, callerVars, Live, Granted
    <2>3. leaseOf[NodeKey(n)] \in Live /\ kv[NodeKey(n)] = n /\ leaseOf[NodeKey(n)] = lease[n]
      BY <2>2 DEF RegistrationHeld, Alive
    <2>4. QED
      BY <1>0, <2>1, <2>2, <2>3, StoreKeeps
  <1>7. ASSUME NEW m \in Nodes, NEW r \in Roles, Campaign(m, r) \/ Resign(m, r)
        PROVE  kv'[NodeKey(n)] = n /\ leaseOf'[NodeKey(n)] = lease'[n]
    <2>1. registered[n] /\ lease'[n] = lease[n] /\ lease[n] \in Live
      BY <1>7 DEF Campaign, Resign, Create, Delete, leaseVars, Live, Granted
    <2>2. leaseOf[NodeKey(n)] \in Live /\ kv[NodeKey(n)] = n /\ leaseOf[NodeKey(n)] = lease[n]
      BY <2>1 DEF RegistrationHeld, Alive
    <2>3. /\ LeaderKey(r) \in Keys \ {NodeKey(n)} /\ m \in Values /\ lease[m] \in Leases \cup {NoLease}
          /\ Create(LeaderKey(r), m, lease[m]) \/ Delete(LeaderKey(r))
      BY <1>7 DEF Campaign, Resign, CallerInv, CallerTypeOK
    <2>4. QED
      BY <1>0, <2>1, <2>2, <2>3, StoreKeeps
  <1>8. ASSUME NEW m \in Nodes, StepDown(m) PROVE kv'[NodeKey(n)] = n /\ leaseOf'[NodeKey(n)] = lease'[n]
    BY <1>2, <1>8 DEF StepDown, storeVars, Live, Granted
  <1>9. ASSUME NEW m \in Nodes, NEW r \in Roles, CampaignLost(m, r)
        PROVE  kv'[NodeKey(n)] = n /\ leaseOf'[NodeKey(n)] = lease'[n]
    BY <1>2, <1>9 DEF CampaignLost, CreateFails, callerVars, storeVars, Live, Granted
  <1>10. ASSUME NEW w \in Watchers, Observe(w) PROVE kv'[NodeKey(n)] = n /\ leaseOf'[NodeKey(n)] = lease'[n]
    BY <1>2, <1>10 DEF Observe, Watch, Cancel, dropWatcher, Recv, callerVars, leaseVars, Live, Granted
  <1>11. CASE UNCHANGED vars
    BY <1>2, <1>11 DEF vars, storeVars, Live, Granted
  <1>12. QED
    BY <1>1, <1>3, <1>4, <1>5, <1>6, <1>7, <1>8, <1>9, <1>10, <1>11 DEF Next

\* A registered node stays a member for as long as the lease it registered
\* under lives: the end of a lease it had before never takes the key away.
THEOREM RegisteredStaysMember == Spec => []RegisteredIsMember
  <1>1. Init => RegistrationHeld
    BY DEF Init, RegistrationHeld
  <1>2. RegistrationHeld /\ CallerInv => RegisteredIsMember
    BY StoreAssumption, ElectionAssumption DEF RegistrationHeld, RegisteredIsMember, Members
  <1>3. CallerInv /\ RegistrationHeld /\ [Next]_vars => RegistrationHeld'
    BY RegistrationNext
  <1>4. QED
    BY <1>1, <1>2, <1>3, CallerInvInit, CallerInvNext, PTL DEF Spec

-----------------------------------------------------------------------------
\* Every step of cautious callers keeps a live leader's claim.
LEMMA LeaderNext ==
  ASSUME CautiousCallers, CallerInv, LiveLeaderHoldsKey, [Next]_vars
  PROVE  LiveLeaderHoldsKey'
  <1> SUFFICES ASSUME NEW n \in Nodes, NEW r \in Roles, r \in won'[n], lease'[n] \in Live'
               PROVE  Leader(r)' = n /\ leaseOf'[LeaderKey(r)] = lease'[n]
    BY DEF LiveLeaderHoldsKey, Alive
  <1> USE KeysDistinct, ElectionAssumption DEF Leader
  <1>0. LeaseInv /\ StoreTypeOK /\ LeaderKey(r) \in Keys
    BY DEF CallerInv, LeaseInv
  \* A claim that stood before the step, on a lease that stands.
  <1>1. ASSUME r \in won[n], lease'[n] = lease[n], lease[n] \in Live
        PROVE  /\ kv[LeaderKey(r)] = n /\ leaseOf[LeaderKey(r)] = lease[n]
               /\ leaseOf[LeaderKey(r)] \in Live
    BY <1>1 DEF LiveLeaderHoldsKey, Alive
  <1>2. ASSUME UNCHANGED <<kv, leaseOf>>, r \in won[n], lease'[n] = lease[n],
               lease[n] \in Live' => lease[n] \in Live
        PROVE  Leader(r)' = n /\ leaseOf'[LeaderKey(r)] = lease'[n]
    BY <1>1, <1>2
  <1>3. ASSUME NEW m \in Nodes, NEW q \in Roles, Campaign(m, q) PROVE Leader(r)' = n /\ leaseOf'[LeaderKey(r)] = lease'[n]
    <2>0. /\ Create(LeaderKey(q), m, lease[m]) /\ MayCall(m) /\ m \in Values
          /\ won' = [won EXCEPT ![m] = @ \cup {q}] /\ lease' = lease
      BY <1>3 DEF Campaign
    <2>1. CASE r = q /\ n = m
      BY <1>0, <2>0, <2>1 DEF Create, StoreTypeOK, MayCall
    <2>2. CASE ~(r = q /\ n = m)
      <3>1. r \in won[n] /\ lease[n] \in Live
        BY <2>0, <2>2 DEF Create, leaseVars, Live, Granted, CallerInv, CallerTypeOK
      <3>2. kv[LeaderKey(r)] = n /\ leaseOf[LeaderKey(r)] = lease[n] /\ leaseOf[LeaderKey(r)] \in Live
        BY <1>1, <2>0, <3>1
      <3>3. r # q
        BY <2>0, <3>2, StoreAssumption DEF Create
      <3>4. LeaderKey(q) \in Keys \ {LeaderKey(r)} /\ lease[m] \in Leases \cup {NoLease}
        BY <3>3 DEF CallerInv, CallerTypeOK
      <3>5. QED
        BY <1>0, <2>0, <3>2, <3>4, StoreKeeps
    <2>3. QED
      BY <2>1, <2>2
  <1>4. ASSUME NEW m \in Nodes, NEW q \in Roles, Resign(m, q) PROVE Leader(r)' = n /\ leaseOf'[LeaderKey(r)] = lease'[n]
    <2>0. /\ Delete(LeaderKey(q)) /\ MayCall(m) /\ q \in won[m] /\ lease' = lease
          /\ won' = [won EXCEPT ![m] = @ \ {q}]
      BY <1>4 DEF Resign
    <2>1. r \in won[n] /\ lease[n] \in Live /\ ~(r = q /\ n = m)
      BY <2>0 DEF Delete, leaseVars, Live, Granted, CallerInv, CallerTypeOK
    <2>2. kv[LeaderKey(r)] = n /\ leaseOf[LeaderKey(r)] = lease[n] /\ leaseOf[LeaderKey(r)] \in Live
      BY <1>1, <2>0, <2>1
    \* The one who resigns is alive, hence the one the key names.
    <2>3. kv[LeaderKey(q)] = m
      BY <2>0 DEF MayCall, LiveLeaderHoldsKey
    <2>4. r # q
      BY <2>1, <2>2, <2>3
    <2>5. QED
      BY <1>0, <2>0, <2>2, <2>4, StoreKeeps
  <1>5. ASSUME NEW m \in Nodes, Start(m) PROVE Leader(r)' = n /\ leaseOf'[LeaderKey(r)] = lease'[n]
    <2>1. m # n
      BY <1>5 DEF Start, CallerInv, CallerTypeOK
    <2>2. UNCHANGED <<kv, leaseOf>> /\ r \in won[n] /\ lease'[n] = lease[n] /\ ended' = ended
      BY <1>5, <2>1 DEF Start, Grant, CallerInv, CallerTypeOK
    <2>3. lease[n] \in Granted
      BY <1>5, <2>2 DEF CallerInv, LeasesDistinct, Live, Granted, NoLease
    <2>4. QED
      BY <1>1, <2>2, <2>3 DEF Live
  <1>6. ASSUME NEW m \in Nodes, Register(m) PROVE Leader(r)' = n /\ leaseOf'[LeaderKey(r)] = lease'[n]
    <2>1. /\ Put(NodeKey(m), m, lease[m]) /\ m \in Values /\ r \in won[n] /\ lease' = lease
          /\ lease[n] \in Live /\ lease[m] \in Leases \cup {NoLease}
      BY <1>6 DEF Register, Put, leaseVars, Live, Granted, CallerInv, CallerTypeOK
    <2>2. NodeKey(m) \in Keys \ {LeaderKey(r)}
      OBVIOUS
    <2>3. QED
      BY <1>0, <1>1, <2>1, <2>2, StoreKeeps
  <1>7. ASSUME NEW m \in Nodes, Leave(m) PROVE Leader(r)' = n /\ leaseOf'[LeaderKey(r)] = lease'[n]
    <2>1. m # n
      BY <1>7 DEF Leave, CallerInv, CallerTypeOK
    <2>2. QED
      BY <1>2, <1>7, <2>1 DEF Leave, expire, Live, Granted, CallerInv, CallerTypeOK
  <1>8. ASSUME NEW l \in Leases, Timeout(l) PROVE Leader(r)' = n /\ leaseOf'[LeaderKey(r)] = lease'[n]
    BY <1>2, <1>8 DEF Timeout, expire, Live, Granted, callerVars
  <1>9. ASSUME ExpireLoop PROVE Leader(r)' = n /\ leaseOf'[LeaderKey(r)] = lease'[n]
    <2>1. PICK k \in Keys : ExpireKey(k) /\ UNCHANGED callerVars
      BY <1>9 DEF ExpireLoop
    <2>2. r \in won[n] /\ lease'[n] = lease[n] /\ lease[n] \in Live
      BY <2>1 DEF ExpireKey, callerVars, Live, Granted
    <2>3. QED
      BY <1>0, <1>1, <2>1, <2>2, StoreKeeps
  <1>10. ASSUME NEW m \in Nodes, StepDown(m) PROVE Leader(r)' = n /\ leaseOf'[LeaderKey(r)] = lease'[n]
    <2>1. r \in won[n]
      BY <1>10 DEF StepDown, CallerInv, CallerTypeOK
    <2>2. QED
      BY <1>2, <1>10, <2>1 DEF StepDown, storeVars, Live, Granted
  <1>11. ASSUME NEW m \in Nodes, NEW q \in Roles, CampaignLost(m, q) PROVE Leader(r)' = n /\ leaseOf'[LeaderKey(r)] = lease'[n]
    BY <1>2, <1>11 DEF CampaignLost, CreateFails, callerVars, storeVars, Live, Granted
  <1>12. ASSUME NEW w \in Watchers, Observe(w) PROVE Leader(r)' = n /\ leaseOf'[LeaderKey(r)] = lease'[n]
    BY <1>2, <1>12 DEF Observe, Watch, Cancel, dropWatcher, Recv, callerVars, leaseVars, Live, Granted
  <1>13. CASE UNCHANGED vars
    BY <1>2, <1>13 DEF vars, storeVars, Live, Granted
  <1>14. QED
    BY <1>3, <1>4, <1>5, <1>6, <1>7, <1>8, <1>9, <1>10, <1>11, <1>12, <1>13 DEF Next

\* With cautious callers a winner whose lease is alive and who has not resigned
\* holds the leader key.
THEOREM LeaderIsSafe == CautiousCallers /\ Spec => []LiveLeaderHoldsKey
  <1>1. Init => LiveLeaderHoldsKey
    BY DEF Init, LiveLeaderHoldsKey
  <1>2. CautiousCallers /\ CallerInv /\ LiveLeaderHoldsKey /\ [Next]_vars => LiveLeaderHoldsKey'
    BY LeaderNext
  <1>3. CASE CautiousCallers
    BY <1>1, <1>2, <1>3, CallerInvInit, CallerInvNext, PTL DEF Spec
  <1>4. QED
    BY <1>3

\* Two nodes with live leases never both believe to lead the same role.
OneLiveLeader ==
  \A m, n \in Nodes, r \in Roles :
    r \in won[m] /\ r \in won[n] /\ Alive(m) /\ Alive(n) => m = n

\* The placement controller and the merge scheduler run "as exactly one
\* instance" (election.go), as far as live leases go.
THEOREM AtMostOneLeader == CautiousCallers /\ Spec => []OneLiveLeader
  <1>1. LiveLeaderHoldsKey => OneLiveLeader
    BY DEF LiveLeaderHoldsKey, OneLiveLeader
  <1>2. QED
    BY <1>1, LeaderIsSafe, PTL

-----------------------------------------------------------------------------
\* Every step of cautious callers leaves only keys that some lease will free.
LEMMA HeldNext ==
  ASSUME CautiousCallers, CallerInv, HeldByLiveLease, [Next]_vars
  PROVE  HeldByLiveLease'
  <1> SUFFICES ASSUME NEW key \in Keys, kv'[key] # Absent
               PROVE  leaseOf'[key] \in Live' \/ key \in dying'
    BY DEF HeldByLiveLease
  <1> USE KeysDistinct, ElectionAssumption
  <1>0. LeaseInv /\ StoreTypeOK
    BY DEF CallerInv, LeaseInv
  <1>1. ASSUME NEW k \in Keys, NEW n \in Nodes, MayCall(n),
               Put(k, n, lease[n]) \/ Create(k, n, lease[n])
        PROVE  leaseOf'[key] \in Live' \/ key \in dying'
    <2>1. lease[n] \in Live /\ lease[n] # NoLease
      BY <1>1 DEF MayCall, Alive
    <2>2. /\ Live' = Live /\ leaseOf' = [leaseOf EXCEPT ![k] = lease[n]]
          /\ kv' = [kv EXCEPT ![k] = n] /\ dying' = dying
      BY <1>1, <2>1 DEF Put, Create, leaseVars, Live, Granted
    <2>3. QED
      BY <1>0, <2>1, <2>2 DEF HeldByLiveLease, StoreTypeOK
  <1>2. ASSUME UNCHANGED <<kv, leaseOf, dying>>, Live \subseteq Live'
        PROVE  leaseOf'[key] \in Live' \/ key \in dying'
    BY <1>2 DEF HeldByLiveLease
  <1>3. ASSUME NEW k \in Keys, Delete(k) \/ ExpireKey(k)
        PROVE  leaseOf'[key] \in Live' \/ key \in dying'
    <2>1. Live' = Live
      BY <1>3 DEF Delete, ExpireKey, leaseVars, Live, Granted
    <2>2. kv'[k] = Absent
      <3>1. del(k)
        BY <1>0, <1>3 DEF Delete, ExpireKey, LeaseInv, AttachmentConsistent
      <3>2. QED
        BY <1>0, <3>1 DEF del, StoreTypeOK
    <2>3. key # k
      BY <2>2
    <2>4. kv'[key] = kv[key] /\ leaseOf'[key] = leaseOf[key] /\ (key \in dying => key \in dying')
      BY <1>0, <1>3, <2>3 DEF Delete, ExpireKey, del, leaseVars, StoreTypeOK
    <2>5. QED
      BY <2>1, <2>4 DEF HeldByLiveLease
  <1>4. ASSUME NEW l \in Granted, expire(l) PROVE leaseOf'[key] \in Live' \/ key \in dying'
    <2>0. l \in Leases
      BY <1>0, StoreAssumption DEF Granted, Leases, StoreTypeOK
    <2>1. dying = {} /\ dying' = keysOf[l] /\ Live' = Live \ {l} /\ UNCHANGED <<kv, leaseOf>>
      BY <1>4 DEF expire, Idle, Live, Granted
    <2>2. leaseOf[key] = l => key \in keysOf[l]
      BY <1>0, <2>0, <2>1 DEF LeaseInv, AttachmentConsistent
    <2>3. QED
      BY <2>1, <2>2 DEF HeldByLiveLease
  <1>5. ASSUME Grant PROVE leaseOf'[key] \in Live' \/ key \in dying'
    BY <1>0, <1>2, <1>5 DEF Grant, Live, Granted, Leases, StoreTypeOK
  <1>6. ASSUME NEW n \in Nodes, Leave(n) PROVE lease[n] \in Granted /\ expire(lease[n])
    BY <1>6 DEF Leave, CallerInv, LeasesDistinct
  <1>7. ASSUME NEW l \in Leases, Timeout(l) PROVE l \in Granted /\ expire(l)
    BY <1>7 DEF Timeout, Live
  <1>8. ASSUME UNCHANGED storeVars PROVE leaseOf'[key] \in Live' \/ key \in dying'
    BY <1>2, <1>8 DEF storeVars, Live, Granted
  <1>9. ASSUME NEW w \in Watchers, Observe(w) PROVE leaseOf'[key] \in Live' \/ key \in dying'
    BY <1>2, <1>9 DEF Observe, Watch, Cancel, dropWatcher, Recv, leaseVars, Live, Granted
  <1>10. QED
    BY <1>1, <1>3, <1>4, <1>5, <1>6, <1>7, <1>8, <1>9
    DEF Next, Start, Register, Campaign, CampaignLost, CreateFails, Resign, StepDown, ExpireLoop, vars

\* With cautious callers no leader or member key outlives its lease for good.
THEOREM NothingOrphaned == CautiousCallers /\ Spec => []HeldByLiveLease
  <1>1. Init => HeldByLiveLease
    BY DEF Init, NewMemStore, HeldByLiveLease
  <1>2. CautiousCallers /\ CallerInv /\ HeldByLiveLease /\ [Next]_vars => HeldByLiveLease'
    BY HeldNext
  <1>3. CASE CautiousCallers
    BY <1>1, <1>2, <1>3, CallerInvInit, CallerInvNext, PTL DEF Spec
  <1>4. QED
    BY <1>3
-----------------------------------------------------------------------------
(***************************************************************************)
(* Placement.  The order of the sort is total, so the rank is an injection *)
(* of the candidates into the numbers below their cardinality, and so is   *)
(* onto them: every place is taken by exactly one candidate.               *)
(***************************************************************************)

\* The order of Place's sort is strict and total on the nodes.
LEMMA BeforeIsTotal ==
  ASSUME NEW s \in PlacedShards
  PROVE  /\ \A a \in PlacedNodes : ~Before(s, a, a)
         /\ \A a, b \in PlacedNodes : a # b => Before(s, a, b) \/ Before(s, b, a)
         /\ \A a, b, c \in PlacedNodes : Before(s, a, b) /\ Before(s, b, c) => Before(s, a, c)
  <1>1. \A a \in PlacedNodes : Weight[s][a] \in Nat /\ IdRank[a] \in Nat
    BY PlacementAssumption
  <1>2. \A a, b \in PlacedNodes : IdRank[a] = IdRank[b] => a = b
    BY PlacementAssumption
  <1> QED
    BY <1>1, <1>2 DEF Before

\* A node's rank among the candidates is a number below their cardinality, and
\* two candidates never share one.
LEMMA RankIsInjective ==
  ASSUME NEW s \in PlacedShards, NEW S \in SUBSET PlacedNodes
  PROVE  /\ IsFiniteSet(S) /\ Cardinality(S) \in Nat
         /\ \A n \in S : Rank(s, n, S) \in 0..(Cardinality(S) - 1)
         /\ \A m, n \in S : Rank(s, m, S) = Rank(s, n, S) => m = n
  <1>1. IsFiniteSet(S) /\ Cardinality(S) \in Nat
    BY PlacementAssumption, FS_Subset, FS_CardinalityType
  <1> DEFINE Ahead(n) == {m \in S : Before(s, m, n)}
  <1>2. ASSUME NEW n \in S
        PROVE  /\ IsFiniteSet(Ahead(n)) /\ Cardinality(Ahead(n)) \in Nat
               /\ Cardinality(Ahead(n)) < Cardinality(S)
    <2>1. Ahead(n) \in SUBSET S /\ n \notin Ahead(n)
      BY BeforeIsTotal
    <2>2. Ahead(n) # S
      BY <2>1
    <2>3. /\ IsFiniteSet(Ahead(n)) /\ Cardinality(Ahead(n)) <= Cardinality(S)
          /\ Cardinality(S) # Cardinality(Ahead(n))
      BY <1>1, <2>1, <2>2, FS_Subset
    <2>4. Cardinality(Ahead(n)) \in Nat
      BY <2>3, FS_CardinalityType
    <2> QED
      BY <1>1, <2>3, <2>4
  <1>3. ASSUME NEW m \in S, NEW n \in S, Before(s, m, n)
        PROVE  Cardinality(Ahead(m)) # Cardinality(Ahead(n))
    <2>1. Ahead(m) \in SUBSET Ahead(n)
      BY <1>3, BeforeIsTotal
    <2>2. m \in Ahead(n) /\ m \notin Ahead(m)
      BY <1>3, BeforeIsTotal
    <2>3. Ahead(m) # Ahead(n)
      BY <2>2
    <2> HIDE DEF Ahead
    <2> QED
      BY <1>2, <2>1, <2>3, FS_Subset
  <1>4. \A n \in S : Rank(s, n, S) = Cardinality(Ahead(n))
    BY DEF Rank
  <1> HIDE DEF Ahead
  <1>5. \A n \in S : Rank(s, n, S) \in 0..(Cardinality(S) - 1)
    BY <1>1, <1>2, <1>4
  <1>6. \A m, n \in S : Rank(s, m, S) = Rank(s, n, S) => m = n
    BY <1>3, <1>4, BeforeIsTotal
  <1> QED
    BY <1>1, <1>5, <1>6

\* Every rank below the cardinality is the rank of some candidate.
LEMMA RankIsOnto ==
  ASSUME NEW s \in PlacedShards, NEW S \in SUBSET PlacedNodes, NEW i \in 0..(Cardinality(S) - 1)
  PROVE  \E n \in S : Rank(s, n, S) = i
  <1> DEFINE c == Cardinality(S)
             f == [n \in S |-> Rank(s, n, S)]
             T == 0..(c - 1)
  <1>1. IsFiniteSet(S) /\ c \in Nat
    BY RankIsInjective
  <1>2. f \in Injection(S, T)
    BY RankIsInjective DEF Injection, IsInjective
  <1>3. IsFiniteSet(T) /\ Cardinality(T) = c
    BY <1>1, FS_Interval
  <1>4. f \in Surjection(S, T)
    <2> HIDE DEF f, T
    <2> QED
      BY <1>2, <1>3, FS_Injection
  <1>5. \A t \in T : \E n \in S : f[n] = t
    BY <1>4 DEF Surjection
  <1> QED
    BY <1>5

\* Place returns distinct candidates, as many as there are replicas and
\* candidates for, each ranked by its place (rendezvous.go, Place).
THEOREM PlaceIsRanking ==
  ASSUME NEW s \in PlacedShards, NEW S \in SUBSET PlacedNodes
  PROVE  /\ Place(s, S) \in Seq(S)
         /\ Len(Place(s, S)) = IF Replicas <= Cardinality(S) THEN Replicas ELSE Cardinality(S)
         /\ \A i \in 1..Len(Place(s, S)) : Rank(s, Place(s, S)[i], S) = i - 1
         /\ \A i, j \in 1..Len(Place(s, S)) : Place(s, S)[i] = Place(s, S)[j] => i = j
  <1> DEFINE c == Cardinality(S)
             k == IF Replicas <= c THEN Replicas ELSE c
             p == Place(s, S)
  <1>1. c \in Nat /\ Replicas \in Nat
    BY RankIsInjective, PlacementAssumption
  <1>2. k \in Nat /\ {j \in 1..Replicas : j <= c} = 1..k
    BY <1>1
  <1>3. p = [i \in 1..k |-> CHOOSE n \in S : Rank(s, n, S) = i - 1]
    BY <1>2 DEF Place
  <1>4. ASSUME NEW i \in 1..k PROVE p[i] \in S /\ Rank(s, p[i], S) = i - 1
    <2>1. i - 1 \in 0..(c - 1)
      BY <1>1, <1>2
    <2>2. \E n \in S : Rank(s, n, S) = i - 1
      BY <2>1, RankIsOnto
    <2>3. p[i] = CHOOSE n \in S : Rank(s, n, S) = i - 1
      BY <1>3
    <2> HIDE DEF p
    <2> QED
      BY <2>2, <2>3
  <1> HIDE DEF k, p
  <1>5. p \in [1..k -> S]
    BY <1>3, <1>4
  <1>6. p \in Seq(S) /\ Len(p) = k
    BY <1>2, <1>5
  <1>7. \A i, j \in 1..k : p[i] = p[j] => i = j
    BY <1>2, <1>4
  <1> QED
    BY <1>4, <1>6, <1>7 DEF p, k

-----------------------------------------------------------------------------
\* Splitting the text of a replica set gives the replica set back: the ids hold
\* no newline, and the empty set has the empty text (routing.go, encodeNodes,
\* decodeNodes).
LEMMA DecodeEncode ==
  ASSUME NEW S, NEW nodes \in Seq(S)
  PROVE  decodeNodes(encodeNodes(nodes)) = nodes
  <1> DEFINE n == Len(nodes)
             m == IF nodes = <<>> THEN 0 ELSE 2 * n - 1
             t == encodeNodes(nodes)
  <1>0. n \in Nat /\ (nodes = <<>> <=> n = 0)
    OBVIOUS
  <1>1. n \in Nat /\ m = (IF n = 0 THEN 0 ELSE 2 * n - 1) /\ m \in Nat /\ (m + 1) \div 2 = n
    <2> HIDE DEF n
    <2>1. m = (IF n = 0 THEN 0 ELSE 2 * n - 1) /\ m \in Nat
      BY <1>0
    <2> HIDE DEF m
    <2>2. (m + 1) \div 2 = n
      BY <1>0, <2>1
    <2> QED
      BY <1>0, <2>1, <2>2
  <1>2. t \in [1..m -> S \cup {NL}]
    <2>1. t = [i \in 1..m |-> IF i % 2 = 1 THEN nodes[(i + 1) \div 2] ELSE NL]
      BY DEF encodeNodes
    <2>2. ASSUME NEW i \in 1..m, i % 2 = 1 PROVE nodes[(i + 1) \div 2] \in S
      <3>1. (i + 1) \div 2 \in 1..n
        BY <1>1, <2>2
      <3> QED
        BY <3>1
    <2> HIDE DEF t, m
    <2> QED
      BY <2>1, <2>2
  <1>3. \A i \in 1..m : i % 2 = 1 => t[i] = nodes[(i + 1) \div 2]
    BY DEF encodeNodes
  <1> HIDE DEF t, m
  <1>4. t \in Seq(S \cup {NL}) /\ Len(t) = m
    BY <1>1, <1>2
  <1>5. decodeNodes(t) = [i \in 1..n |-> t[2 * i - 1]]
    BY <1>1, <1>4 DEF decodeNodes
  <1>6. ASSUME NEW i \in 1..n PROVE t[2 * i - 1] = nodes[i]
    <2>1. 2 * i - 1 \in 1..m /\ (2 * i - 1) % 2 = 1 /\ ((2 * i - 1) + 1) \div 2 = i
      BY <1>1
    <2> QED
      BY <1>3, <2>1
  <1>7. nodes = [i \in 1..n |-> nodes[i]]
    OBVIOUS
  <1> QED
    BY <1>5, <1>6, <1>7 DEF t
-----------------------------------------------------------------------------
(***************************************************************************)
(* The control loop as a user of the store.                                *)
(***************************************************************************)

\* The types of what the controllers and routers keep, their maps aside.
LoopTypeOK ==
  /\ cpc \in [Controllers -> {"off", "members", "load", "publish", "watch", "wait"}]
  /\ cmembers \in [Controllers -> SUBSET Nodes]
  /\ ctodo \in [Controllers -> SUBSET Shards]
  /\ watching \in [Controllers -> BOOLEAN]
  /\ rpc \in [Routers -> {"off", "watch", "run"}]
  /\ stop \in SUBSET Watchers
  /\ gap \in SUBSET Watchers

\* What the loop knows of the store it works on.
LoopInv == CallerInv /\ WatchInv /\ LoopTypeOK

\* The texts a shard's key may hold.
RouteTexts(s) == {encodeNodes(Place(s, m)) : m \in SUBSET Nodes}

\* The shards' keys are keys of their own.
LEMMA RouteKeys ==
  /\ \A s \in Shards : RouteKey(s) \in Keys /\ Prefix(RouteKey(s)) = "route" /\ RouteKey(s)[2] = s
  /\ \A s, t \in Shards : RouteKey(s) = RouteKey(t) => s = t
  /\ \A n \in Nodes : NodeKey(n) \in Keys /\ Prefix(NodeKey(n)) = "node"
  /\ \A k \in Keys : Prefix(k) = "route" => \E s \in Shards : k = RouteKey(s)
  /\ \A k \in Keys : Prefix(k) = "node" => \E n \in Nodes : k = NodeKey(n)
  BY DEF Keys, RouteKey, NodeKey, LeaderKey, Prefix

\* What Publish writes for a shard is one of its texts.
LEMMA PublishedText ==
  ASSUME LoopTypeOK, NEW c \in Controllers, NEW s \in Shards
  PROVE  /\ Desired(cmembers[c])[s] = Place(s, cmembers[c])
         /\ encodeNodes(Desired(cmembers[c])[s]) \in RouteTexts(s)
         /\ encodeNodes(Desired(cmembers[c])[s]) \in Values
  <1>1. cmembers[c] \in SUBSET Nodes
    BY DEF LoopTypeOK
  <1>2. Desired(cmembers[c])[s] = Place(s, cmembers[c])
    BY ControlAssumption DEF Desired
  <1>3. encodeNodes(Place(s, cmembers[c])) \in Values
    BY <1>1, ControlAssumption
  <1>4. encodeNodes(Place(s, cmembers[c])) \in RouteTexts(s)
    BY <1>1 DEF RouteTexts
  <1> QED
    BY <1>2, <1>3, <1>4

\* What a step of the control loop does to the store.
StoreEffect ==
  \/ UNCHANGED storeVars
  \/ \E n \in Nodes : Put(NodeKey(n), n, lease[n]) /\ lease[n] \in Granted
  \/ \E c \in Controllers, s \in Shards : PublishShard(c, s)
  \/ \E k \in Keys : ExpireKey(k)
  \/ Grant \/ \E l \in Granted : expire(l)
  \/ \E w \in Watchers : Cancel(w) \/ dropWatcher(w)
  \/ \E c \in Controllers : WatchMembers(c) \/ WakeUp(c)
  \/ \E r \in Routers : WatchRoutes(r) \/ ApplyEvent(r)

\* Each step of the control loop is one call of the store at most, and this is which.
LEMMA ControlEffect ==
  ASSUME LoopInv, [ControlNext]_allVars
  PROVE  StoreEffect
  <1>1. ASSUME NEW c \in Controllers, ReadMembers(c) \/ LoadAndDiff(c) \/ ReturnRun(c) \/ StartRun(c)
        PROVE  UNCHANGED storeVars
    BY <1>1 DEF ReadMembers, LoadAndDiff, ReturnRun, StartRun, vars
  <1>2. ASSUME NEW r \in Routers, SeedRouter(r) \/ ReturnWatch(r) PROVE UNCHANGED storeVars
    BY <1>2 DEF SeedRouter, ReturnWatch, vars
  <1>3. ASSUME NEW p \in Watchers, EndContext(p) \/ CloseChannel(p)
        PROVE  UNCHANGED storeVars \/ \E w \in Watchers : Cancel(w) \/ dropWatcher(w)
    BY <1>3 DEF EndContext, CloseChannel
  <1>4. ASSUME Membership PROVE StoreEffect
    <2>1. ASSUME NEW n \in Nodes, Start(n) PROVE StoreEffect
      BY <2>1 DEF Start, StoreEffect
    <2>2. ASSUME NEW n \in Nodes, Register(n) PROVE StoreEffect
      <3>1. lease[n] \in Granted /\ Put(NodeKey(n), n, lease[n])
        BY <2>2 DEF Register, MayCall, LoopInv, CallerInv, LeasesDistinct
      <3> QED
        BY <3>1 DEF StoreEffect
    <2>3. ASSUME NEW l \in Leases, Timeout(l) PROVE StoreEffect
      BY <2>3 DEF Timeout, Live, StoreEffect
    <2> QED
      BY <1>4, <2>1, <2>2, <2>3 DEF Membership
  <1>5. ASSUME FinishExpiry PROVE \E k \in Keys : ExpireKey(k)
    BY <1>5 DEF FinishExpiry, ExpireLoop
  <1>6. ASSUME UNCHANGED allVars PROVE UNCHANGED storeVars
    BY <1>6 DEF allVars, vars
  <1> QED
    BY <1>1, <1>2, <1>3, <1>4, <1>5, <1>6 DEF ControlNext, ControllerStep, RouterStep, StoreEffect

\* Every step of the control loop is a step of the store, or leaves it alone.
LEMMA ControlStepIsStoreStep ==
  ASSUME LoopInv, [ControlNext]_allVars
  PROVE  [StoreNext]_storeVars
  <1>1. ASSUME NEW n \in Nodes, Put(NodeKey(n), n, lease[n]), lease[n] \in Granted PROVE StoreNext
    <2>1. NodeKey(n) \in Keys /\ n \in Values /\ lease[n] \in Granted \cup {NoLease}
      BY <1>1, RouteKeys, ElectionAssumption
    <2> QED
      BY <1>1, <2>1 DEF StoreNext
  <1>2. ASSUME NEW c \in Controllers, NEW s \in Shards, PublishShard(c, s) PROVE StoreNext
    <2>1. /\ RouteKey(s) \in Keys /\ encodeNodes(Desired(cmembers[c])[s]) \in Values
          /\ Put(RouteKey(s), encodeNodes(Desired(cmembers[c])[s]), NoLease)
      BY <1>2, RouteKeys, PublishedText DEF PublishShard, LoopInv
    <2> QED
      BY <2>1 DEF StoreNext
  <1>3. ASSUME NEW c \in Controllers, WatchMembers(c) \/ WakeUp(c) PROVE StoreNext
    BY <1>3, ControlAssumption DEF WatchMembers, WakeUp, StoreNext
  <1>4. ASSUME NEW r \in Routers, WatchRoutes(r) \/ ApplyEvent(r) PROVE StoreNext
    BY <1>4, ControlAssumption DEF WatchRoutes, ApplyEvent, StoreNext
  <1>5. ASSUME \/ \E k \in Keys : ExpireKey(k)
               \/ Grant \/ \E l \in Granted : expire(l)
               \/ \E w \in Watchers : Cancel(w) \/ dropWatcher(w)
        PROVE  StoreNext
    BY <1>5 DEF StoreNext
  <1> QED
    BY <1>1, <1>2, <1>3, <1>4, <1>5, ControlEffect DEF StoreEffect

\* A watcher is told of every step that is not its own receive or Watch.
LEMMA ControlTells ==
  ASSUME LoopInv, [ControlNext]_allVars, NEW w \in Watchers
  PROVE  \/ Told(w)
         \/ w \in Controllers /\ (WatchMembers(w) \/ WakeUp(w))
         \/ w \in Routers /\ (WatchRoutes(w) \/ ApplyEvent(w))
  <1>0. LeaseInv
    BY DEF LoopInv, CallerInv
  <1>1. ASSUME NEW n \in Nodes, Put(NodeKey(n), n, lease[n]), lease[n] \in Granted PROVE Told(w)
    <2>1. NodeKey(n) \in Keys /\ n \in Values /\ lease[n] \in Granted \cup {NoLease}
      BY <1>1, RouteKeys, ElectionAssumption
    <2> QED
      BY <1>0, <1>1, <2>1, StoreTells
  <1>2. ASSUME NEW c \in Controllers, NEW s \in Shards, PublishShard(c, s) PROVE Told(w)
    <2>1. /\ RouteKey(s) \in Keys /\ encodeNodes(Desired(cmembers[c])[s]) \in Values
          /\ Put(RouteKey(s), encodeNodes(Desired(cmembers[c])[s]), NoLease)
          /\ NoLease \in Granted \cup {NoLease}
      BY <1>2, RouteKeys, PublishedText DEF PublishShard, LoopInv
    <2> QED
      BY <1>0, <2>1, StoreTells
  <1>3. ASSUME NEW c \in Controllers, c # w, WatchMembers(c) \/ WakeUp(c) PROVE Told(w)
    <2>1. c \in Watchers \ {w} /\ (Watch(c) \/ Recv(c))
      BY <1>3, ControlAssumption DEF WatchMembers, WakeUp
    <2> QED
      BY <1>0, <2>1, StoreTells
  <1>4. ASSUME NEW r \in Routers, r # w, WatchRoutes(r) \/ ApplyEvent(r) PROVE Told(w)
    <2>1. r \in Watchers \ {w} /\ (Watch(r) \/ Recv(r))
      BY <1>4, ControlAssumption DEF WatchRoutes, ApplyEvent
    <2> QED
      BY <1>0, <2>1, StoreTells
  <1>5. ASSUME \/ UNCHANGED storeVars
               \/ \E k \in Keys : ExpireKey(k)
               \/ Grant \/ \E l \in Granted : expire(l)
               \/ \E x \in Watchers : Cancel(x) \/ dropWatcher(x)
        PROVE  Told(w)
    BY <1>0, <1>5, StoreTells
  <1> QED
    BY <1>1, <1>2, <1>3, <1>4, <1>5, ControlEffect DEF StoreEffect

\* No process runs and nothing is registered at first.
LEMMA LoopInvInit == ControlInit => LoopInv
  BY CallerInvInit, WatchInvInit
     DEF ControlInit, LoopInv, LoopTypeOK, Init

\* Every step of controllers, routers and nodes keeps the types and the invariants of the store.
LEMMA LoopInvNext == LoopInv /\ [ControlNext]_allVars => LoopInv'
  <1> SUFFICES ASSUME LoopInv, [ControlNext]_allVars PROVE LoopInv'
    OBVIOUS
  <1> USE ControlAssumption
  <1>1. LeaseInv' /\ WatchInv'
    BY ControlStepIsStoreStep, LeaseInvNext, WatchInvNext DEF LoopInv, CallerInv
  <1>2. CallerTypeOK' /\ LeasesDistinct'
    <2>1. ASSUME NEW n \in Nodes, Start(n) PROVE CallerTypeOK' /\ LeasesDistinct'
      BY <2>1, StoreAssumption DEF Start, Grant, LoopInv, CallerInv, CallerTypeOK, LeasesDistinct,
         Granted, Leases, NoLease
    <2>2. ASSUME NEW n \in Nodes, Register(n) PROVE CallerTypeOK' /\ LeasesDistinct'
      BY <2>2 DEF Register, Put, leaseVars, LoopInv, CallerInv, CallerTypeOK, LeasesDistinct, Granted
    <2>3. ASSUME UNCHANGED <<callerVars, nextLid>> PROVE CallerTypeOK' /\ LeasesDistinct'
      BY <2>3 DEF callerVars, LoopInv, CallerInv, CallerTypeOK, LeasesDistinct, Granted
    <2>4. ASSUME NEW l \in Leases, Timeout(l) PROVE UNCHANGED <<callerVars, nextLid>>
      BY <2>4 DEF Timeout, expire
    <2>5. ASSUME FinishExpiry PROVE UNCHANGED <<callerVars, nextLid>>
      BY <2>5 DEF FinishExpiry, ExpireLoop, ExpireKey
    <2>6. ASSUME NEW c \in Controllers, ControllerStep(c) \/ StartRun(c)
          PROVE  UNCHANGED <<callerVars, nextLid>>
      BY <2>6 DEF ControllerStep, StartRun, ReadMembers, LoadAndDiff, WatchMembers, WakeUp, ReturnRun,
         PublishShard, Put, Watch, Recv, leaseVars, vars, storeVars, callerVars
    <2>7. ASSUME NEW r \in Routers, RouterStep(r) \/ SeedRouter(r)
          PROVE  UNCHANGED <<callerVars, nextLid>>
      BY <2>7 DEF RouterStep, SeedRouter, WatchRoutes, ApplyEvent, ReturnWatch, Watch, Recv, leaseVars,
         vars, storeVars, callerVars
    <2>8. ASSUME NEW p \in Watchers, EndContext(p) \/ CloseChannel(p)
          PROVE  UNCHANGED <<callerVars, nextLid>>
      BY <2>8 DEF EndContext, CloseChannel, Cancel, dropWatcher, leaseVars, storeVars
    <2>9. ASSUME UNCHANGED allVars PROVE UNCHANGED <<callerVars, nextLid>>
      BY <2>9 DEF allVars, vars, storeVars, callerVars
    <2> QED
      BY <2>1, <2>2, <2>3, <2>4, <2>5, <2>6, <2>7, <2>8, <2>9 DEF ControlNext, Membership
  <1>3. LoopTypeOK'
    <2>1. gap' \in SUBSET Watchers
      BY DEF ControlNext, ControllerStep, RouterStep, NoteGap, allVars, LoopInv, LoopTypeOK
    <2>2. ASSUME NEW c \in Controllers, ControllerStep(c) \/ StartRun(c) PROVE LoopTypeOK'
      <3>1. Members \in SUBSET Nodes /\ Diff(c) \in SUBSET Shards
        BY DEF Members, Diff
      <3>2. ASSUME NEW S \in SUBSET Shards, Publishing(c, S), UNCHANGED <<watching, rpc, stop>>
            PROVE  LoopTypeOK'
        BY <2>1, <3>2 DEF Publishing, LoopInv, LoopTypeOK
      <3>3. CASE LoadAndDiff(c)
        BY <3>1, <3>2, <3>3 DEF LoadAndDiff
      <3>4. ASSUME NEW s \in Shards, PublishShard(c, s) PROVE LoopTypeOK'
        <4>1. ctodo[c] \ {s} \in SUBSET Shards
          BY DEF LoopInv, LoopTypeOK
        <4> QED
          BY <3>2, <3>4, <4>1 DEF PublishShard
      <3>5. CASE ReadMembers(c)
        BY <2>1, <3>1, <3>5 DEF ReadMembers, LoopInv, LoopTypeOK
      <3>6. CASE WatchMembers(c) \/ WakeUp(c) \/ ReturnRun(c) \/ StartRun(c)
        BY <2>1, <3>6 DEF WatchMembers, WakeUp, ReturnRun, StartRun, LoopInv, LoopTypeOK
      <3> QED
        BY <2>2, <3>3, <3>4, <3>5, <3>6 DEF ControllerStep
    <2>3. ASSUME NEW r \in Routers, RouterStep(r) \/ SeedRouter(r) PROVE LoopTypeOK'
      BY <2>1, <2>3 DEF RouterStep, SeedRouter, WatchRoutes, ApplyEvent, ReturnWatch, ctlVars,
         LoopInv, LoopTypeOK
    <2>4. ASSUME NEW p \in Watchers, EndContext(p) \/ CloseChannel(p) PROVE LoopTypeOK'
      BY <2>1, <2>4 DEF EndContext, CloseChannel, ctlVars, cpVars, LoopInv, LoopTypeOK
    <2>5. ASSUME UNCHANGED cpVars PROVE LoopTypeOK'
      BY <2>1, <2>5 DEF cpVars, ctlVars, LoopInv, LoopTypeOK
    <2> QED
      BY <2>2, <2>3, <2>4, <2>5 DEF ControlNext, Membership, FinishExpiry, allVars
  <1> QED
    BY <1>1, <1>2, <1>3 DEF LoopInv, CallerInv

\* The control loop is a caller of the store: every behaviour of its is one of
\* the store's, so the store's theorems hold in it.
THEOREM ControlUsesStore == ControlSpec => StoreSpec
  <1>1. ControlInit => NewMemStore
    BY DEF ControlInit, Init
  <1>2. LoopInv /\ [ControlNext]_allVars => [StoreNext]_storeVars
    BY ControlStepIsStoreStep
  <1> QED
    BY <1>1, <1>2, LoopInvInit, LoopInvNext, PTL DEF ControlSpec, StoreSpec
-----------------------------------------------------------------------------
(***************************************************************************)
(* The routing table and the routers' maps.                                *)
(***************************************************************************)

\* An event of a router's channel: some shard's text was put.
IsRoutePut(e) ==
  \E s \in Shards : e.key = RouteKey(s) /\ e.type = "put" /\ e.value \in RouteTexts(s)

\* The shards' keys hold their own texts and belong to no lease, so they are
\* never deleted; the routers' channels hold puts of such texts.
RouteInv ==
  /\ \A s \in Shards : kv[RouteKey(s)] \in RouteTexts(s) \cup {Absent} /\ leaseOf[RouteKey(s)] = NoLease
  /\ \A r \in Routers : \A i \in 1..Len(buf[r]) : IsRoutePut(buf[r][i])
  /\ current \in [Routers -> [Shards -> Seq(Nodes) \cup {Absent}]]

\* A text of a shard splits into the replica set it was made of.
LEMMA TextDecodes ==
  ASSUME NEW s \in Shards, NEW m \in SUBSET Nodes
  PROVE  /\ decodeNodes(encodeNodes(Place(s, m))) = Place(s, m)
         /\ Place(s, m) \in Seq(Nodes) /\ Place(s, m) # Absent
         /\ encodeNodes(Place(s, m)) # Absent
  <1>1. s \in PlacedShards /\ m \in SUBSET PlacedNodes
    BY ControlAssumption
  <1>2. Place(s, m) \in Seq(m)
    BY <1>1, PlaceIsRanking
  <1>3. Place(s, m) \in Seq(Nodes)
    BY <1>2
  <1>4. decodeNodes(encodeNodes(Place(s, m))) = Place(s, m)
    BY <1>3, DecodeEncode
  <1> QED
    BY <1>3, <1>4, ControlAssumption, StoreAssumption

\* What Publish writes under a route key reads back as a list of nodes, and is not an absent key.
LEMMA RouteTextDecodes ==
  ASSUME NEW s \in Shards, NEW t \in RouteTexts(s)
  PROVE  decodeNodes(t) \in Seq(Nodes) /\ decodeNodes(t) # Absent /\ t # Absent
  BY TextDecodes DEF RouteTexts

\* What Load returns for a shard.
LEMMA RouteTableAt ==
  ASSUME NEW s \in Shards
  PROVE  RouteTable[s] = IF kv[RouteKey(s)] = Absent THEN Absent ELSE decodeNodes(kv[RouteKey(s)])
  BY RouteKeys DEF RouteTable, List

\* No step but a Publish changes the shards' keys, and none attaches them.
LEMMA RoutesChange ==
  ASSUME LoopInv, RouteInv, [ControlNext]_allVars
  PROVE  /\ \A s \in Shards : leaseOf'[RouteKey(s)] = NoLease
         /\ \/ \A s \in Shards : kv'[RouteKey(s)] = kv[RouteKey(s)]
            \/ \E c \in Controllers, s \in Shards : PublishShard(c, s)
         /\ \A k \in Keys : ExpireKey(k) => Prefix(k) # "route"
  <1>0. StoreTypeOK /\ LeaseBookkeeping /\ AttachmentConsistent
    BY DEF LoopInv, CallerInv, LeaseInv
  <1>1. ASSUME NEW n \in Nodes, Put(NodeKey(n), n, lease[n]), NEW s \in Shards
        PROVE  kv'[RouteKey(s)] = kv[RouteKey(s)] /\ leaseOf'[RouteKey(s)] = NoLease
    <2>1. NodeKey(n) # RouteKey(s) /\ RouteKey(s) \in Keys /\ NodeKey(n) \in Keys
      BY RouteKeys
    <2> QED
      BY <1>0, <1>1, <2>1 DEF Put, StoreTypeOK, RouteInv
  <1>2. ASSUME NEW k \in Keys, ExpireKey(k) PROVE Prefix(k) # "route"
    <2>1. leaseOf[k] = dyingLease /\ dyingLease # NoLease
      BY <1>0, <1>2 DEF ExpireKey, AttachmentConsistent, LeaseBookkeeping, Granted, NoLease
    <2> QED
      BY <2>1, RouteKeys DEF RouteInv
  <1>3. ASSUME NEW k \in Keys, ExpireKey(k), NEW s \in Shards
        PROVE  kv'[RouteKey(s)] = kv[RouteKey(s)] /\ leaseOf'[RouteKey(s)] = NoLease
    <2>1. k # RouteKey(s) /\ RouteKey(s) \in Keys
      BY <1>2, <1>3, RouteKeys
    <2> QED
      BY <1>0, <1>3, <2>1 DEF ExpireKey, del, StoreTypeOK, RouteInv
  <1>4. ASSUME NEW c \in Controllers, NEW s \in Shards, PublishShard(c, s)
        PROVE  \A t \in Shards : leaseOf'[RouteKey(t)] = NoLease
    BY <1>4 DEF PublishShard, Put, RouteInv
  <1>5. ASSUME UNCHANGED <<kv, leaseOf>>, NEW s \in Shards
        PROVE  kv'[RouteKey(s)] = kv[RouteKey(s)] /\ leaseOf'[RouteKey(s)] = NoLease
    BY <1>5 DEF RouteInv
  <1>6. ASSUME \/ UNCHANGED storeVars \/ Grant \/ \E l \in Granted : expire(l)
               \/ \E w \in Watchers : Cancel(w) \/ dropWatcher(w)
               \/ \E c \in Controllers : WatchMembers(c) \/ WakeUp(c)
               \/ \E r \in Routers : WatchRoutes(r) \/ ApplyEvent(r)
        PROVE  UNCHANGED <<kv, leaseOf>>
    BY <1>6 DEF storeVars, Grant, expire, Cancel, dropWatcher, WatchMembers, WakeUp, WatchRoutes,
       ApplyEvent, Watch, Recv
  <1> QED
    BY <1>1, <1>2, <1>3, <1>4, <1>5, <1>6, ControlEffect DEF StoreEffect

\* A fanned-out event enters a router's channel only if it is about a shard.
LEMMA FanToRouters ==
  ASSUME LoopInv, RouteInv, NEW e \in Events, fan(e), Prefix(e.key) = "route" => IsRoutePut(e),
         NEW r \in Routers, NEW i \in 1..Len(buf'[r])
  PROVE  IsRoutePut(buf'[r][i])
  <1>1. r \in Watchers /\ WatchPrefix[r] = "route" /\ buf[r] \in Seq(Events) /\ Len(buf[r]) \in Nat
    BY ControlAssumption DEF LoopInv, CallerInv, LeaseInv, StoreTypeOK
  <1>2. CASE buf'[r] = buf[r]
    BY <1>2 DEF RouteInv
  <1>3. CASE buf'[r] = Append(buf[r], e) /\ Matches(r, e)
    <2>1. IsRoutePut(e)
      BY <1>1, <1>3 DEF Matches
    <2>2. (i \in 1..Len(buf[r]) /\ buf'[r][i] = buf[r][i]) \/ buf'[r][i] = e
      BY <1>1, <1>3
    <2> QED
      BY <2>1, <2>2 DEF RouteInv
  <1> QED
    BY <1>1, <1>2, <1>3 DEF fan

\* The table is empty and no route event is queued at first.
LEMMA RouteInvInit == ControlInit => RouteInv
  <1> SUFFICES ASSUME ControlInit PROVE RouteInv
    OBVIOUS
  <1>1. \A s \in Shards : kv[RouteKey(s)] = Absent /\ leaseOf[RouteKey(s)] = NoLease
    BY RouteKeys DEF ControlInit, Init, NewMemStore
  <1>2. \A r \in Routers : buf[r] = <<>>
    BY ControlAssumption DEF ControlInit, Init, NewMemStore
  <1>3. current \in [Routers -> [Shards -> Seq(Nodes) \cup {Absent}]]
    BY DEF ControlInit
  <1> QED
    BY <1>1, <1>2, <1>3 DEF RouteInv

\* Only Publish writes route keys, it writes replica sets, and routers decode nothing else.
LEMMA RouteInvNext == LoopInv /\ RouteInv /\ [ControlNext]_allVars => RouteInv'
  <1> SUFFICES ASSUME LoopInv, RouteInv, [ControlNext]_allVars PROVE RouteInv'
    OBVIOUS
  <1>0. StoreTypeOK
    BY DEF LoopInv, CallerInv, LeaseInv
  <1>1. ASSUME NEW s \in Shards
        PROVE  kv'[RouteKey(s)] \in RouteTexts(s) \cup {Absent} /\ leaseOf'[RouteKey(s)] = NoLease
    <2>1. ASSUME NEW c \in Controllers, NEW t \in Shards, PublishShard(c, t)
          PROVE  kv'[RouteKey(s)] \in RouteTexts(s) \cup {Absent}
      <3>1. /\ kv' = [kv EXCEPT ![RouteKey(t)] = encodeNodes(Desired(cmembers[c])[t])]
            /\ encodeNodes(Desired(cmembers[c])[t]) \in RouteTexts(t)
        BY <2>1, PublishedText DEF PublishShard, Put, LoopInv
      <3> QED
        BY <1>0, <3>1, RouteKeys DEF StoreTypeOK, RouteInv
    <2> QED
      BY <2>1, RoutesChange DEF RouteInv
  <1>2. ASSUME NEW r \in Routers, NEW i \in 1..Len(buf'[r]) PROVE IsRoutePut(buf'[r][i])
    <2>0. r \in Watchers /\ buf[r] \in Seq(Events)
      BY <1>0, ControlAssumption DEF StoreTypeOK
    <2>1. ASSUME NEW n \in Nodes, Put(NodeKey(n), n, lease[n]) PROVE IsRoutePut(buf'[r][i])
      <3>1. fan(PutEvent(NodeKey(n), n)) /\ PutEvent(NodeKey(n), n).key = NodeKey(n)
        BY <2>1 DEF Put, PutEvent
      <3>2. PutEvent(NodeKey(n), n) \in Events
        BY EventTypes, RouteKeys, ElectionAssumption
      <3> QED
        BY <3>1, <3>2, RouteKeys, FanToRouters
    <2>2. ASSUME NEW c \in Controllers, NEW s \in Shards, PublishShard(c, s)
          PROVE  IsRoutePut(buf'[r][i])
      <3> DEFINE v == encodeNodes(Desired(cmembers[c])[s])
                 e == PutEvent(RouteKey(s), v)
      <3>1. fan(e) /\ v \in RouteTexts(s) /\ v \in Values
        BY <2>2, PublishedText DEF PublishShard, Put, LoopInv
      <3>2. e.key = RouteKey(s) /\ e.type = "put" /\ e.value = v
        BY DEF PutEvent
      <3>3. e \in Events /\ IsRoutePut(e)
        BY <3>1, <3>2, EventTypes, RouteKeys DEF IsRoutePut
      <3> QED
        BY <3>1, <3>3, FanToRouters
    <2>3. ASSUME NEW k \in Keys, ExpireKey(k) PROVE IsRoutePut(buf'[r][i])
      <3>1. CASE buf' = buf
        BY <3>1 DEF RouteInv
      <3>2. CASE buf' # buf
        <4>1. fan(DeleteEvent(k)) /\ DeleteEvent(k) \in Events /\ DeleteEvent(k).key = k
          BY <2>3, <3>2 DEF ExpireKey, del, DeleteEvent, Events
        <4> QED
          BY <2>3, <4>1, RoutesChange, FanToRouters
      <3> QED
        BY <3>1, <3>2
    <2>4. ASSUME buf'[r] = buf[r] \/ buf'[r] = <<>> PROVE IsRoutePut(buf'[r][i])
      BY <2>4 DEF RouteInv
    <2>5. ASSUME buf'[r] = Tail(buf[r]), buf[r] # <<>> PROVE IsRoutePut(buf'[r][i])
      <3>1. i + 1 \in 1..Len(buf[r]) /\ buf'[r][i] = buf[r][i + 1]
        BY <2>0, <2>5
      <3> QED
        BY <3>1 DEF RouteInv
    <2>6. ASSUME \/ UNCHANGED storeVars \/ Grant \/ \E l \in Granted : expire(l)
                 \/ \E w \in Watchers : Cancel(w) \/ dropWatcher(w)
          PROVE  IsRoutePut(buf'[r][i])
      BY <2>4, <2>6 DEF storeVars, Grant, expire, Cancel, dropWatcher
    <2>7. ASSUME NEW c \in Controllers, WatchMembers(c) \/ WakeUp(c) PROVE IsRoutePut(buf'[r][i])
      <3>1. buf'[r] = buf[r]
        BY <1>0, <2>0, <2>7, ControlAssumption DEF WatchMembers, WakeUp, Watch, Recv, StoreTypeOK
      <3> QED
        BY <2>4, <3>1
    <2>8. ASSUME NEW q \in Routers, WatchRoutes(q) \/ ApplyEvent(q) PROVE IsRoutePut(buf'[r][i])
      <3>1. buf'[r] = buf[r] \/ buf'[r] = <<>> \/ (buf'[r] = Tail(buf[r]) /\ buf[r] # <<>>)
        BY <1>0, <2>0, <2>8, ControlAssumption DEF WatchRoutes, ApplyEvent, Watch, Recv, StoreTypeOK
      <3> QED
        BY <2>4, <2>5, <3>1
    <2> QED
      BY <2>1, <2>2, <2>3, <2>6, <2>7, <2>8, ControlEffect DEF StoreEffect
  <1>3. current' \in [Routers -> [Shards -> Seq(Nodes) \cup {Absent}]]
    <2>1. RouteTable \in [Shards -> Seq(Nodes) \cup {Absent}]
      <3>1. \A s \in Shards : RouteTable[s] \in Seq(Nodes) \cup {Absent}
        BY RouteTableAt, RouteTextDecodes DEF RouteInv
      <3> QED
        BY <3>1 DEF RouteTable
    <2>2. ASSUME NEW r \in Routers, SeedRouter(r) PROVE current' \in [Routers -> [Shards -> Seq(Nodes) \cup {Absent}]]
      BY <2>1, <2>2 DEF SeedRouter, RouteInv
    <2>3. ASSUME NEW r \in Routers, ApplyEvent(r) PROVE current' \in [Routers -> [Shards -> Seq(Nodes) \cup {Absent}]]
      <3>1. buf[r] # <<>> /\ buf[r] \in Seq(Events)
        BY <1>0, <2>3, ControlAssumption DEF ApplyEvent, Recv, StoreTypeOK
      <3>2. IsRoutePut(Head(buf[r]))
        BY <3>1 DEF RouteInv
      <3>3. PICK s \in Shards : Head(buf[r]).key = RouteKey(s) /\ Head(buf[r]).value \in RouteTexts(s)
                                /\ Head(buf[r]).type = "put"
        BY <3>2 DEF IsRoutePut
      <3>4. decodeNodes(Head(buf[r]).value) \in Seq(Nodes)
        BY <3>3, RouteTextDecodes
      <3>5. apply(current[r], Head(buf[r])) \in [Shards -> Seq(Nodes) \cup {Absent}]
        BY <3>3, <3>4, RouteKeys DEF apply, RouteInv
      <3> QED
        BY <2>3, <3>5 DEF ApplyEvent, RouteInv
    <2>4. ASSUME current' = current PROVE current' \in [Routers -> [Shards -> Seq(Nodes) \cup {Absent}]]
      BY <2>4 DEF RouteInv
    <2> QED
      BY <2>2, <2>3, <2>4 DEF ControlNext, ControllerStep, RouterStep, ReadMembers, LoadAndDiff,
         WatchMembers, WakeUp, ReturnRun, PublishShard, StartRun, WatchRoutes, ReturnWatch, EndContext,
         CloseChannel, Membership, FinishExpiry, cpVars, allVars
  <1> QED
    BY <1>1, <1>2, <1>3 DEF RouteInv

\* The values of the control loop keep their types.
THEOREM ControlTypeCorrect == ControlSpec => []ControlTypeOK
  <1>1. LoopInv /\ RouteInv => ControlTypeOK
    BY DEF LoopInv, LoopTypeOK, RouteInv, ControlTypeOK
  <1> QED
    BY <1>1, LoopInvInit, LoopInvNext, RouteInvInit, RouteInvNext, PTL DEF ControlSpec

\* A running router never forgets a shard: the table's keys are never deleted,
\* and a put of even the empty replica set keeps the shard (routing.go, apply).
THEOREM RoutersNeverBlank == ControlSpec => NeverBlanks
  <1>1. ASSUME LoopInv, RouteInv, [ControlNext]_allVars
        PROVE  [\A r \in Routers, s \in Shards :
                  rpc[r] # "off" /\ current[r][s] # Absent => current'[r][s] # Absent]_allVars
    <2> SUFFICES ASSUME NEW r \in Routers, NEW s \in Shards, rpc[r] # "off", current[r][s] # Absent
                 PROVE  current'[r][s] # Absent
      OBVIOUS
    <2>1. ASSUME NEW q \in Routers, SeedRouter(q) PROVE current'[r][s] # Absent
      BY <1>1, <2>1 DEF SeedRouter, RouteInv
    <2>2. ASSUME NEW q \in Routers, ApplyEvent(q) PROVE current'[r][s] # Absent
      <3>1. buf[q] # <<>> /\ buf[q] \in Seq(Events)
        BY <1>1, <2>2, ControlAssumption DEF ApplyEvent, Recv, LoopInv, CallerInv, LeaseInv, StoreTypeOK
      <3>2. IsRoutePut(Head(buf[q]))
        <4>1. 1 \in 1..Len(buf[q]) /\ Head(buf[q]) = buf[q][1]
          BY <3>1
        <4> QED
          BY <1>1, <4>1 DEF RouteInv
      <3>3. PICK t \in Shards : Head(buf[q]).key = RouteKey(t) /\ Head(buf[q]).value \in RouteTexts(t)
                                /\ Head(buf[q]).type = "put"
        BY <3>2 DEF IsRoutePut
      <3>4. decodeNodes(Head(buf[q]).value) # Absent
        BY <3>3, RouteTextDecodes
      <3>5. apply(current[q], Head(buf[q])) = [current[q] EXCEPT ![t] = decodeNodes(Head(buf[q]).value)]
        BY <3>3, RouteKeys DEF apply
      <3>6. current' = [current EXCEPT ![q] = apply(current[q], Head(buf[q]))]
        BY <2>2 DEF ApplyEvent
      <3>7. current[q] \in [Shards -> Seq(Nodes) \cup {Absent}] /\ current[r] \in [Shards -> Seq(Nodes) \cup {Absent}]
        BY <1>1 DEF RouteInv
      <3>8. CASE q = r
        BY <1>1, <3>4, <3>5, <3>6, <3>7, <3>8 DEF RouteInv
      <3>9. CASE q # r
        BY <1>1, <3>6, <3>9 DEF RouteInv
      <3> QED
        BY <3>8, <3>9
    <2>3. ASSUME current' = current PROVE current'[r][s] # Absent
      BY <2>3
    <2> QED
      BY <1>1, <2>1, <2>2, <2>3 DEF ControlNext, ControllerStep, RouterStep, ReadMembers, LoadAndDiff,
         WatchMembers, WakeUp, ReturnRun, PublishShard, StartRun, WatchRoutes, ReturnWatch, EndContext,
         CloseChannel, Membership, FinishExpiry, cpVars, allVars
  <1> QED
    BY <1>1, LoopInvInit, LoopInvNext, RouteInvInit, RouteInvNext, PTL DEF ControlSpec, NeverBlanks
-----------------------------------------------------------------------------
\* The inductive invariant of the routers' maps: one that has read the table and
\* has yet to watch it holds it as it is, unless it is on record as having missed
\* a change; one that watches holds it up to the events in its channel.
MirrorInv ==
  /\ \A r \in Routers : rpc[r] = "watch" /\ r \notin gap =>
       \A s \in Shards : current[r][s] = RouteTable[s]
  /\ RouterMirrorsTable

\* The table shows a shard as it did before when the shard's key is the same.
LEMMA RouteTableSame ==
  ASSUME NEW s \in Shards, kv'[RouteKey(s)] = kv[RouteKey(s)]
  PROVE  RouteTable'[s] = RouteTable[s]
  <1>1. RouteTable'[s] = IF kv'[RouteKey(s)] = Absent THEN Absent ELSE decodeNodes(kv'[RouteKey(s)])
    BY RouteKeys DEF RouteTable, List
  <1> QED
    BY <1>1, RouteTableAt

\* A running router or controller keeps the record of a missed change, and a
\* change it is exposed to is recorded.
LEMMA GapKept ==
  ASSUME LoopInv, [ControlNext]_allVars, NEW p \in Watchers, ~ReadsNow(p),
         IF p \in Routers THEN rpc'[p] # "off" ELSE cpc'[p] # "off"
  PROVE  /\ p \in gap => p \in gap'
         /\ Exposed(p) /\ Changed(WatchPrefix[p]) => p \in gap'
  <1>1. CASE NoteGap
    BY <1>1 DEF NoteGap
  <1>2. CASE UNCHANGED allVars
    BY <1>2 DEF allVars, vars, storeVars, Changed
  <1> QED
    BY <1>1, <1>2 DEF ControlNext, ControllerStep, RouterStep

\* What becomes of one router in a step: it acts itself, or its state is left.
LEMMA RouterActs ==
  ASSUME LoopInv, RouteInv, [ControlNext]_allVars, NEW r \in Routers
  PROVE  \/ SeedRouter(r) \/ WatchRoutes(r) \/ ApplyEvent(r) \/ ReturnWatch(r)
         \/ Told(r) /\ rpc'[r] = rpc[r] /\ current'[r] = current[r]
  <1>0. r \in Watchers /\ r \notin Controllers
    BY ControlAssumption
  <1>1. Told(r) \/ WatchRoutes(r) \/ ApplyEvent(r)
    BY <1>0, ControlTells
  <1>2. ASSUME NEW q \in Routers, q # r, SeedRouter(q) \/ RouterStep(q)
        PROVE  rpc'[r] = rpc[r] /\ current'[r] = current[r]
    BY <1>2 DEF SeedRouter, RouterStep, WatchRoutes, ApplyEvent, ReturnWatch, LoopInv, LoopTypeOK,
       RouteInv
  <1>3. ASSUME UNCHANGED <<rpc, current>> PROVE rpc'[r] = rpc[r] /\ current'[r] = current[r]
    BY <1>3
  <1>4. ASSUME SeedRouter(r) \/ RouterStep(r)
        PROVE  SeedRouter(r) \/ WatchRoutes(r) \/ ApplyEvent(r) \/ ReturnWatch(r)
    BY <1>4 DEF RouterStep
  <1>5. \/ \E q \in Routers : SeedRouter(q) \/ RouterStep(q)
        \/ UNCHANGED <<rpc, current>>
    BY DEF ControlNext, ControllerStep, ReadMembers, LoadAndDiff, WatchMembers, WakeUp, ReturnRun,
       PublishShard, StartRun, EndContext, CloseChannel, Membership, FinishExpiry, cpVars, allVars
  <1> QED
    BY <1>1, <1>2, <1>3, <1>4, <1>5

\* No router runs at first.
LEMMA MirrorInvInit == ControlInit => MirrorInv
  BY DEF ControlInit, MirrorInv, RouterMirrorsTable

\* A step keeps a router equal to the table up to the events queued for it, between Load and Watch too.
LEMMA MirrorInvNext == LoopInv /\ RouteInv /\ MirrorInv /\ [ControlNext]_allVars => MirrorInv'
  <1> SUFFICES ASSUME LoopInv, RouteInv, MirrorInv, [ControlNext]_allVars, NEW r \in Routers
               PROVE  /\ rpc'[r] = "watch" /\ r \notin gap' =>
                           \A s \in Shards : current'[r][s] = RouteTable'[s]
                      /\ rpc'[r] = "run" /\ chan'[r] = "open" /\ r \notin gap' \cup lost' =>
                           \A s \in Shards : ~Pending(r, s)' => current'[r][s] = RouteTable'[s]
    BY DEF MirrorInv, RouterMirrorsTable
  <1>0. /\ StoreTypeOK /\ SendIsSafe /\ QueueIsCurrent
        /\ r \in Watchers /\ WatchPrefix[r] = "route" /\ r \notin Controllers
        /\ buf[r] \in Seq(Events) /\ Len(buf[r]) \in Nat
    BY ControlAssumption DEF LoopInv, CallerInv, LeaseInv, StoreTypeOK, WatchInv
  <1>1. CASE SeedRouter(r)
    <2>1. rpc'[r] = "watch" /\ current'[r] = RouteTable /\ kv' = kv
      BY <1>1 DEF SeedRouter, vars, storeVars, LoopInv, LoopTypeOK, RouteInv
    <2> QED
      BY <2>1, RouteTableSame
  <1>2. CASE WatchRoutes(r)
    <2>1. /\ rpc[r] = "watch" /\ rpc'[r] = "run" /\ kv' = kv /\ current' = current /\ lost' = lost \ {r}
      BY <1>2 DEF WatchRoutes, Watch, LoopInv, LoopTypeOK
    <2>2. ~ReadsNow(r)
      BY <1>0, <2>1 DEF ReadsNow
    <2>3. r \in gap => r \in gap'
      BY <1>0, <2>1, <2>2, GapKept
    <2> QED
      BY <2>1, <2>3, RouteTableSame DEF MirrorInv
  <1>3. CASE ReturnWatch(r)
    BY <1>3 DEF ReturnWatch, LoopInv, LoopTypeOK
  <1>4. CASE ApplyEvent(r)
    <2>1. /\ rpc[r] = "run" /\ rpc' = rpc /\ kv' = kv /\ chan' = chan /\ lost' = lost
          /\ buf[r] # <<>> /\ buf'[r] = Tail(buf[r])
          /\ current'[r] = apply(current[r], Head(buf[r]))
      BY <1>0, <1>4 DEF ApplyEvent, Recv, StoreTypeOK, RouteInv
    <2>2. r \in gap => r \in gap'
      <3>1. ~ReadsNow(r)
        BY <1>0, <2>1 DEF ReadsNow
      <3> QED
        BY <1>0, <2>1, <3>1, GapKept
    <2> SUFFICES ASSUME chan[r] = "open", r \notin gap \cup lost, NEW s \in Shards, ~Pending(r, s)'
                 PROVE  current'[r][s] = RouteTable[s]
      BY <2>1, <2>2, RouteTableSame
    <2>3. /\ 1 \in 1..Len(buf[r]) /\ Head(buf[r]) = buf[r][1] /\ Len(buf'[r]) = Len(buf[r]) - 1
          /\ \A i \in 1..Len(buf'[r]) : buf'[r][i] = buf[r][i + 1]
      BY <1>0, <2>1
    <2>4. PICK t \in Shards : /\ Head(buf[r]).key = RouteKey(t) /\ Head(buf[r]).type = "put"
                              /\ Head(buf[r]).value \in RouteTexts(t)
      BY <2>3 DEF RouteInv, IsRoutePut
    <2>5. current'[r] = [current[r] EXCEPT ![t] = decodeNodes(Head(buf[r]).value)]
      BY <2>1, <2>4, RouteKeys DEF apply
    <2>6. current[r] \in [Shards -> Seq(Nodes) \cup {Absent}]
      BY DEF RouteInv
    <2>7. \A i \in 2..Len(buf[r]) : buf[r][i].key # RouteKey(s)
      <3> SUFFICES ASSUME NEW i \in 2..Len(buf[r]) PROVE buf[r][i].key # RouteKey(s)
        OBVIOUS
      <3>1. i - 1 \in 1..Len(buf'[r]) /\ buf'[r][i - 1] = buf[r][i]
        BY <1>0, <2>3
      <3> QED
        BY <3>1 DEF Pending
    <2>8. CASE s = t
      <3>1. IsNewest(buf[r], RouteKey(s), 1)
        BY <2>3, <2>4, <2>7, <2>8 DEF IsNewest
      <3>2. r \in watchers \ lost /\ RouteKey(s) \in Keys
        BY <1>0, RouteKeys DEF SendIsSafe
      <3>3. Says(buf[r][1]) = kv[RouteKey(s)]
        BY <1>0, <2>3, <3>1, <3>2 DEF QueueIsCurrent
      <3>4. kv[RouteKey(s)] = Head(buf[r]).value /\ Head(buf[r]).value # Absent
        BY <2>3, <2>4, <3>3, RouteTextDecodes DEF Says
      <3> QED
        BY <2>5, <2>6, <2>8, <3>4, RouteTableAt
    <2>9. CASE s # t
      <3>1. ~Pending(r, s)
        <4>1. buf[r][1].key # RouteKey(s)
          BY <2>3, <2>4, <2>9, RouteKeys
        <4> QED
          BY <1>0, <2>7, <4>1 DEF Pending
      <3>2. current[r][s] = RouteTable[s]
        BY <2>1, <3>1 DEF MirrorInv, RouterMirrorsTable
      <3> QED
        BY <2>5, <2>6, <2>9, <3>2
    <2> QED
      BY <2>8, <2>9
  <1>5. CASE Told(r) /\ rpc'[r] = rpc[r] /\ current'[r] = current[r]
    <2>1. ASSUME rpc[r] # "off" PROVE (r \in gap => r \in gap') /\ (Exposed(r) /\ Changed("route") => r \in gap')
      <3>1. ~ReadsNow(r)
        BY <1>0, <1>5 DEF ReadsNow
      <3> QED
        BY <1>0, <1>5, <2>1, <3>1, GapKept
    <2>2. ASSUME rpc[r] = "watch", r \notin gap', NEW s \in Shards PROVE current[r][s] = RouteTable'[s]
      <3>1. Exposed(r)
        BY <2>2 DEF Exposed
      <3>2. kv'[RouteKey(s)] = kv[RouteKey(s)]
        BY <2>1, <2>2, <3>1, RouteKeys DEF Changed
      <3> QED
        BY <2>1, <2>2, <3>2, RouteTableSame DEF MirrorInv
    <2>3. ASSUME rpc[r] = "run", chan'[r] = "open", r \notin gap' \cup lost', NEW s \in Shards,
                 ~Pending(r, s)'
          PROVE  current[r][s] = RouteTable'[s]
      <3>1. chan[r] = "open" /\ r \notin gap \cup lost
        BY <1>5, <2>1, <2>3 DEF Told
      <3>2. r \in watchers
        BY <1>0, <3>1 DEF SendIsSafe
      <3>3. ~Queued(buf'[r], RouteKey(s))
        BY <2>3 DEF Pending, Queued
      <3>4. ~Queued(buf[r], RouteKey(s)) /\ kv'[RouteKey(s)] = kv[RouteKey(s)]
        BY <1>0, <1>5, <2>3, <3>2, <3>3, RouteKeys DEF Told
      <3>5. ~Pending(r, s)
        BY <3>4 DEF Pending, Queued
      <3> QED
        BY <2>3, <3>1, <3>4, <3>5, RouteTableSame DEF MirrorInv, RouterMirrorsTable
    <2> QED
      BY <1>5, <2>2, <2>3
  <1> QED
    BY <1>1, <1>2, <1>3, <1>4, <1>5, RouterActs

\* A router that watches and has missed nothing holds the table, up to the events
\* still in its channel, for every interleaving of publishers, expiries, drops
\* and restarts (routing.go, Watch and apply).
THEOREM RoutersMirrorTable == ControlSpec => []RouterMirrorsTable
  <1>1. MirrorInv => RouterMirrorsTable
    BY DEF MirrorInv
  <1> QED
    BY <1>1, LoopInvInit, LoopInvNext, RouteInvInit, RouteInvNext, MirrorInvInit, MirrorInvNext, PTL
       DEF ControlSpec
-----------------------------------------------------------------------------
(***************************************************************************)
(* The controllers, when a successor waits for its predecessor.            *)
(***************************************************************************)

\* Nothing has told the controller of a change since it read the membership.
Unwarned(c) == c \notin gap /\ (watching[c] => chan[c] = "open" /\ buf[c] = <<>>)

\* The inductive invariant of the controllers, one of which runs at a time: as
\* long as it is unwarned, the membership it works from is the present one, what
\* it has published so far is the assignment of that membership, and once it has
\* published everything so is the whole table.
PhaseInv ==
  /\ \A c, d \in Controllers : cpc[c] # "off" /\ cpc[d] # "off" => c = d
  /\ \A c \in Controllers :
       /\ cpc[c] = "wait" => watching[c]
       /\ cpc[c] = "watch" => ~watching[c]
       /\ Unwarned(c) /\ cpc[c] \in {"load", "publish"} => cmembers[c] = Members
       /\ cpc[c] = "publish" => \A s \in Shards \ ctodo[c] :
            NodesOf(RouteTable, s) = Desired(cmembers[c])[s]
       /\ Unwarned(c) /\ cpc[c] \in {"watch", "wait"} => TableIsDesired

\* The node list of a shard depends on the shard's key alone.
LEMMA NodesOfSame ==
  ASSUME NEW s \in Shards, kv'[RouteKey(s)] = kv[RouteKey(s)]
  PROVE  NodesOf(RouteTable, s)' = NodesOf(RouteTable, s)
  BY RouteTableSame DEF NodesOf

\* A step that leaves a controller where it is either warns it or changes
\* neither its warnings nor the membership.
LEMMA WarnedOrSame ==
  ASSUME LoopInv, [ControlNext]_allVars, NEW c \in Controllers, Told(c),
         cpc'[c] = cpc[c], watching'[c] = watching[c], cpc[c] \in {"load", "publish", "watch", "wait"},
         cpc[c] = "wait" => watching[c], Unwarned(c)'
  PROVE  Unwarned(c) /\ Members' = Members
  <1>0. c \in Watchers /\ c \notin Routers /\ WatchPrefix[c] = "node" /\ SendIsSafe
    BY ControlAssumption DEF LoopInv, WatchInv
  <1>1. (c \in gap => c \in gap') /\ (Exposed(c) /\ Changed("node") => c \in gap')
    <2>1. ~ReadsNow(c)
      BY <1>0 DEF ReadsNow
    <2> QED
      BY <1>0, <2>1, GapKept
  <1>2. Unwarned(c)
    BY <1>1 DEF Unwarned, Told
  <1>3. ASSUME NEW n \in Nodes PROVE kv'[NodeKey(n)] = kv[NodeKey(n)]
    <2>1. CASE watching[c]
      <3>1. c \in watchers /\ buf'[c] = <<>>
        BY <1>0, <1>2, <2>1 DEF Unwarned, SendIsSafe
      <3> QED
        BY <1>0, <3>1, RouteKeys DEF Told
    <2>2. CASE ~watching[c]
      <3>1. Exposed(c)
        BY <2>2 DEF Exposed
      <3> QED
        BY <1>1, <3>1, RouteKeys DEF Changed, Unwarned
    <2> QED
      BY <2>1, <2>2
  <1> QED
    BY <1>2, <1>3 DEF Members

\* What becomes of one controller in a step: it acts itself, or its state is left.
LEMMA ControllerActs ==
  ASSUME LoopInv, [ControlNext]_allVars, NEW c \in Controllers
  PROVE  \/ StartRun(c) \/ ReadMembers(c) \/ LoadAndDiff(c) \/ WatchMembers(c) \/ WakeUp(c)
         \/ ReturnRun(c) \/ \E s \in Shards : PublishShard(c, s)
         \/ /\ Told(c) /\ cpc'[c] = cpc[c] /\ watching'[c] = watching[c]
            /\ cmembers'[c] = cmembers[c] /\ ctodo'[c] = ctodo[c]
  <1>0. c \in Watchers /\ c \notin Routers
    BY ControlAssumption
  <1>1. Told(c) \/ WatchMembers(c) \/ WakeUp(c)
    BY <1>0, ControlTells
  <1>2. ASSUME NEW d \in Controllers, d # c, StartRun(d) \/ ControllerStep(d)
        PROVE  /\ cpc'[c] = cpc[c] /\ watching'[c] = watching[c]
               /\ cmembers'[c] = cmembers[c] /\ ctodo'[c] = ctodo[c]
    BY <1>2 DEF StartRun, ControllerStep, ReadMembers, LoadAndDiff, WatchMembers, WakeUp, ReturnRun,
       PublishShard, Publishing, LoopInv, LoopTypeOK
  <1>3. ASSUME UNCHANGED ctlVars
        PROVE  /\ cpc'[c] = cpc[c] /\ watching'[c] = watching[c]
               /\ cmembers'[c] = cmembers[c] /\ ctodo'[c] = ctodo[c]
    BY <1>3 DEF ctlVars
  <1>4. \/ \E d \in Controllers : StartRun(d) \/ ControllerStep(d)
        \/ UNCHANGED ctlVars
    BY DEF ControlNext, RouterStep, WatchRoutes, ApplyEvent, ReturnWatch, SeedRouter, EndContext,
       CloseChannel, Membership, FinishExpiry, cpVars, allVars
  <1>5. ASSUME StartRun(c) \/ ControllerStep(c)
        PROVE  \/ StartRun(c) \/ ReadMembers(c) \/ LoadAndDiff(c) \/ WatchMembers(c) \/ WakeUp(c)
               \/ ReturnRun(c) \/ \E s \in Shards : PublishShard(c, s)
    BY <1>5 DEF ControllerStep
  <1> QED
    BY <1>1, <1>2, <1>3, <1>4, <1>5

\* No controller runs at first.
LEMMA PhaseInvInit == ControlInit => PhaseInv
  BY DEF ControlInit, PhaseInv

\* One controller runs at a time.
LEMMA OneRuns ==
  ASSUME LoopInv, PhaseInv, StrictHandover, [ControlNext]_allVars
  PROVE  \A c, d \in Controllers : cpc'[c] # "off" /\ cpc'[d] # "off" => c = d
  <1>1. ASSUME NEW c \in Controllers, cpc'[c] # "off" PROVE cpc[c] # "off" \/ StartRun(c)
    BY <1>1, ControllerActs DEF ReadMembers, LoadAndDiff, WatchMembers, WakeUp, ReturnRun, PublishShard
  <1>2. ASSUME NEW c \in Controllers, StartRun(c), NEW d \in Controllers, d # c PROVE cpc'[d] = "off"
    BY <1>2 DEF StartRun, LoopInv, LoopTypeOK
  <1> QED
    BY <1>1, <1>2 DEF PhaseInv

\* A step keeps what a controller knows in each phase of Reconcile true of the table and the membership.
LEMMA PhaseInvNext ==
  StrictHandover /\ LoopInv /\ RouteInv /\ PhaseInv /\ [ControlNext]_allVars => PhaseInv'
  <1> SUFFICES ASSUME StrictHandover, LoopInv, RouteInv, PhaseInv, [ControlNext]_allVars,
                      NEW c \in Controllers
               PROVE  /\ cpc'[c] = "wait" => watching'[c]
                      /\ cpc'[c] = "watch" => ~watching'[c]
                      /\ Unwarned(c)' /\ cpc'[c] \in {"load", "publish"} => cmembers'[c] = Members'
                      /\ cpc'[c] = "publish" => \A s \in Shards \ ctodo'[c] :
                           NodesOf(RouteTable, s)' = Desired(cmembers'[c])[s]
                      /\ Unwarned(c)' /\ cpc'[c] \in {"watch", "wait"} => TableIsDesired'
    BY OneRuns DEF PhaseInv
  <1>0. LoopTypeOK /\ StoreTypeOK /\ c \in Watchers /\ c \notin Routers
    BY ControlAssumption DEF LoopInv, CallerInv, LeaseInv
  <1>1. CASE StartRun(c)
    BY <1>0, <1>1 DEF StartRun, LoopTypeOK
  <1>2. CASE ReadMembers(c)
    <2>1. cpc'[c] = "load" /\ cmembers'[c] = Members /\ kv' = kv
      BY <1>0, <1>2 DEF ReadMembers, LoopTypeOK, vars, storeVars
    <2> QED
      BY <2>1 DEF Members
  <1>3. CASE WakeUp(c)
    BY <1>0, <1>3 DEF WakeUp, LoopTypeOK
  <1>4. CASE ReturnRun(c)
    BY <1>0, <1>4 DEF ReturnRun, LoopTypeOK
  <1>5. CASE WatchMembers(c)
    <2>1. /\ cpc[c] = "watch" /\ cpc'[c] = "wait" /\ watching'[c] /\ kv' = kv
      BY <1>0, <1>5 DEF WatchMembers, Watch, LoopTypeOK
    <2>2. c \in gap => c \in gap'
      <3>1. ~ReadsNow(c)
        BY <1>0, <2>1 DEF ReadsNow
      <3> QED
        BY <1>0, <2>1, <3>1, GapKept
    <2>3. Unwarned(c)' => TableIsDesired
      BY <2>1, <2>2 DEF Unwarned, PhaseInv
    <2>4. TableIsDesired => TableIsDesired'
      BY <2>1, NodesOfSame DEF TableIsDesired, Members
    <2> QED
      BY <2>1, <2>3, <2>4
  <1>6. ASSUME NEW S \in SUBSET Shards, Publishing(c, S), watching' = watching,
               UNCHANGED <<buf, chan>> \/ Told(c), cpc[c] \in {"load", "publish"},
               Members' = Members, Unwarned(c) => cmembers[c] = Members,
               \A s \in Shards \ S : NodesOf(RouteTable, s)' = Desired(cmembers[c])[s]
        PROVE  /\ cpc'[c] = "wait" => watching'[c]
               /\ cpc'[c] = "watch" => ~watching'[c]
               /\ Unwarned(c)' /\ cpc'[c] \in {"load", "publish"} => cmembers'[c] = Members'
               /\ cpc'[c] = "publish" => \A s \in Shards \ ctodo'[c] :
                    NodesOf(RouteTable, s)' = Desired(cmembers'[c])[s]
               /\ Unwarned(c)' /\ cpc'[c] \in {"watch", "wait"} => TableIsDesired'
    <2>1. cpc'[c] \in {"publish", "watch", "wait"}
      BY <1>0, <1>6 DEF Publishing, LoopTypeOK
    <2>2. c \in gap => c \in gap'
      <3>1. ~ReadsNow(c)
        BY <1>0, <1>6 DEF ReadsNow
      <3> QED
        BY <1>0, <2>1, <3>1, GapKept
    <2>3. Unwarned(c)' => Unwarned(c)
      BY <1>6, <2>2 DEF Unwarned, Told
    <2>4. CASE S # {}
      <3>1. cpc'[c] = "publish" /\ cmembers' = cmembers /\ ctodo'[c] = S
        BY <1>0, <1>6, <2>4 DEF Publishing, LoopTypeOK
      <3> QED
        BY <1>6, <2>3, <3>1
    <2>5. CASE S = {}
      <3>1. cpc'[c] = (IF watching[c] THEN "wait" ELSE "watch")
        BY <1>0, <1>6, <2>5 DEF Publishing, LoopTypeOK
      <3>2. Unwarned(c)' => TableIsDesired'
        <4> SUFFICES ASSUME Unwarned(c)', NEW s \in Shards
                     PROVE  NodesOf(RouteTable, s)' = Desired(Members')[s]
          BY DEF TableIsDesired
        <4>1. cmembers[c] = Members'
          BY <1>6, <2>3
        <4> QED
          BY <1>6, <2>5, <4>1
      <3> QED
        BY <1>6, <3>1, <3>2
    <2> QED
      BY <2>4, <2>5
  <1>7. CASE LoadAndDiff(c)
    <2>1. /\ cpc[c] = "load" /\ Publishing(c, Diff(c)) /\ watching' = watching /\ UNCHANGED <<kv, buf, chan>>
      BY <1>7 DEF LoadAndDiff, vars, storeVars
    <2>2. Diff(c) \in SUBSET Shards /\ Members' = Members
      BY <2>1 DEF Diff, Members
    <2>3. \A s \in Shards \ Diff(c) : NodesOf(RouteTable, s)' = Desired(cmembers[c])[s]
      BY <2>1, NodesOfSame DEF Diff
    <2>4. Unwarned(c) => cmembers[c] = Members
      BY <2>1 DEF PhaseInv
    <2> QED
      BY <1>6, <2>1, <2>2, <2>3, <2>4
  <1>8. ASSUME NEW s \in Shards, PublishShard(c, s)
        PROVE  /\ cpc'[c] = "wait" => watching'[c]
               /\ cpc'[c] = "watch" => ~watching'[c]
               /\ Unwarned(c)' /\ cpc'[c] \in {"load", "publish"} => cmembers'[c] = Members'
               /\ cpc'[c] = "publish" => \A t \in Shards \ ctodo'[c] :
                    NodesOf(RouteTable, t)' = Desired(cmembers'[c])[t]
               /\ Unwarned(c)' /\ cpc'[c] \in {"watch", "wait"} => TableIsDesired'
    <2> DEFINE text == encodeNodes(Desired(cmembers[c])[s])
    <2>1. /\ cpc[c] = "publish" /\ Publishing(c, ctodo[c] \ {s}) /\ watching' = watching
          /\ Put(RouteKey(s), text, NoLease) /\ kv' = [kv EXCEPT ![RouteKey(s)] = text]
      BY <1>8 DEF PublishShard, Put
    <2>2. Told(c)
      <3>1. RouteKey(s) \in Keys /\ text \in Values /\ NoLease \in Granted \cup {NoLease} /\ LeaseInv
        BY <1>0, RouteKeys, PublishedText DEF LoopInv, CallerInv
      <3> QED
        BY <1>0, <2>1, <3>1, StoreTells
    <2>3. Members' = Members
      <3>1. \A n \in Nodes : kv'[NodeKey(n)] = kv[NodeKey(n)]
        BY <1>0, <2>1, RouteKeys DEF StoreTypeOK
      <3> QED
        BY <3>1 DEF Members
    <2>4. NodesOf(RouteTable, s)' = Desired(cmembers[c])[s]
      <3>1. cmembers[c] \in SUBSET Nodes /\ Desired(cmembers[c])[s] = Place(s, cmembers[c])
        BY <1>0, PublishedText DEF LoopTypeOK
      <3>2. kv'[RouteKey(s)] = text
        BY <1>0, <2>1, RouteKeys DEF StoreTypeOK
      <3>3. RouteTable'[s] = IF kv'[RouteKey(s)] = Absent THEN Absent ELSE decodeNodes(kv'[RouteKey(s)])
        BY RouteKeys DEF RouteTable, List
      <3>4. RouteTable'[s] = Place(s, cmembers[c]) /\ RouteTable'[s] # Absent
        BY <3>1, <3>2, <3>3, TextDecodes
      <3> QED
        BY <3>1, <3>4 DEF NodesOf
    <2>5. ASSUME NEW t \in Shards \ (ctodo[c] \ {s}) PROVE NodesOf(RouteTable, t)' = Desired(cmembers[c])[t]
      <3>1. CASE t = s
        BY <2>4, <3>1
      <3>2. CASE t # s
        <4>1. kv'[RouteKey(t)] = kv[RouteKey(t)]
          BY <1>0, <2>1, <3>2, RouteKeys DEF StoreTypeOK
        <4>2. NodesOf(RouteTable, t) = Desired(cmembers[c])[t]
          BY <2>1, <3>2 DEF PhaseInv
        <4> QED
          BY <4>1, <4>2, NodesOfSame
      <3> QED
        BY <3>1, <3>2
    <2>6. ctodo[c] \ {s} \in SUBSET Shards /\ (Unwarned(c) => cmembers[c] = Members)
      BY <1>0, <2>1 DEF PhaseInv, LoopTypeOK
    <2> HIDE DEF text
    <2> QED
      BY <1>6, <2>1, <2>2, <2>3, <2>5, <2>6
  <1>9. CASE /\ Told(c) /\ cpc'[c] = cpc[c] /\ watching'[c] = watching[c]
             /\ cmembers'[c] = cmembers[c] /\ ctodo'[c] = ctodo[c]
    <2>1. CASE cpc[c] = "off" \/ cpc[c] = "members"
      BY <1>9, <2>1
    <2>2. CASE cpc[c] \in {"load", "publish", "watch", "wait"}
      <3>1. CASE \E d \in Controllers, s \in Shards : PublishShard(d, s)
        <4>1. PICK d \in Controllers, s \in Shards : PublishShard(d, s)
          BY <3>1
        <4>2. cpc[d] = "publish"
          BY <4>1 DEF PublishShard
        <4>3. d = c
          BY <2>2, <4>2 DEF PhaseInv
        <4> QED
          BY <1>8, <4>1, <4>3
      <3>2. CASE \A s \in Shards : kv'[RouteKey(s)] = kv[RouteKey(s)]
        <4>1. \A s \in Shards : NodesOf(RouteTable, s)' = NodesOf(RouteTable, s)
          BY <3>2, NodesOfSame
        <4>2. Unwarned(c)' => Unwarned(c) /\ Members' = Members
          BY <1>9, <2>2, WarnedOrSame DEF PhaseInv
        <4>3. Unwarned(c)' /\ TableIsDesired => TableIsDesired'
          BY <4>1, <4>2 DEF TableIsDesired
        <4> QED
          BY <1>9, <4>1, <4>2, <4>3 DEF PhaseInv
      <3> QED
        BY <3>1, <3>2, RoutesChange
    <2> QED
      BY <1>0, <2>1, <2>2 DEF LoopTypeOK
  <1> QED
    BY <1>1, <1>2, <1>3, <1>4, <1>5, <1>7, <1>8, <1>9, ControllerActs

\* A controller that waits with nothing queued and missed nothing before its
\* Watch has published exactly the assignment of the present membership, however
\* many of its events were dropped, provided a successor waits for its
\* predecessor (placement.go, Run and Reconcile).
THEOREM WaitingIsDone == StrictHandover /\ ControlSpec => []WaitingMeansDone
  <1>1. PhaseInv => WaitingMeansDone
    BY DEF PhaseInv, WaitingMeansDone, Waiting, Unwarned
  <1>2. CASE StrictHandover
    BY <1>1, <1>2, LoopInvInit, LoopInvNext, RouteInvInit, RouteInvNext, PhaseInvInit, PhaseInvNext, PTL
       DEF ControlSpec
  <1> QED
    BY <1>2
=============================================================================
