------------------------------ MODULE Election ------------------------------
(***************************************************************************)
(* Membership and leader election over the coordination store              *)
(* (control/membership.go, control/election.go).                           *)
(*                                                                         *)
(* A node takes a lease, registers itself under it and may campaign for a  *)
(* role.  What the callers of Campaign do with its answer is not in the    *)
(* repository's code; the comments say that the winner acts as the leader  *)
(* until it resigns or its lease expires, and won records that belief.  A  *)
(* lease may expire at any time (missed keepalives), without its node      *)
(* noticing, and a node may crash and come back with a new lease while its *)
(* old one is still alive.                                                 *)
(*                                                                         *)
(* Neither Campaign nor Resign looks at the state of the caller's lease,   *)
(* and Resign does not look at who holds the key.  CautiousCallers says    *)
(* whether the callers make up for that by calling them only while their   *)
(* lease is alive.                                                         *)
(***************************************************************************)
EXTENDS MemStore

CONSTANT CautiousCallers

ASSUME ElectionAssumption ==
  /\ CautiousCallers \in BOOLEAN
  /\ Nodes \subseteq Values

VARIABLES
  lease,      \* node -> the lease it works under, or NoLease
  registered, \* node -> it has registered under that lease and not left
  won         \* node -> the roles it believes to lead

vars == <<storeVars, lease, registered, won>>

callerVars == <<lease, registered, won>>

Alive(n)   == lease[n] \in Live
MayCall(n) == lease[n] # NoLease /\ (CautiousCallers => Alive(n))

-----------------------------------------------------------------------------
Init ==
  /\ NewMemStore
  /\ lease = [n \in Nodes |-> NoLease]
  /\ registered = [n \in Nodes |-> FALSE]
  /\ won = [n \in Nodes |-> {}]

\* A node starts, or restarts after a crash: it takes a new lease and has
\* forgotten what it was.
Start(n) ==
  /\ Grant
  /\ lease' = [lease EXCEPT ![n] = nextLid]
  /\ registered' = [registered EXCEPT ![n] = FALSE]
  /\ won' = [won EXCEPT ![n] = {}]

Register(n) ==
  /\ MayCall(n)
  /\ Put(NodeKey(n), n, lease[n])
  /\ registered' = [registered EXCEPT ![n] = TRUE]
  /\ UNCHANGED <<lease, won>>

\* A slip: the claim is written outright instead of created.
CampaignByPut(n, r) ==
  /\ MayCall(n)
  /\ r \notin won[n]
  /\ Put(LeaderKey(r), n, lease[n])
  /\ won' = [won EXCEPT ![n] = @ \cup {r}]
  /\ UNCHANGED <<lease, registered>>

\* A slip: the claim is not tied to the lease.
CampaignUnleased(n, r) ==
  /\ MayCall(n)
  /\ r \notin won[n]
  /\ Create(LeaderKey(r), n, NoLease)
  /\ won' = [won EXCEPT ![n] = @ \cup {r}]
  /\ UNCHANGED <<lease, registered>>

Campaign(n, r) ==
  /\ MayCall(n)
  /\ r \notin won[n]
  /\ Create(LeaderKey(r), n, lease[n])
  /\ won' = [won EXCEPT ![n] = @ \cup {r}]
  /\ UNCHANGED <<lease, registered>>

\* Campaign returns false to a candidate that finds the key.
CampaignLost(n, r) ==
  /\ MayCall(n)
  /\ r \notin won[n]
  /\ CreateFails(LeaderKey(r))
  /\ UNCHANGED callerVars

\* Resign deletes the key, whoever wrote it.
Resign(n, r) ==
  /\ MayCall(n)
  /\ r \in won[n]
  /\ Delete(LeaderKey(r))
  /\ won' = [won EXCEPT ![n] = @ \ {r}]
  /\ UNCHANGED <<lease, registered>>

\* A leader finds out that its lease is gone and stops leading.
StepDown(n) ==
  /\ won[n] # {}
  /\ ~Alive(n)
  /\ won' = [won EXCEPT ![n] = {}]
  /\ UNCHANGED <<storeVars, lease, registered>>

\* A node leaves in good order by revoking its lease.
Leave(n) ==
  /\ lease[n] # NoLease
  /\ expire(lease[n])
  /\ lease' = [lease EXCEPT ![n] = NoLease]
  /\ registered' = [registered EXCEPT ![n] = FALSE]
  /\ won' = [won EXCEPT ![n] = {}]

\* A lease times out.
Timeout(l) ==
  /\ l \in Live
  /\ expire(l)
  /\ UNCHANGED callerVars

ExpireLoop == \E k \in Keys : ExpireKey(k) /\ UNCHANGED callerVars

Observe(w) ==
  /\ Watch(w) \/ Cancel(w) \/ dropWatcher(w) \/ Recv(w)
  /\ UNCHANGED callerVars

Next ==
  \/ \E n \in Nodes : Start(n) \/ Register(n) \/ StepDown(n) \/ Leave(n)
  \/ \E n \in Nodes, r \in Roles : Campaign(n, r) \/ CampaignLost(n, r) \/ Resign(n, r)
  \/ \E l \in Leases : Timeout(l)
  \/ ExpireLoop
  \/ \E w \in Watchers : Observe(w)

Spec == Init /\ [][Next]_vars

\* The expire loop runs in one goroutine that holds the lock and never waits:
\* once begun it is carried through.
FairSpec == Spec /\ WF_vars(ExpireLoop)

-----------------------------------------------------------------------------
Members == {n \in Nodes : kv[NodeKey(n)] # Absent}
Leader(r) == kv[LeaderKey(r)]

TypeOK ==
  /\ StoreTypeOK
  /\ lease \in [Nodes -> Leases \cup {NoLease}]
  /\ registered \in [Nodes -> BOOLEAN]
  /\ won \in [Nodes -> SUBSET Roles]

\* A node that won a role, has not resigned it and whose lease is alive is the
\* one the store names (election.go, Campaign: "the winner stays leader until it
\* Resigns or its lease expires").  So two nodes with live leases never both
\* believe to lead a role.
LiveLeaderHoldsKey ==
  \A n \in Nodes, r \in Roles :
    r \in won[n] /\ Alive(n) => Leader(r) = n /\ leaseOf[LeaderKey(r)] = lease[n]

\* A node that registered under a lease that is alive is a member, whatever
\* became of the leases it had before a restart (membership.go, Register; the
\* old lease expires after the key moved to the new one).
RegisteredIsMember ==
  \A n \in Nodes : registered[n] /\ Alive(n) => n \in Members

\* A leader or member key never hangs on a lease that is gone, save while that
\* lease's keys are being deleted: otherwise nothing would ever free it.
HeldByLiveLease ==
  \A k \in Keys : kv[k] # Absent => leaseOf[k] \in Live \/ k \in dying

\* A role whose leader's lease ended becomes free for the next candidate
\* (election.go, "yields to the next candidate without a human in the loop").
DeadLeaderYields ==
  \A r \in Roles : Leader(r) # Absent /\ leaseOf[LeaderKey(r)] \in ended
                     ~> Leader(r) = Absent
=============================================================================
