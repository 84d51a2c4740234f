---------------------------- MODULE ControlPlane ----------------------------
(***************************************************************************)
(* The control loop: the placement controller turns the membership into    *)
(* the routing table (control/placement.go) and the serving nodes' routers *)
(* follow the table (control/routing.go), both over the coordination store *)
(* and its membership (MemStore, Election).                                *)
(*                                                                         *)
(* Each store call is one step, so the calls of Reconcile, Publish, Run    *)
(* and of a router's start-up interleave with everything else.  The        *)
(* controllers are the successive holders of leadership: one whose context *)
(* has ended still finishes the Reconcile it is in, because the store's    *)
(* methods ignore the context.  StrictHandover says whether a successor    *)
(* waits for its predecessor's Run to return.                              *)
(***************************************************************************)
EXTENDS Election, Placement

CONSTANTS
  Controllers, Routers,
  NL,             \* the newline
  StrictHandover, \* see above
  Stoppable       \* bound: the controllers and routers whose context may end

\* The text of a replica set: the ids joined by newlines.  An id is one symbol.
encodeNodes(nodes) ==
  [i \in 1..(IF nodes = <<>> THEN 0 ELSE 2 * Len(nodes) - 1) |->
     IF i % 2 = 1 THEN nodes[(i + 1) \div 2] ELSE NL]

\* Splitting at the newlines leaves the symbols at the odd places.
decodeNodes(text) == [i \in 1..((Len(text) + 1) \div 2) |-> text[2 * i - 1]]

ASSUME ControlAssumption ==
  /\ Watchers = Controllers \cup Routers /\ Controllers \cap Routers = {}
  /\ \A c \in Controllers : WatchPrefix[c] = "node"
  /\ \A r \in Routers : WatchPrefix[r] = "route"
  /\ PlacedShards = Shards /\ PlacedNodes = Nodes
  /\ NL \notin Nodes
  /\ \A s \in Shards, m \in SUBSET Nodes :
       encodeNodes(Place(s, m)) \in Values /\ Place(s, m) # Absent

VARIABLES
  cpc,      \* controller -> "off", "members", "load", "publish", "watch" or "wait"
  cmembers, \* controller -> the membership it last read
  ctodo,    \* controller -> the shards it has yet to publish
  watching, \* controller -> this Run has called Watch
  rpc,      \* router -> "off", "watch" or "run"
  current,  \* router -> its map, from a shard to a node list or Absent
  stop,     \* the controllers and routers whose context has ended
  gap       \* history: those a change under their prefix has escaped between
            \* their read and their Watch

ctlVars == <<cpc, cmembers, ctodo, watching>>
cpVars  == <<ctlVars, rpc, current, stop>>
allVars == <<vars, cpVars, gap>>

-----------------------------------------------------------------------------
\* Load, one List of the store.
RouteTable ==
  LET kvs == List("route") IN
  [s \in Shards |-> IF RouteKey(s) \in DOMAIN kvs THEN decodeNodes(kvs[RouteKey(s)])
                   ELSE Absent]

\* The node list of a shard; the zero ReplicaSet of a missing one has none.
NodesOf(table, s) == IF table[s] = Absent THEN <<>> ELSE table[s]

ControlInit ==
  /\ Init
  /\ cpc = [c \in Controllers |-> "off"]
  /\ cmembers = [c \in Controllers |-> {}]
  /\ ctodo = [c \in Controllers |-> {}]
  /\ watching = [c \in Controllers |-> FALSE]
  /\ rpc = [r \in Routers |-> "off"]
  /\ current = [r \in Routers |-> [s \in Shards |-> Absent]]
  /\ stop = {}
  /\ gap = {}

\* A Reconcile has these shards left to publish.  When none is left it returns,
\* its locals are gone, and Run goes on: to Watch after the first Reconcile, to
\* its loop after the others.
Publishing(c, shards) ==
  /\ ctodo' = [ctodo EXCEPT ![c] = shards]
  /\ IF shards # {} THEN cpc' = [cpc EXCEPT ![c] = "publish"] /\ UNCHANGED cmembers
     ELSE /\ cpc' = [cpc EXCEPT ![c] = IF watching[c] THEN "wait" ELSE "watch"]
          /\ cmembers' = [cmembers EXCEPT ![c] = {}]

\* A slip: a new leader waits for the first event before it reconciles.
StartRunWatchFirst(c) ==
  /\ cpc[c] = "off" /\ chan[c] \in {"none", "closed"}
  /\ \A d \in Controllers \ {c} :
       cpc[d] = "off" \/ (~StrictHandover /\ d \in stop)
  /\ cpc' = [cpc EXCEPT ![c] = "watch"]
  /\ watching' = [watching EXCEPT ![c] = FALSE]
  /\ stop' = stop \ {c}
  /\ UNCHANGED <<vars, cmembers, ctodo, rpc, current>>

\* Leadership passes to c, which calls Run.
StartRun(c) ==
  /\ cpc[c] = "off" /\ chan[c] \in {"none", "closed"}
  /\ \A d \in Controllers \ {c} :
       cpc[d] = "off" \/ (~StrictHandover /\ d \in stop)
  /\ cpc' = [cpc EXCEPT ![c] = "members"]
  /\ watching' = [watching EXCEPT ![c] = FALSE]
  /\ stop' = stop \ {c}
  /\ UNCHANGED <<vars, cmembers, ctodo, rpc, current>>

ReadMembers(c) ==
  /\ cpc[c] = "members" /\ Idle
  /\ cmembers' = [cmembers EXCEPT ![c] = Members]
  /\ cpc' = [cpc EXCEPT ![c] = "load"]
  /\ UNCHANGED <<vars, ctodo, watching, rpc, current, stop>>

\* A slip: only shards that are in the table already are compared.
DiffKnownOnly(c) ==
  {s \in Shards : RouteTable[s] # Absent /\ RouteTable[s] # Place(s, cmembers[c])}

\* The shards whose replica set differs from the desired one.
Diff(c) == {s \in Shards : NodesOf(RouteTable, s) # Desired(cmembers[c])[s]}

LoadAndDiff(c) ==
  /\ cpc[c] = "load" /\ Idle
  /\ Publishing(c, Diff(c))
  /\ UNCHANGED <<vars, watching, rpc, current, stop>>

\* One Put of Publish, which ranges over the diff in any order.
PublishShard(c, s) ==
  /\ cpc[c] = "publish" /\ s \in ctodo[c]
  /\ Put(RouteKey(s), encodeNodes(Desired(cmembers[c])[s]), NoLease)
  /\ Publishing(c, ctodo[c] \ {s})
  /\ UNCHANGED <<callerVars, watching, rpc, current, stop>>

WatchMembers(c) ==
  /\ cpc[c] = "watch"
  /\ Watch(c)
  /\ watching' = [watching EXCEPT ![c] = TRUE]
  /\ cpc' = [cpc EXCEPT ![c] = "wait"]
  /\ UNCHANGED <<callerVars, cmembers, ctodo, rpc, current, stop>>

\* A slip: the loop takes the event and reconciles only on a registration.
WakeOnPutOnly(c) ==
  /\ cpc[c] = "wait"
  /\ Recv(c)
  /\ cpc' = [cpc EXCEPT ![c] = IF Head(buf[c]).type = "put" THEN "members" ELSE "wait"]
  /\ UNCHANGED <<callerVars, cmembers, ctodo, watching, rpc, current, stop>>

\* Any event wakes the loop, which reconciles from scratch.
WakeUp(c) ==
  /\ cpc[c] = "wait"
  /\ Recv(c)
  /\ cpc' = [cpc EXCEPT ![c] = "members"]
  /\ UNCHANGED <<callerVars, cmembers, ctodo, watching, rpc, current, stop>>

\* Run returns: its context has ended, or its channel was closed and is drained.
ReturnRun(c) ==
  /\ cpc[c] = "wait"
  /\ c \in stop \/ (chan[c] = "closed" /\ buf[c] = <<>>)
  /\ cpc' = [cpc EXCEPT ![c] = "off"]
  /\ UNCHANGED <<vars, cmembers, ctodo, watching, rpc, current, stop>>

-----------------------------------------------------------------------------
\* A serving node seeds a router with Load.
SeedRouter(r) ==
  /\ rpc[r] = "off" /\ chan[r] \in {"none", "closed"} /\ Idle
  /\ current' = [current EXCEPT ![r] = RouteTable]
  /\ rpc' = [rpc EXCEPT ![r] = "watch"]
  /\ stop' = stop \ {r}
  /\ UNCHANGED <<vars, ctlVars>>

WatchRoutes(r) ==
  /\ rpc[r] = "watch"
  /\ Watch(r)
  /\ rpc' = [rpc EXCEPT ![r] = "run"]
  /\ UNCHANGED <<callerVars, ctlVars, current, stop>>

\* A slip: an event is applied only to a shard the map already has.
ApplyKnownOnly(map, e) ==
  [map EXCEPT ![e.key[2]] = IF @ = Absent THEN @ ELSE decodeNodes(e.value)]

\* A slip: a replica set that has become empty is dropped from the map.
ApplyDropsEmpty(map, e) ==
  [map EXCEPT ![e.key[2]] =
     IF e.type = "put" /\ e.value # <<>> THEN decodeNodes(e.value) ELSE Absent]

\* A put sets the shard's replica set, a delete removes the shard.
apply(map, e) ==
  [map EXCEPT ![e.key[2]] = IF e.type = "put" THEN decodeNodes(e.value) ELSE Absent]

ApplyEvent(r) ==
  /\ rpc[r] = "run"
  /\ Recv(r)
  /\ current' = [current EXCEPT ![r] = apply(@, Head(buf[r]))]
  /\ UNCHANGED <<callerVars, ctlVars, rpc, stop>>

\* Router.Watch returns; the router keeps its last map.
ReturnWatch(r) ==
  /\ rpc[r] = "run"
  /\ r \in stop \/ (chan[r] = "closed" /\ buf[r] = <<>>)
  /\ rpc' = [rpc EXCEPT ![r] = "off"]
  /\ UNCHANGED <<vars, ctlVars, current, stop>>

\* A context ends: leadership is lost, or a serving node shuts its router down.
EndContext(p) ==
  /\ p \in Stoppable \ stop
  /\ IF p \in Controllers THEN cpc[p] # "off" ELSE rpc[p] # "off"
  /\ stop' = stop \cup {p}
  /\ IF chan[p] = "open" THEN Cancel(p) ELSE UNCHANGED storeVars
  /\ UNCHANGED <<callerVars, ctlVars, rpc, current>>

\* The goroutine of Watch sees the ended context (Cancel: it had ended before
\* Watch was called), then unregisters and closes.
CloseChannel(p) ==
  /\ p \in stop
  /\ Cancel(p) \/ dropWatcher(p)
  /\ UNCHANGED <<callerVars, cpVars>>

Membership ==
  /\ \/ \E n \in Nodes : ~Alive(n) /\ Start(n)
     \/ \E n \in Nodes : ~registered[n] /\ Register(n)
     \/ \E l \in Leases : Timeout(l)
  /\ UNCHANGED cpVars

FinishExpiry == ExpireLoop /\ UNCHANGED cpVars

-----------------------------------------------------------------------------
\* A process has read its prefix and not yet watched it.
Exposed(p) ==
  \/ p \in Routers /\ rpc[p] = "watch"
  \/ p \in Controllers /\ ~watching[p] /\ cpc[p] \in {"load", "publish", "watch"}

ReadsNow(p) ==
  \/ p \in Routers /\ rpc[p] = "off" /\ rpc'[p] = "watch"
  \/ p \in Controllers /\ cpc[p] = "members" /\ cpc'[p] = "load"

Changed(prefix) == \E k \in Keys : Prefix(k) = prefix /\ kv'[k] # kv[k]

NoteGap ==
  gap' = {p \in Watchers : /\ ~ReadsNow(p)
                           /\ IF p \in Routers THEN rpc'[p] # "off" ELSE cpc'[p] # "off"
                           /\ p \in gap \/ (Exposed(p) /\ Changed(WatchPrefix[p]))}

ControllerStep(c) ==
  /\ \/ ReadMembers(c) \/ LoadAndDiff(c) \/ WatchMembers(c) \/ WakeUp(c) \/ ReturnRun(c)
     \/ \E s \in Shards : PublishShard(c, s)
  /\ NoteGap

RouterStep(r) == (WatchRoutes(r) \/ ApplyEvent(r) \/ ReturnWatch(r)) /\ NoteGap

ControlNext ==
  \/ \E c \in Controllers : ControllerStep(c)
  \/ \E r \in Routers : RouterStep(r)
  \/ \E c \in Controllers : StartRun(c) /\ NoteGap
  \/ \E r \in Routers : SeedRouter(r) /\ NoteGap
  \/ \E p \in Watchers : (EndContext(p) \/ CloseChannel(p)) /\ NoteGap
  \/ Membership /\ NoteGap
  \/ FinishExpiry /\ NoteGap

ControlSpec == ControlInit /\ [][ControlNext]_allVars

\* The goroutines of a running controller and router and of an expire loop keep
\* running.
ControlFairSpec ==
  /\ ControlSpec
  /\ \A c \in Controllers : WF_allVars(ControllerStep(c))
  /\ \A r \in Routers : WF_allVars(RouterStep(r))
  /\ WF_allVars(FinishExpiry /\ NoteGap)

-----------------------------------------------------------------------------
ControlTypeOK ==
  /\ cpc \in [Controllers -> {"off", "members", "load", "publish", "watch", "wait"}]
  /\ cmembers \in [Controllers -> SUBSET Nodes]
  /\ ctodo \in [Controllers -> SUBSET Shards]
  /\ watching \in [Controllers -> BOOLEAN]
  /\ rpc \in [Routers -> {"off", "watch", "run"}]
  /\ current \in [Routers -> [Shards -> Seq(Nodes) \cup {Absent}]]
  /\ stop \in SUBSET Watchers
  /\ gap \in SUBSET Watchers

\* The controller waits with an empty channel.
Waiting(c) == cpc[c] = "wait" /\ buf[c] = <<>> /\ chan[c] = "open"

TableIsDesired == \A s \in Shards : NodesOf(RouteTable, s) = Desired(Members)[s]

\* A controller that waits with nothing queued, and that missed nothing before
\* its Watch, has published exactly the assignment of the present membership
\* (placement.go, Run and Reconcile).  Events dropped on its full channel do no
\* harm: the queued one it still has wakes it, and it reads everything anew.
WaitingMeansDone == \A c \in Controllers : Waiting(c) /\ c \notin gap => TableIsDesired

\* The map of a router that has missed no event is the table with the queued
\* changes still to come (routing.go, Watch and apply).
Pending(r, s) == \E i \in 1..Len(buf[r]) : buf[r][i].key = RouteKey(s)

RouterMirrorsTable ==
  \A r \in Routers : rpc[r] = "run" /\ chan[r] = "open" /\ r \notin gap \cup lost =>
    \A s \in Shards : ~Pending(r, s) => current[r][s] = RouteTable[s]

\* A running router never forgets a shard it knew (routing.go: "never regresses
\* to an empty map").
NeverBlanks ==
  [][\A r \in Routers, s \in Shards :
       rpc[r] # "off" /\ current[r][s] # Absent => current'[r][s] # Absent]_allVars

Settled == \A p \in Watchers : chan[p] = "open" /\ p \notin stop /\ p \notin gap \cup lost

\* When the processes that watch have missed nothing and the membership holds
\* still, every router ends up with the assignment of the present membership.
FleetConverges ==
  []<>(Settled => \A r \in Routers, s \in Shards :
                     rpc[r] = "run" => NodesOf(current[r], s) = Desired(Members)[s])

\* What the comments promise without the reserve of gap and lost: a map change
\* reaches every serving node in one watch event (routing.go), a membership
\* change the controller (placement.go).
Quiet == Idle /\ \A p \in Watchers : buf[p] = <<>> /\ chan[p] = "open"

QuietFleetIsCurrent ==
  Quiet /\ (\A c \in Controllers : cpc[c] = "wait") /\ (\A r \in Routers : rpc[r] = "run")
    => \A r \in Routers, s \in Shards : NodesOf(current[r], s) = Desired(Members)[s]
=============================================================================
