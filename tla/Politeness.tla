----------------------------- MODULE Politeness -----------------------------
(***************************************************************************)
(* What the crawl frontier promises (crawler/frontier/frontier.go, the     *)
(* comments of Frontier, Next and Done), without saying how: each host's   *)
(* URLs are handed out one at a time and in order, a host rests between    *)
(* two fetches, and of the hosts that may be fetched the one that has been *)
(* ready longest comes first.                                              *)
(***************************************************************************)
EXTENDS Naturals, Sequences

CONSTANTS
  URLs, Hosts,
  HostOf,  \* URL -> its host
  Gaps     \* the rests a fetch may be followed by

VARIABLES
  now,      \* the clock
  waiting,  \* host -> its queue of URLs
  out,      \* the URLs handed to a worker
  crawled,  \* the URLs fetched
  restUntil \* host -> when it may next be fetched

promiseVars == <<now, waiting, out, crawled, restUntil>>

BusyHosts == {HostOf[u] : u \in out}
Candidates == {h \in Hosts : waiting[h] # <<>> /\ h \notin BusyHosts}

PromiseInit ==
  /\ now = 0
  /\ waiting = [h \in Hosts |-> <<>>]
  /\ out = {}
  /\ crawled = {}
  /\ restUntil = [h \in Hosts |-> 0]

Known == out \cup crawled \cup
           {u \in URLs : \E i \in 1..Len(waiting[HostOf[u]]) : waiting[HostOf[u]][i] = u}

Enqueue(u) ==
  /\ u \notin Known
  /\ waiting' = [waiting EXCEPT ![HostOf[u]] = Append(@, u)]
  /\ UNCHANGED <<now, out, crawled, restUntil>>

\* A host seen for the first time is ready from that moment on.
FirstSeen(h) ==
  /\ restUntil' = [restUntil EXCEPT ![h] = now]
  /\ h \notin BusyHosts /\ restUntil[h] = 0
  /\ \A u \in crawled : HostOf[u] # h
  /\ UNCHANGED <<now, out, crawled>>

EnqueueFirst(u) ==
  /\ u \notin Known
  /\ FirstSeen(HostOf[u])
  /\ waiting' = [waiting EXCEPT ![HostOf[u]] = Append(@, u)]

HandOut(h) ==
  /\ h \in Candidates /\ restUntil[h] <= now
  /\ \A g \in Candidates : restUntil[h] <= restUntil[g]
  /\ waiting' = [waiting EXCEPT ![h] = Tail(@)]
  /\ out' = out \cup {Head(waiting[h])}
  /\ UNCHANGED <<now, crawled, restUntil>>

Finish(u) ==
  /\ u \in out
  /\ out' = out \ {u}
  /\ crawled' = crawled \cup {u}
  /\ \E gap \in Gaps : restUntil' = [restUntil EXCEPT ![HostOf[u]] = now + gap]
  /\ UNCHANGED <<now, waiting>>

Tick == now' = now + 1 /\ UNCHANGED <<waiting, out, crawled, restUntil>>

PromiseNext ==
  \/ \E u \in URLs : Enqueue(u) \/ EnqueueFirst(u) \/ Finish(u)
  \/ \E h \in Hosts : HandOut(h) \/ (FirstSeen(h) /\ UNCHANGED waiting)
  \/ Tick

Promise == PromiseInit /\ [][PromiseNext]_promiseVars
=============================================================================
