------------------------------ MODULE Frontier ------------------------------
(***************************************************************************)
(* The crawl frontier (crawler/frontier/frontier.go): per-host queues and  *)
(* a binary heap of the hosts that have URLs and are not being fetched,    *)
(* ordered by the time they are ready.  Every method holds f.mu, so each   *)
(* is one step.  assignLocked leaves the front queues empty at the end of  *)
(* every method, so a URL is modelled as going straight to its host.  The  *)
(* heap is an array, kept by the steps of container/heap (external).       *)
(***************************************************************************)
EXTENDS Integers, Sequences, FiniteSets, Iteration

CONSTANTS
  URLs, Hosts,
  HostOf, PriorityOf, FingerprintOf, \* of a URL
  Factor, MinGap, MaxGap,            \* the politeness parameters
  Durations,                         \* how long a fetch may take
  CrawlDelays,                       \* the robots hints
  MaxNow                             \* bound: see Tick

ASSUME FrontierAssumption ==
  /\ HostOf \in [URLs -> Hosts]
  /\ PriorityOf \in [URLs -> Int]
  /\ Factor \in Nat /\ MinGap \in Nat \ {0} /\ MaxGap \in Nat \ {0}
  /\ Durations \subseteq Nat /\ CrawlDelays \subseteq Nat

VARIABLES
  now,
  seen,       \* the fingerprints of the SeenSet
  known,      \* the hosts of the map hosts
  queue,      \* host -> its back queue
  busy,       \* host -> a worker has it
  readyAt,    \* host -> when it may next be fetched
  crawlDelay, \* host -> its robots hint
  priority,   \* host -> the highest priority seen
  ready,      \* the heap, as an array of hosts
  pending,    \* the counter behind Len
  out,        \* the URLs the workers have
  crawled     \* history: the URLs the workers have reported done

frontierVars == <<now, seen, known, queue, busy, readyAt, crawlDelay, priority,
                  ready, pending, out, crawled>>

-----------------------------------------------------------------------------
Larger(a, b)  == IF a > b THEN a ELSE b
Smaller(a, b) == IF a < b THEN a ELSE b

gap(lastFetch, delay) ==
  Larger(Smaller(Larger(Factor * lastFetch, MinGap), MaxGap), delay)

\* hostHeap.Less on two hosts, with the given ready times and priorities.
Less(at, pri, g, h) == at[g] < at[h] \/ (at[g] = at[h] /\ pri[g] > pri[h])

Swap(heap, i, j) == [heap EXCEPT ![i] = heap[j], ![j] = heap[i]]

\* The array and the place the moving element has reached.
Sifting == Seq(Hosts) \X Nat

\* One round of up: the element moves up while it is less than its parent.
UpRound(at, pri) ==
  [p \in Sifting |->
     LET a == p[1]  j == p[2]  i == j \div 2 IN
     IF j = 1 \/ ~Less(at, pri, a[j], a[i]) THEN p ELSE <<Swap(a, i, j), i>>]

\* heap.Push: append, then up.  A round for each element is enough.
HeapPush(heap, h, at, pri) ==
  Iterate(UpRound(at, pri), <<Append(heap, h), Len(heap) + 1>>, Len(heap) + 1)[1]

\* The lesser child of i among the first n.
LesserChild(a, at, pri, i, n) ==
  IF 2 * i + 1 <= n /\ Less(at, pri, a[2 * i + 1], a[2 * i]) THEN 2 * i + 1 ELSE 2 * i

\* One round of down among the first n: the element moves down while the lesser of
\* its children is less.
DownRound(at, pri, n) ==
  [p \in Sifting |->
     LET a == p[1]  i == p[2]  j == LesserChild(a, at, pri, i, n) IN
     IF 2 * i > n \/ ~Less(at, pri, a[j], a[i]) THEN p ELSE <<Swap(a, i, j), j>>]

\* A slip: the last element takes the root's place and stays there.
PopNoDown(heap, at, pri) ==
  SubSeq(Swap(heap, 1, Len(heap)), 1, Len(heap) - 1)

\* heap.Pop: the last element takes the root's place, then down.
HeapPop(heap, at, pri) ==
  LET n == Len(heap) - 1 IN
  SubSeq(Iterate(DownRound(at, pri, n), <<Swap(heap, 1, n + 1), 1>>, n)[1], 1, n)

-----------------------------------------------------------------------------
New ==
  /\ now = 0
  /\ seen = {}
  /\ known = {}
  /\ queue = [h \in Hosts |-> <<>>]
  /\ busy = [h \in Hosts |-> FALSE]
  /\ readyAt = [h \in Hosts |-> 0]
  /\ crawlDelay = [h \in Hosts |-> 0]
  /\ priority = [h \in Hosts |-> 0]
  /\ ready = <<>>
  /\ pending = 0
  /\ out = {}
  /\ crawled = {}

\* hostLocked: a new host is ready now.
Meet(h) ==
  /\ known' = known \cup {h}
  /\ readyAt' = IF h \in known THEN readyAt ELSE [readyAt EXCEPT ![h] = now]

\* A slip: a host that was empty goes into the heap also while it is busy.
AssignBusyToo(u) ==
  LET h == HostOf[u] IN
  /\ Meet(h)
  /\ queue' = [queue EXCEPT ![h] = Append(@, u)]
  /\ priority' = [priority EXCEPT ![h] = Larger(@, PriorityOf[u])]
  /\ ready' = IF queue[h] = <<>>
              THEN HeapPush(ready, h, readyAt', priority') ELSE ready

\* assignLocked with u in the front queues.  A host in the heap whose priority is
\* raised keeps its place.
assignLocked(u) ==
  LET h == HostOf[u] IN
  /\ Meet(h)
  /\ queue' = [queue EXCEPT ![h] = Append(@, u)]
  /\ priority' = [priority EXCEPT ![h] = Larger(@, PriorityOf[u])]
  /\ ready' = IF queue[h] = <<>> /\ ~busy[h]
              THEN HeapPush(ready, h, readyAt', priority') ELSE ready

\* Add, when the fingerprint is new.
Add(u) ==
  /\ FingerprintOf[u] \notin seen
  /\ seen' = seen \cup {FingerprintOf[u]}
  /\ pending' = pending + 1
  /\ assignLocked(u)
  /\ UNCHANGED <<now, busy, crawlDelay, out, crawled>>

SetCrawlDelay(h, d) ==
  /\ Meet(h)
  /\ crawlDelay' = [crawlDelay EXCEPT ![h] = d]
  /\ UNCHANGED <<now, seen, queue, busy, priority, ready, pending, out, crawled>>

\* A slip: the URL stays counted.
NextCounted ==
  /\ ready # <<>>
  /\ ~busy[ready[1]] /\ readyAt[ready[1]] <= now
  /\ LET top == ready[1] IN
     /\ queue' = [queue EXCEPT ![top] = Tail(@)]
     /\ busy' = [busy EXCEPT ![top] = TRUE]
     /\ out' = out \cup {Head(queue[top])}
  /\ ready' = HeapPop(ready, readyAt, priority)
  /\ UNCHANGED <<now, seen, known, readyAt, crawlDelay, priority, pending, crawled>>

\* Next, when it returns a URL: the root of the heap is the host.
Next ==
  /\ ready # <<>>
  /\ ~busy[ready[1]] /\ readyAt[ready[1]] <= now
  /\ LET top == ready[1] IN
     /\ queue' = [queue EXCEPT ![top] = Tail(@)]
     /\ busy' = [busy EXCEPT ![top] = TRUE]
     /\ out' = out \cup {Head(queue[top])}
  /\ pending' = pending - 1
  /\ ready' = HeapPop(ready, readyAt, priority)
  /\ UNCHANGED <<now, seen, known, readyAt, crawlDelay, priority, crawled>>

\* A slip: the host does not come back.
DoneNoPush(u, took) ==
  LET h == HostOf[u] IN
  /\ u \in out
  /\ out' = out \ {u}
  /\ crawled' = crawled \cup {u}
  /\ busy' = [busy EXCEPT ![h] = FALSE]
  /\ readyAt' = [readyAt EXCEPT ![h] = now + gap(took, crawlDelay[h])]
  /\ UNCHANGED <<now, seen, known, queue, crawlDelay, priority, ready, pending>>

\* A worker reports a URL it has.
Done(u, took) ==
  LET h == HostOf[u] IN
  /\ u \in out
  /\ out' = out \ {u}
  /\ crawled' = crawled \cup {u}
  /\ busy' = [busy EXCEPT ![h] = FALSE]
  /\ readyAt' = [readyAt EXCEPT ![h] = now + gap(took, crawlDelay[h])]
  /\ ready' = IF queue[h] # <<>> THEN HeapPush(ready, h, readyAt', priority) ELSE ready
  /\ UNCHANGED <<now, seen, known, queue, crawlDelay, priority, pending>>

\* Time passes.  Bound: after MaxNow only while a worker waits for a host's rest
\* to end and has nothing else to fetch.
Tick ==
  /\ now < MaxNow \/ (ready # <<>> /\ readyAt[ready[1]] > now)
  /\ now' = now + 1
  /\ UNCHANGED <<seen, known, queue, busy, readyAt, crawlDelay, priority, ready,
                 pending, out, crawled>>

Work == Next \/ \E u \in URLs, took \in Durations : Done(u, took)

FrontierNext ==
  \/ Work \/ Tick
  \/ \E u \in URLs : Add(u)
  \/ \E h \in Hosts, d \in CrawlDelays : SetCrawlDelay(h, d)

\* The workers go on asking and fetching, and time goes on.
Spec == New /\ [][FrontierNext]_frontierVars /\ WF_frontierVars(Work) /\ WF_frontierVars(Tick)

-----------------------------------------------------------------------------
FrontierTypeOK ==
  /\ now \in Nat
  /\ seen \subseteq {FingerprintOf[u] : u \in URLs}
  /\ known \subseteq Hosts
  /\ queue \in [Hosts -> Seq(URLs)]
  /\ busy \in [Hosts -> BOOLEAN]
  /\ readyAt \in [Hosts -> Nat]
  /\ crawlDelay \in [Hosts -> CrawlDelays \cup {0}]
  /\ priority \in [Hosts -> Nat]
  /\ ready \in Seq(Hosts)
  /\ pending \in Nat
  /\ out \subseteq URLs
  /\ crawled \subseteq URLs

\* A host is busy exactly while one worker has one of its URLs.
OneFetchPerHost ==
  /\ \A h \in Hosts : busy[h] <=> \E u \in out : HostOf[u] = h
  /\ \A u, v \in out : HostOf[u] = HostOf[v] => u = v

\* The heap holds exactly the hosts that have a URL and no worker, each once, and
\* its root has been ready longest.  So when Next finds its root not ready and
\* returns nothing, nothing could have been fetched; and no host has two workers,
\* whatever is added in the meantime (frontier.go, Next: "this guarantees
\* single-host concurrency").
HeapIsReadySet ==
  /\ OneFetchPerHost
  /\ \A h \in Hosts : queue[h] # <<>> /\ ~busy[h] <=> \E i \in 1..Len(ready) : ready[i] = h
  /\ \A i, j \in 1..Len(ready) : ready[i] = ready[j] => i = j
  /\ \A i \in 1..Len(ready) : readyAt[ready[1]] <= readyAt[ready[i]]

Queued == {u \in URLs : \E i \in 1..Len(queue[HostOf[u]]) : queue[HostOf[u]][i] = u}

\* Every fingerprint admitted belongs to one URL, which is queued, out or
\* crawled, and Len counts the queued ones (frontier.go, pending).
UrlsAccounted ==
  /\ Cardinality(Queued) = pending
  /\ Queued \cap (out \cup crawled) = {} /\ out \cap crawled = {}
  /\ Cardinality(Queued \cup out \cup crawled) = Cardinality(seen)
  /\ seen = {FingerprintOf[u] : u \in Queued \cup out \cup crawled}

\* The rests gap can ask for.
Rests == {gap(took, d) : took \in Durations, d \in CrawlDelays \cup {0}}

\* The frontier does what Politeness promises.
Abstract == INSTANCE Politeness WITH
  waiting <- queue, restUntil <- readyAt, Gaps <- Rests

IsPolite == Abstract!Promise

\* Whatever is admitted is crawled some day, and no host waits for ever behind
\* others (frontier.go, Next and Done: a host with URLs always comes back).
NothingStarves == <>[](Queued = {} /\ out = {})

\* Of two hosts ready at the same time the one with the higher priority comes
\* first (frontier.go, Less: "Same readiness: the higher-priority host is fetched
\* first").
SameReadinessByPriority ==
  [][\A h \in Hosts : busy'[h] /\ ~busy[h] =>
       \A g \in Hosts : queue[g] # <<>> /\ ~busy[g] /\ readyAt[g] = readyAt[h] =>
         priority[g] <= priority[h]]_frontierVars
=============================================================================
