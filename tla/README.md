# OpenIndex in TLA+

OpenIndex is a search engine in Go: a crawler fills a web table, an indexer turns
it into segments of posting lists, a serving tree answers queries from replicated
shards, and a control plane decides which node serves which shard. This directory
models the parts whose correctness depends on the order of events (the control
plane, the serving tree, the crawl frontier, storage, segments, traces, federation)
and the algorithms that are easy to get wrong at an edge (codecs, WAND, the vector
graph, robots rules, citations), checks them with TLC on small instances, and proves
with TLAPS, for all sizes, that the control plane, the serving tree, the crawl frontier,
the web table and the link graph, near-duplicate detection, tracing, metrics and federation
keep the safety properties the runs check (section 4).

`PROJECT.json` has the machine-readable side: the components, the runs, for every
property a plausible slip in the code that breaks it (`mutants`), the source lines
of every definition (`map`), the findings, the hazards and the theorems.

## 1. Inventory

State, operations and interactions of the system's parts; the properties are those
that make the part correct.

**Control plane (`control/`)**

| Part | State | Operations | Hard behaviour | What makes it correct |
|---|---|---|---|---|
| Coordination store (`store.go`) | key/value map, two lease maps (`leaseOf`, `keysOf`), watcher table, one bounded channel per watcher | Put, Create, Delete, Get, List, Grant, Revoke, Expire, Watch | receives interleave with a locked loop; a full channel drops events; a watcher goes away while events are sent | the maps agree; a lease takes its keys with it; no send on a closed channel; what a watcher is told is true |
| Membership (`membership.go`) | node keys under leases | Register, Members | crash and restart while the old lease lives | a registered node with a live lease is a member |
| Election (`election.go`) | leader keys under leases | Campaign, Resign, Leader | a lease expires without its holder noticing | one leader per role among nodes with live leases; a dead leader yields |
| Placement (`rendezvous.go`, `placement.go`) | none; the loop of Run | Place, Desired, Reconcile, Run | each store call interleaves; leadership moves while a table is half written | a waiting controller has published the assignment of the present membership |
| Routing (`routing.go`) | route keys; the router's map | Publish, Load, NewRouter, Lookup, Snapshot, Watch | load-then-watch; dropped events | the router's map follows the table and never blanks |
| Health (`health.go`), jump hashing (`jump.go`) | averages per replica; none | Observe, State, InFanout; JumpHash | hysteresis; floating point | no flapping; a bucket in range |

The controller reads membership and writes routes; routers read routes; all of it
goes through the store, and its watches are the only notification there is.

**Serving (`serve/`)**

| Part | State | Operations | Hard behaviour | What makes it correct |
|---|---|---|---|---|
| LRU cache (`cache.go`) | a list and a map | Get, Set | capacity, zero capacity | list and map agree, the entry just used stays |
| Loader (`cache.go`) | the cache, the flights of `singleflight` | Get | late joiners, a deadline against a result, a load that hangs, fails or is cancelled | the right page; nobody forgotten; a caller can leave |
| Hedged call (`hedge.go`) | counters, timer, channel of outcomes | Hedge | the timer against failures against successes, attempts that hang | fails only if every replica failed; ends neither early nor never |
| Fan-out, coordinator, merge (`fanout.go`, `coordinator.go`, `merge.go`) | slots of answers, an errgroup | Scatter, Search, MergeTopK | sub-deadlines, a limit on concurrency, partial answers | a page is the top k of those that answered, and enough of them did |

A coordinator's Search scatters over its children; a child is a leaf or another
coordinator. `serve.go` names hedging for slow replicas and the loader for the root; the
repository does not wire them together, so the model of a query does: a child of
`Search` is a hedged call to the replicas of its shard.

**Crawler (`crawler/`)**

| Part | State | Operations | Hard behaviour | What makes it correct |
|---|---|---|---|---|
| Frontier (`frontier/`) | seen set, front queues, per-host queues, a heap of ready hosts | Add, SetCrawlDelay, Next, Done, Len | additions while a worker has the host, ready times against the clock | one fetch per host, hosts rest, no host starves |
| Robots (`robots/`) | groups of rules | Parse, Allowed, CrawlDelay | lines in any order, wildcards, groups named twice | the longest rule decides, Allow on a tie |
| Near-duplicates (`dedup/`) | four tables of blocks, a fingerprint per cluster | Add, Query, AddIfNew | the pigeonhole bound, a cluster added again | finds what a comparison with all would |
| Fetch, archive (`fetch/`, `warc/`) | none | Fetch, Write | network and files | |

**Storage (`storage/`) and index (`index/`, `vector/`)**

| Part | State | Operations | Hard behaviour | What makes it correct |
|---|---|---|---|---|
| Engine, web table, link graph | one ordered map of byte keys, snapshots | Apply, Scan, Snapshot; Put, Latest, ScanFamily, GCVersions; AddLink, OutLinks, InLinks | one key space for everything; a collection scans, then deletes | reads find the newest version; collection keeps the newest; a link is seen from both ends or not at all |
| Codecs and cursors (`postings/`) | an encoded list, a cursor | Encode, Next, NextGEQ, AdvanceShallow | widths, exceptions, tails of blocks | what was encoded is read back |
| Dictionary, stored fields (`terms/`, `forward/`) | a sorted list; chunks | Lookup, PrefixScan; Add, Seal, Get | chunk borders | as above |
| Segments (`segment/`) | documents, postings, live bits | AddDocument, Build, Delete, Merge, Select | deletes during a merge, choice of the batch | no page lost, doubled or given another's terms; merging ends |
| Top-k (`search/`) | cursors, threshold, heap | WAND | skipping by bounds, terms that score zero | the result of exhaustive scoring; it returns |
| Vector graph (`vector/ann`) | nodes with lists per layer, entry | Add, Search | pruning of full lists | walks stay in the graph; a search returns what can be reached, in order |

Segments use codecs, cursors, the dictionary and the stored fields; WAND reads
cursors. The vector graph is one per segment.

**Around a query (`telemetry/`, `answer/`, `open/`)**

| Part | State | Operations | Hard behaviour | What makes it correct |
|---|---|---|---|---|
| Metrics | a capped map of series, timers | Start, Done, Observe, ErrorRate, Quantile | the cap, folded methods | no request is lost; the cap holds |
| Traces | id counters, spans, the recorder | StartTrace, StartSpan, End, Inject, Extract | spans of several processes end in any order; headers get lost | a sampled trace is whole |
| Answers | one query's passages, draft, answer | Answer: route, retrieve, rerank, synthesize, verify, cite | offsets that shift, markers in odd places | citations cover claims that passages entail |
| Federation | keys, reputations, one query's answers | RegistryAdd, SetReputation, Search | a timer against late answers | the page is the best of trusted answers that were collected |
| Open formats, signing, crowd signal | files, keys, tallies | read, write, sign, aggregate | cryptography, noise | |

Ranking (`rank/`), embedding and quantization (`vector/`), capacity planning, the
harness, the command and the gRPC bindings hold formulas, text and generated code.

The hazards (what a test would hardly reach) are in `PROJECT.json` (`hazards`), each
at its line with the properties that watch it.

## 2. Modules

| Module | Models | Extends |
|---|---|---|
| `MemStore` | `control/store.go` | |
| `Election` | `control/membership.go`, `control/election.go` | `MemStore` |
| `Placement` | `control/rendezvous.go`, `Desired` | |
| `ControlPlane` | `control/placement.go`, `control/routing.go` | `Election`, `Placement` |
| `LRUCache` | the cache of `serve/cache.go` | |
| `Loader` | `Loader.Get` of `serve/cache.go` | `LRUCache` |
| `Hedge` | `serve/hedge.go` | |
| `Iteration` | rounds of a loop over data, as a function of their number | |
| `Search` | `serve/fanout.go`, `serve/coordinator.go`, `serve/merge.go` | `Hedge`, `Iteration` |
| `Politeness` | the promise of the frontier, abstractly | |
| `Frontier` | `crawler/frontier/frontier.go` | `Iteration`; instantiates `Politeness` |
| `VersionedTable` | the promise of the web table and the link graph, abstractly | |
| `Storage` | `storage/*.go` | `Iteration`; instantiates `VersionedTable` |
| `Robots`, `NearDup` | `crawler/robots/robots.go`; `crawler/dedup/neardup.go` | `Robots` uses `Iteration` |
| `Codec`, `Cursor` | `index/postings/*.go` | `Iteration`; `Codec` |
| `TermDict`, `ForwardStore` | `index/terms/terms.go`; `index/forward/forward.go` | ; `Codec` |
| `Wand` | `index/search/wand.go` | `Cursor` |
| `Segment` | `index/segment/*.go` | `Cursor`, `ForwardStore`, `TermDict` |
| `Hnsw` | `vector/ann/*.go` | |
| `Metric`, `Trace` | `telemetry/metric/metric.go` and the timer; `telemetry/trace/*.go` | |
| `Health` | `control/health.go` | |
| `Answer` | `answer/engine`, `router`, `synth`, `verify`, `ground` | |
| `Federation` | `open/federation/federation.go` | |
| `ControlProofs` | theorems on the store, election and the control plane | `ControlPlane` |
| `LoaderProofs` | theorems on the cache and the loader | `Loader` |
| `IterationProofs` | induction for loops over data, and sums over finite sets | `Iteration` |
| `QueryProofs` | theorems on hedging, search and the merge | `Search`, `IterationProofs` |
| `FrontierProofs` | theorems on the heap and the frontier | `Frontier`, `IterationProofs` |
| `CrawlProofs` | theorems on near-duplicates, keys, the web table, the link graph and robots rules | `Storage`, `NearDup`, `Robots`, `IterationProofs` |
| `IndexProofs` | theorems on the posting codecs, merging segments and WAND | `Wand`, `Segment`, `IterationProofs` |
| `EdgeProofs` | theorems on traces, federation and metrics | `Trace`, `Federation`, `Metric`, `IterationProofs` |
| `MCElection`, `MCControlPlane`, `MCLoader`, `MCSearch`, `MCFrontier`, `MCCrawl`, `MCIndex`, `MCEdge` | instances for TLC | |

The definitions whose comment begins "A slip" are not part of any specification;
each is a wrong version of the definition that follows it, used to show that a
property would notice the mistake.

### How state and actions correspond to the code

*MemStore.* Every method holds `m.mu` throughout, so each method is one action. The
one exception is the end of a lease: `expire` deletes keys in a loop while watchers
may receive (receiving takes no lock), so the loop is unrolled, `dying` holds the
keys it has still to visit, and every other method waits for it (`Idle`). The key
list of a lease is a set (it is kept duplicate free), which leaves the order of
the deletions open. `ended`, `revived` and `lost` are history: the leases that have
ended, those a key was attached to afterwards (the code does not check), and the
watchers that missed an event on a full channel.

*Election.* `lease`, `registered` and `won` are what a node believes. The code that
calls Campaign and acts on its answer is not in the repository, so a node that won
leads until it resigns or notices that its lease is gone (`StepDown`), as the
comments say. A lease may time out at any moment; a node may restart while its old
lease lives. `CautiousCallers` says whether callers use the store only while their
lease is alive: the store does not check it.

*ControlPlane.* Members, Load, each Put of Publish, and Watch are separate steps of
a controller or a router. A replica set is written as its ids with newlines between
them and read back by splitting, as `encodeNodes` and `decodeNodes` do, so that an
empty set and a missing shard are told apart where the code does so (`DecodeEncode` proves
that the two are inverse where no id holds a newline). The history
variable `gap` names the processes a change has escaped between their read and their
Watch. `StrictHandover` says whether a new leader waits until its predecessor's Run
has returned.

*Loader.* The group's behaviour is that of `golang.org/x/sync/singleflight`
(external): one flight per key, which leaves the group and hands its result out in
one locked section. The load may return a page, fail, be cancelled when the context
of the caller that started the flight has ended, or never return.

*Hedge and Search.* Each branch of the `select` of a hedged call is an action; an
attempt is a goroutine that may answer, fail or hang. `Search` runs one query: the
loop that starts children as the errgroup admits them, the children's ends, the floor
and the merge. The floor is computed from a percentage with exact integers, the code
uses a floating-point fraction. `MergeTopK` is the code's loop of k rounds over the
heads of the lists, written with `Iterate`; the heap's Pop is the choice of a best head.
`RankedAssumption` says that a child's list comes ranked, as the leaves return it. A query
without children, or with K at or below zero, has the empty page, as in the code.

*Frontier.* Every method is one action. Add fills a front
queue and at once drains all of them through `assignLocked`, so a URL goes to its host's
queue directly, and the `assignLocked` that opens Next finds nothing. The heap
is the array of `container/heap` with its sift up and sift down, because what
the code gets wrong or right here depends on it: a round of `up` or `down` is one step of an
`Iterate`. Calls that change nothing (a seen
fingerprint, a Next with nothing ready) are stuttering steps.

*Storage.* Keys are the byte sequences that `cellKey`, `forwardKey` and `backKey`
build, escapes and inverted timestamps included, and the engine is a function from keys to values read in
byte order. The loops over bytes of `appendOrdered` and `decodeOrdered` and those over the
entries of a scan are rounds of `Iterate`, so that they can be reasoned about. A timestamp takes one byte. An engine call is one step; `GCVersions` is
two, `doomed` holds the batch between them. The refinement maps the entries back to
versions per cell and anchors per pair of nodes. `StorageAssumption` says that rows come from
`RowKey`, which lowers the host: a row that began with the tag of an edge would be
read as a link, because cell keys carry no tag.

*Robots.* One action per kind of line; the file read so far is history, and the verdict
is compared with a definition that looks at the whole file and with a matcher
that asks for one way to lay the pattern along the path, instead of the code's
backtracking. The loops of `matchGlob` and `Allowed` are rounds of `Iterate`.
`RobotsAssumption` gives a line the shape `splitField` leaves.

*NearDup.* A fingerprint is the set of its bits; two-bit blocks and the code's four
tables and threshold of three. `NearDupAssumption` says that there are more tables than
differing bits, which is what the constants of the code are chosen for.

*Codec, Cursor, TermDict, ForwardStore.* Pure operators; data are bytes. A cursor is a
record of positions that NextGEQ and AdvanceShallow take to another. A packed stream is
the digits of one number: `digit` takes one, `numberOf` puts them together, and shifts and
masks become division and remainder by a power of two (`Bit`). `MaxWidth` is 32 in the code;
run `index` has 30, because TLC's integers have 32 bits, and `CodecAssumption` allows 28 to
32. `BlockSize` is 128 in the code, two in the run, and any number from 2 to 255 in the
assumption, because the position of an exception is one byte. `sample` is the list being
encoded: any of `Samples`, which are lists Encode accepts (`Encodable`).

*Wand.* One turn of the loop is one step. The heap is the set of its hits. `given` is
history: the postings of the terms, which the exhaustive scan of `WandIsTopK` reads.
A scorer may give zero, as the interface allows and a BM25F weight of zero makes it. The
scan of `WandIsTopK` is over the documents of the terms that give anything to any of theirs
(`weighty`): the others are never reached, because findPivot asks for a sum above a threshold that begins at
zero. `WandIsExhaustive` states what the comments promise, and fails.

*Segment.* `merging` holds a merge between its steps: collecting the terms of one
input, then copying its live documents, as two steps, because deletes may come between. `late` is
history: documents deleted after a running merge had copied them, which the code
brings back. The caller that swaps the result in is not in the repository.

*Hnsw.* Add is one step (the index has one writer) and draws its layer from `Levels`. Distances
are a table without ties, so heaps and sorts have one outcome. `pruned` is history.

*Metric, Trace, Health.* Observe holds the recorder's lock; a timer's life is several
steps. StartTrace draws its two ids in two steps. A span carries, as history, its
root and the decision made there. The moving average is an integer, rounded down.

*Answer.* Text is a sequence of tokens. The stages that are interfaces may fail or
return anything among the given sets. A marker that is left inside a claim counts with its digits
among the claim's words, as it does for contentWords. The offsets of a citation are those of the text
without markers, so `AnswerGrounded` looks for its claim in the answer's text where
the markers before it have moved it (`shift`); that the offsets themselves point there, as
`answer.go` documents, is `SpansInAnswerText`, which fails from the second citation on.

*Federation.* One goroutine per trusted partition, a buffered channel, the select with
its timer. Leaves outside `Heedful` ignore their context. A hit carries, as history, the
operator that sent it (`FederationAssumption`), so that hits of two partitions are never one.

## 3. Runs

| Run | Instance | Shows |
|---|---|---|
| `election` | two nodes, one role, three leases, one watcher, channel of two | channels are safe and tell the truth; one live leader; restarts do not lose the member; no orphaned key; a dead leader's role becomes free |
| `control_plane` | one controller, one router that restarts, two nodes, one shard, two leases, channels of two | a waiting controller is up to date, the router mirrors the table up to queued events, never blanks, and the fleet converges |
| `handover` | two controllers in turn, two shards, channels of one | a new leader repairs a half-published table |
| `loader` | two callers, three keys, a cache of two | right page, nobody forgotten, cache consistent, a caller whose context ends gets out |
| `search` | three children, two at a time, with three, two and two replicas, floor of two | failure only when all fail, tail hedged, page is the top k with ties and a document on two shards, refusal for cause, deadlines end the query |
| `frontier` | three hosts, four pages and a duplicate | the heap is exactly the ready hosts, one fetch per host, nothing lost, everything crawled, and refinement of `Politeness` |
| `edge` | two methods, caps of 2 and 5, five requests; two processes, three spans, one call; one node, three latencies; drafts of up to six tokens over three rerankings; three operators whose keys and reputations are set first | requests are accounted for under the cap; sampled traces are whole; probation neither flaps nor lasts; citations are grounded; a federated page is the best of what was collected from trusted peers |
| `crawl` | rows and qualifiers with the terminator byte and prefixes of one another, three timestamps, two collectors, three writes; files of four lines; fingerprints of eight bits, two clusters | reads are newest, links symmetric live and in snapshots, refinement of `VersionedTable`; the verdict of the longest rule; exact near-duplicates |
| `index` | lists of up to six postings with large and small gaps; two terms of up to three postings, k of 0 to 2; three pages, three segments, two deletes; a hub and five vectors about it | lists round trip; WAND is the exhaustive top k over the terms that score, and returns; the corpus survives merging; merges gain; the vector graph is navigable |

`edge`, `crawl` and `index` each hold several components that share no state: the
initial state picks one (`part`), and the behaviour is that component's alone.

Three runs show where the code and its comments part ways; each is a finding in
`PROJECT.json`. Three more configurations reproduce findings of the same kind:

| Run or configuration | What TLC finds |
|---|---|
| `election_stale_resign` | Resign deletes the leader key whoever holds it: a former leader whose lease ran out unnoticed deletes its successor's key. With `CautiousCallers` the same property holds (run `election`, theorem `LeaderIsSafe`). |
| `control_plane_gap` | A change between the first Reconcile and Watch, or between Load and Watch, or an event dropped on a full channel, leaves controller or router out of date with nothing queued. |
| `HandoverOverlap.cfg` (`MCControlPlane`, `WaitingMeansDone`) | A controller that lost leadership finishes the Reconcile it is in and overwrites the table of its successor. |
| `loader_cancel` | The shared load runs under the first caller's context: its cancellation reaches callers whose own contexts live. |
| `FrontierPriority.cfg` (`MCFrontier`, `SameReadinessByPriority`) | Raising the priority of a host that sits in the heap does not restore the heap, so of two hosts ready at the same time the lower priority may go first. |
| `IndexZeroScores.cfg` (`MCIndex`, `WandIsExhaustive`) | WAND leaves out the documents of terms that only score zero, although the heap has room for them. |

### Bounds, and why they are enough for these questions

- `MaxLeases` is 3 in `election`: two nodes hold one each and one is left for a
  restart that overlaps the old lease, or for a third claim. It is 2 in the control
  plane, where a node that joins, dies, and one that takes its place suffice.
- `BufCap` is 64 in the code. Two (one in `handover`) makes full channels and dropped
  events happen within a few changes; the theorems hold for any capacity.
- Two nodes with two replicas give the empty, the partial and the full replica set
  and, in `MCWeight`, both a preference and a tie.
- `Stoppable` names the processes whose context may end in a run, to keep the
  controller's and the router's restarts in runs of their own.
- Three keys over a cache of two make evictions, two callers make the shared flight;
  callers come back, so any number of Gets is covered.
- Three children with two at a time make one wait for a slot; two replicas make the
  primary, the backup, and the failure that races the timer. The first child has
  three: only with a third is the timer armed again after a backup.
- `MaxNow` bounds the free running of the frontier's clock: later it only advances
  while all queued hosts rest, so every rest is waited for. Durations 0 and 3 reach
  both clamps of the gap, and a crawl delay of 3 exceeds `MaxGap`.

- `edge`: a cap of 2 is below the overflow reserve of 4 and a cap of 5 leaves one slot for a
  method, so folding starts at the second series. Three spans and one call give a root, a child
  and a remote child, or two roots. `MinStay` 3 and `MaxRecovery` 12 are what the
  weights and thresholds imply for these latencies. Six tokens hold two sentences and their markers;
  `[0]` only in drafts of up to four, and a space in those of up to five. One passage has the number of a
  marker among its words.
- `crawl`: three writes and two collectors let a version arrive between the scan and the
  batch of either; four lines give two groups, or one agent named twice.
- `index`: blocks of two postings make full blocks, tails and skips with three
  postings; the value 300 takes two bytes and is an exception beside 1. The first term of a query gives
  zero to a document that has it once, so a list of such documents never scores. `MaxSegments` 3 lets two
  segments be merged. Six points with M = 2 are the fewest that overflow a list of
  layer 0 (five neighbours against four); four of them can share layer 1, whose
  lists hold two.

`CHECK_DEADLOCK FALSE` is set in `edge`, `crawl` and `index`, where bounds on calls, writes and
documents end every behaviour, and in the control-plane configurations: when the leases
are used up (`MaxLeases`) and nothing changes any more, all processes wait for
events, and rightly so. `Search` has an explicit stuttering step for the answered query;
the other models check deadlock as usual.

### Fairness

- `Election`: weak fairness of the expire loop. It runs in the goroutine of its
  caller, holds the lock and never blocks. Nothing is assumed of nodes or timers.
- `ControlPlane`: weak fairness of each controller's and each router's steps and of
  the expire loop: goroutines that can run do run. Starting and stopping them, and
  membership changes, are the environment's.
- `Loader`: weak fairness of each caller's Get and of the steps of a flight after
  load has returned; whether load returns is up to the backend.
- `Search`: weak fairness of the query's goroutines taken together, no more. A
  replica may hang for ever, and no deadline need pass; the properties say so in
  their premises.
- `Wand`: weak fairness of the call's turns: it runs alone in its goroutine and
  blocks on nothing. `edge` and `crawl` assume no fairness.
- `Frontier`: workers keep asking and reporting, and time passes. URLs need not be
  added.

## 4. Proofs

`ControlProofs` first proves of the store alone, for any sets of keys, values and watchers,
any number of leases and any capacity, from `StoreAssumption` alone and for any callers that use
granted leases (`StoreSpec`):

- `StoreTypeCorrect`, `StoreAttachment`, `StoreLeaseEnds` from the inductive
  invariant `LeaseInv`. Neither property is inductive by itself: that a dying key
  still names the dying lease needs that the lease is one that has ended and not been
  used since, and that only granted leases are in use (`LeaseBookkeeping`), because
  Grant clears the list of the lease it hands out.
- `StoreSendsSafely`, `StoreQueuesCurrent` from `WatchInv`, which adds that a channel
  holds only events of its watcher's prefix. The argument is about the newest event of
  a key in a queue: appending one makes it the newest (`AppendNewest`), receiving
  the oldest leaves the others (`TailNewest`).

It then adds `ElectionAssumption` (node ids are storable values) and proves

- `ElectionUsesStore`: every behaviour of election is one of the store, so the
  theorems above hold in it;
- `TypeCorrect`, and `RegisteredStaysMember` from `RegistrationHeld` (the node's key is
  attached to the lease it works under, hence beyond the reach of the expire loop of
  an older lease);
- with callers that act only on live leases (`CautiousCallers` as a hypothesis):
  `LeaderIsSafe`, its consequence `AtMostOneLeader`, and `NothingOrphaned`. The
  hypothesis cannot be dropped: `election_stale_resign` is the counterexample. The
  step that matters is Resign: the one who resigns is alive, hence the one the key
  names, hence nobody else's key is deleted.

Both use `CallerInv`: the store's invariant, types, and that no two nodes work under
one lease.

`StoreAttachment`, `StoreLeaseEnds` and the type theorems state what the runs no
longer check by themselves; the other theorems state properties of run `election`.

Last it proves, of the control plane, for any nodes, shards, controllers, routers, leases and channel
size, from `ControlAssumption` (ids hold no newline, texts are storable, a process is a
controller or a router) and `PlacementAssumption` (weights and a total order of ids):

- `PlaceIsRanking`: Place returns distinct candidates in the order of their weights, as
  many as asked for or as there are. The rank is an injection of the candidates into the
  numbers below their cardinality, hence a bijection.
- `ControlUsesStore`: the loop uses the store as its interface allows (`LoopInv`), so the
  store's theorems hold in it; `ControlTypeCorrect`.
- `RoutersNeverBlank` from `RouteInv`: route keys belong to no lease and Publish only
  writes, so a router's channel holds puts of texts that decode.
- `RoutersMirrorTable` from `MirrorInv`, which also covers the time between Load and
  Watch. `StoreTells` carries the step: an event that a store call sends is queued, or the
  watcher is on record as having lost it.
- `WaitingIsDone`, with `StrictHandover` as a hypothesis, from `PhaseInv`: as long as
  nothing has told the controller of a change, the membership it works from is the
  present one, and the shards it no longer has to publish are right. Without the
  hypothesis `HandoverOverlap.cfg` is the counterexample.

`LoaderProofs` proves, for any keys, pages, callers and any capacity, negative ones included,
`CacheStaysConsistent`, `PagesAreRight`, `NobodyIsForgotten` and the action property
`HotKeyIsSafe` from `LoaderInv`. None is inductive alone: that a page is right needs it of every
place a page can be (entries, results, channels), that nobody is forgotten needs that
only a flight in the group has anyone in it (`FlightInv`), and that the key used last
survives needs that it is at the front of the list while the back is evicted
(`HotInFront`). `LoaderAssumption`: the pages of different keys differ.

`IterationProofs` has the induction that loops over data need. The library's induction
rules take an operator and cannot be instantiated here, so the rule is stated over sets:
`LeastNumber` (from the well-foundedness of < on the naturals), `NumberInduction`,
`RoundsExist` (the recursive function `Iterate` unfolds), and
`LoopInvariant`: if the start is in I[0] and a round takes I[k] into I[k + 1], then the
state after n rounds is in I[n]. `IterateStep` unfolds one round of a loop.

A sum over a set is a fold, which the provers do not unfold; it is shown to be the number of
units of its values (`TotalIsWeight`: the count of units solves the fold's recursion and
nothing else does), and numbers of units are added and compared with the theorems on finite
sets.

`QueryProofs` proves, for any number of children and replicas, any floor and any k:

- `MergeIsTopK`: for any ranked lists, what MergeTopK returns is in order, has as many entries
  as k and the lists allow, and holds a result as often as the lists do, or less often
  and then nothing it returned is worse than that result.
  The loop invariant: the page so far is what lies before the cursors, each as often as
  it was met, and no head is better than its last.
- `SearchCorrect` (`SearchInv`), `PagesAreTopK`, `SearchTypeCorrect`. At the floor every
  slot says what its child answered, and a child that has returned does not change.
- `PendingCounts` and the action property `HedgeFailsLast` from `HedgeInv`: `pending` is the number of
  running attempts and of outcomes in the channel, each replica is in at most one of
  the two, and attempts are launched in turn. An error is returned with pending at zero and all
  launched, hence with all failed.

`FrontierProofs` proves, for any hosts, URLs, priorities and gaps:

- of the heap of `container/heap`, as lemmas: Push and Pop keep the array a permutation of
  its hosts, restore the order by ready time and leave the least at the root, **whatever
  the priorities have become** since the hosts were pushed. That is why the finding
  about priorities is one about ties only.
- `FrontierCorrect` (`FrontierInv`), with `HeapIsRight`, `UrlsAreAccounted`,
  `FrontierTypeCorrect`. The invariant adds to the properties that back queues hold URLs
  of their host once each, that a host the map has not met is blank, that the seen
  fingerprints are those of the admitted URLs, and that the counters are cardinalities.
- `FrontierIsPolite`: every step is one of `Politeness` or stutters, under the mapping of
  `Frontier`.

`CrawlProofs` proves, for any blocks, tables and fingerprints (`NearDupAssumption`) and for any
rows, families, qualifiers, anchors, timestamps and number of kept versions
(`StorageAssumption`):

- `NearDupIsExact` from `NearDupInv` (the tables hold the admitted fingerprints, each
  under all its blocks). Two fingerprints that differ in fewer bits than there are blocks agree in
  one block: an injection from the blocks into the differing bits would need as many.
- of the keys: `DecodeIsInverse` (what `decodeOrdered` returns is what `appendOrdered` wrote, and
  where it stops), `EncodingIsPrefixFree`, and `ScanIsPrefix`: the range from a prefix to
  `PrefixEnd` holds the keys with that prefix and no others, a prefix of 255s included. From
  these follow, as lemmas, that a key tells its row, column and time, that a cell's key is
  never an edge's, that a newer version sorts first and that a column's versions are
  neighbours in a scan.
- `LinksAreSymmetric`, `ReadersSeeTheNewest` and `StorageKeepsPromise` from `StorageInv`: every
  key of the engine is that of a version or of an edge, both directions of an edge are
  there under one anchor, and **every deletion a collector has decided on still has as many newer
  versions as are kept, in the engine**. `ReadsAreNewest` is not inductive without the
  last: between the scan and the batch other writers and another collector run. It is
  kept because the batch of the other collector dooms, by the same clause, none of the newest
  versions of a cell (`NewerSurvive`). `StorageKeepsPromise` is the refinement of
  `VersionedTable`: every step is one of the abstract table or stutters.
- `RobotsAreObeyed` from `ParseInv`, for any lines, agents and paths (`RobotsAssumption`).
  The invariant gives every line read so far a group: lines never go back to an
  earlier group, **two lines are in one group exactly when no rule and then an agent stands
  between them**, and each group holds what its lines say. From it follow that the
  group of a name's first line is the first group with that name (`GroupOfAgent`), that
  the rules an agent line governs are those of its group (`GovernedAre`), and, by the
  loop of Allowed (`RulesWeighed`), the verdict.
- `PatternsMatch`: `matchGlob` finds a pattern exactly when it can be laid along the path.
  Going back to the last `*` only is enough, because a place further on for what follows
  an earlier `*` is a place for the later one too (`GlobAt`); and the loop ends, because
  what its last `*` has swallowed and then its place in the pattern grow with every turn.

`IndexProofs` proves, for any pages, terms and bounds (`PolicyAssumption`: a share of deletes
above zero, a number of segments to merge; `CodecAssumption`: a block of 2 to 255 postings,
words of 28 to 32 bits, lists the encoder accepts):

- `ListsComeBack`: whatever list is encoded, every stream and every block reads back as
  what was written, and reading ends where writing ended, so that what follows in the block is read
  from the right byte. A number is its digits in any base (`numberOf` inverts `digit`), so
  the packed stream is settled bit by bit (`StreamBitIs`, `PackedReads`): a value may lie across
  bytes, and the padding of the last byte is nobody's. A varint ends at the first byte
  below 128. The patches of PForDelta are laid one behind the other
  and the reader walks them (`PatchesRead`): the exceptions come in ascending order, the low
  bits are in the packed stream, the high bits in a varint. A turn of the group
  varint takes one to four values and their lengths from one byte (`TurnReads`, `GroupVarintReads`).
  Gaps telescope to the documents (`GapsTelescope`), which gives the block (`BlockReads`); the
  cuts into blocks meet end to end, the last one short (`CutsLaid`, `BlocksRead`).
- `MergesGain` from `MergeInv` (`MergeCorrect`): a sealed segment holds as many documents as it
  says and its live ones are among them; the inputs of a running merge are distinct, still
  in place, and either two or more, or one that still has a dead document. A merge of one
  input swaps a segment with dead documents for one with none; that the others keep
  theirs is a sum carried along the segments that stay (`WeightCarries`). It does not need the content of the documents, so it holds
  whatever the codecs do.
- `WandIsRight` (`WandCorrect`): WAND returns the first k hits of the exhaustive scan over the
  documents of the terms that score at all, for any
  number of terms, any k, any scorer that is not negative and does not fall as the frequency grows, and any
  lists the encoder accepts (`WandAssumption`). That the cursors read what was encoded is no hypothesis: it is
  the round trip just proved. `WandInv` says of every document that either no term has
  passed it (`Awaited`), or nothing can change about it: its hit is in the heap or behind all
  of a full heap (`Decided`), and the terms at or before it cannot reach the threshold. The
  heap alone would not do: a turn that skips must know that what it passes is settled.
  `NextGEQLands` says what a cursor meets, `PivotTells` that no document before the pivot can
  pass the threshold, `BlockHere` and `SkipTargetIs` that nothing between the pivot and
  the target of a skip exceeds the sum of the block bounds, `PushKeepsBest` that the
  threshold never falls. Since all of the documents in the heap are behind the terms, a tie
  with the threshold is lost, which is why `<=` is right in findPivot and in the skip. That
  holds of a full heap: with zero scores a threshold of zero may be that of a heap with room. `AwaitedCounts`
  says that an awaited document of a term that scores keeps a bound above zero, so that no turn gives it up then.

`EdgeProofs` proves

- `TracesAreWhole` from `TraceInv`: the id of a span was drawn from its process's
  counter (so a new one is new), its sampling bit is its root's decision unless a header was
  lost, its parent is another span of the same root, and a call on the wire comes from
  a span of another process. The last is needed because the parent is compared across
  processes, whose counters may agree.
- `FederatedPagesAreRight` from `FedInv`: the gate is asked once; the partials in the channel and
  those merged come from different partitions (`FederationAssumption`), and `collected` is
  the number of those done. The page is one a top-k of the merged set may be.
- `SeriesStayBounded` from `MetricInv`: the recorder opens a series of its own only while
  the reserve stays free. It is the conjunct of `RequestsAccounted` that bounds memory.
- `RequestsStayAccounted` from `MetricInv` and `AccountInv`, for any methods, bounds and caps
  (`MetricAssumption`: finitely many methods, bounds in order, `_OTHER` is none of the allowed methods).
  The sums are taken as numbers of units. The invariant adds that every histogram holds each request in one bucket, and that an allowed
  method has its own count while nothing was folded. The order of the quantiles
  (`QuantileOrder`) is arithmetic: a lower quantile is read from the same bucket or an
  earlier one, and an estimate stays between the edges of its bucket.

All inductive invariants were checked by TLC on the instances of the runs before they
were proved. `PROJECT.json` lists which theorem states which property of a run.

Only model-checked:

- every liveness property (`DeadLeaderYields`, `FleetConverges`, `EndedContextReturns`,
  `NothingStarves`, `WandReturns` and those of the query): the prover handles neither
  fairness nor ENABLED;
- `ProbationIsSteady`, whose constants follow from the arithmetic of the average on an instance;
- `AnswerGrounded`, `CorpusIntact` and `GraphNavigable`: they rest on recursive functions and folds over
  bytes, tokens and lists, whose values the prover cannot reach by induction as they
  are written. Storage, robots and the codecs show the way: loops as rounds of `Iterate` and `LoopInvariant`.

## 5. Findings in words

Besides the runs and configurations of section 3 (details and quotes in `PROJECT.json`,
`findings`):

- The store's Create and Put accept a lease that has ended, after which nothing frees
  the key (`HeldByLiveLease` needs cautious callers for that reason as well).
- Metrics: a cap below four is passed; requests folded into an overflow series are
  missing from their method's error rate.
- Traces: the tail rule keeps single spans, not traces.
- Storage: a negative timestamp sorts as the newest.
- Merge policy: the threshold on deletes is met at equality, and the count per tier takes in all segments. A document
  deleted after a running merge copied it comes back with the merged segment (`late`).
- Answers: a citation's offsets refer to the text without markers (`SpansInAnswerText` as an invariant of
  `Edge.cfg` gives the trace); an unsupported claim
  stays in the text; a marker after a space can stay as text.
- Federation: an answer after its sub-deadline but within the slack is merged.
- Vector graph: pruning can cut a vector off from every search, the newest included.

## 6. How to run

    tlc -config Election.cfg MCElection
    tlapm ControlProofs.tla

and likewise for the other configurations and the other modules named `...Proofs`. The runs of the control
plane, the serving tree and the frontier take about half a minute each; `edge`, `crawl` and `index` two to
four minutes; the proofs of a module one to fifteen minutes.

## 7. Plan

1. Done: the store, membership, election, control loop, loader, hedging, search and
   frontier with the proofs of section 4; then metrics, traces, health, answers, federation;
   storage, robots, near-duplicates; codecs, cursors, WAND, segments, the vector graph.
2. Done: theorems on the control loop, the loader, the query with its hedged calls and its
   merge, the frontier with its heap and its refinement, traces, federation and
   metrics; near-duplicates, the keys of storage, the web table and the link graph
   with their refinement; robots rules; the round trip of the posting codecs, the merge
   policy and WAND.
3. Next, theorems: `CorpusIntact`, whose parts without the dictionary and the forward store are set
   arithmetic; the round trip of those two, on the lemmas of the posting codecs; the frame of
   `AnswerGrounded`.
4. Candidates after that: fusion and the reranking cascade over tables of scores; a run of
   the frontier with workers that call Done twice.

## 8. Not modelled, and why

Floating-point code (jump hashing's generator, BM25F, learning to rank, PageRank,
fusion, metrics of vectors and quantization, the noise of the crowd signal, capacity arithmetic) is outside what TLC evaluates.
Cryptographic signing, the WARC and CIFF file formats, HTTP fetching and the command
line are input and output. Hashes of texts (fingerprints, sampling, embeddings) are
arbitrary choices or tables. What the answer engine does not call (freshness, decomposition,
validation, evaluation) is left out. The gRPC bindings are generated. The 64-bit hash behind
rendezvous placement is a table of weights, fixed by the configuration. Attempts of
a hedged call that end after the call has returned only write to a buffered channel
nobody reads and are left out. Replacing a router by a freshly seeded one is the same
as stopping and starting it.
