------------------------------- MODULE Search -------------------------------
(***************************************************************************)
(* A query through a coordinator (serve/coordinator.go, serve/fanout.go,   *)
(* serve/merge.go): Scatter fans it out to the children, bounded by an     *)
(* errgroup, and the answers that came in time are merged.  A child is a   *)
(* Leaf; the repository leaves open what stands behind it.  Here           *)
(* it is a hedged call to the replicas of its shard, the use serve.go      *)
(* names for Hedge; with one replica that is a plain call.                 *)
(***************************************************************************)
EXTENDS Hedge, Iteration

CONSTANTS
  N,             \* how many children; they are the calls 1..N
  MaxConcurrent, \* the errgroup's limit; zero means none
  HasTimeout,    \* PerShardTimeout > 0
  MinPercent,    \* minResponded, in percent
  K,             \* Request.K
  Ranked,        \* child -> the ranked results of its shard
  Score          \* result -> its score; a result is its document's id

Children == 1..N

ASSUME SearchAssumption ==
  /\ N \in Nat /\ Calls = Children
  /\ MaxConcurrent \in Nat /\ HasTimeout \in BOOLEAN /\ MinPercent \in Int /\ K \in Int

VARIABLES
  spc,    \* "scatter", "gather" or "returned"
  next,   \* the child the loop of Scatter starts next
  inGroup,\* the children whose goroutine runs
  OK,     \* child -> its slot of OK
  ended,  \* the query's own context has ended
  verdict,\* what Search returned: "none" so far, "page", "ctx" or "insufficient"
  page    \* the page it returned

searchVars == <<hedgeVars, spc, next, inGroup, OK, ended, verdict, page>>

-----------------------------------------------------------------------------
\* The order of the page: the higher score first, ties to the smaller id.
Better(a, b) == Score[a] > Score[b] \/ (Score[a] = Score[b] /\ a < b)

\* The leaf contract: a response is ranked.
ASSUME RankedAssumption ==
  /\ DOMAIN Score \subseteq Int /\ \A x \in DOMAIN Score : Score[x] \in Int
  /\ Ranked \in [Children -> Seq(DOMAIN Score)]
  /\ \A i \in Children : \A q \in 1..Len(Ranked[i]) : \A p \in 1..(q - 1) :
       ~Better(Ranked[i][q], Ranked[i][p])

\* The merge of some lists: the cursor of each and the page so far.
Merging(lists) == [pos : [DOMAIN lists -> Nat], out : Seq(DOMAIN Score)]

\* The lists that are not exhausted.
Live(lists, m) == {s \in DOMAIN lists : m.pos[s] <= Len(lists[s])}
HeadOf(lists, m, s) == lists[s][m.pos[s]]

\* A slip: the first list that is not exhausted is drained.
PopInOrder(lists, m) == CHOOSE s \in Live(lists, m) : \A t \in Live(lists, m) : s <= t

\* The heap holds the lists by their heads; its root is a best one.
PopBest(lists, m) ==
  CHOOSE s \in Live(lists, m) :
    \A t \in Live(lists, m) : ~Better(HeadOf(lists, m, t), HeadOf(lists, m, s))

\* One round of the loop: the best head goes on the page.
MergeRound(lists) ==
  [m \in Merging(lists) |->
     IF Live(lists, m) = {} THEN m
     ELSE LET top == PopBest(lists, m)
          IN [pos |-> [m.pos EXCEPT ![top] = @ + 1],
              out |-> Append(m.out, HeadOf(lists, m, top))]]

MergeTopK(lists, k) ==
  IF k <= 0 THEN <<>>
  ELSE Iterate(MergeRound(lists), [pos |-> [s \in DOMAIN lists |-> 1], out |-> <<>>], k).out

\* The merge of OKResponses, for every set of children that answered.
Merged == [answered \in SUBSET Children |-> MergeTopK([i \in answered |-> Ranked[i]], K)]

Responded == {i \in Children : OK[i]}

\* ceil(minResponded * N), with the clamps of NewCoordinator and Search.
Need ==
  LET percent == IF MinPercent <= 0 \/ MinPercent > 100 THEN 100 ELSE MinPercent
      ceil == (percent * N + 99) \div 100
  IN IF ceil < 1 THEN 1 ELSE ceil

-----------------------------------------------------------------------------
Init ==
  /\ HedgeInit
  /\ spc = "scatter"
  /\ next = 1
  /\ inGroup = {}
  /\ OK = [i \in Children |-> FALSE]
  /\ ended = FALSE
  /\ verdict = "none"
  /\ page = <<>>

\* grp.Go: the loop waits while the group is full.
Go ==
  /\ spc = "scatter" /\ next <= N
  /\ MaxConcurrent > 0 => Cardinality(inGroup) < MaxConcurrent
  /\ StartHedge(next)
  /\ inGroup' = inGroup \cup {next}
  /\ next' = next + 1
  /\ UNCHANGED <<spc, OK, ended, verdict, page>>

\* The loop is through; without children there was nothing to do.
WaitForGroup ==
  /\ spc = "scatter" /\ next > N
  /\ IF N = 0 THEN spc' = "returned" /\ verdict' = "page"
     ELSE spc' = "gather" /\ UNCHANGED verdict
  /\ UNCHANGED <<hedgeVars, next, inGroup, OK, ended, page>>

\* A child's goroutine ends: its slot is filled if the child answered.
ChildEnds(i) ==
  /\ i \in inGroup /\ hpc[i] = "returned"
  /\ OK' = [OK EXCEPT ![i] = result[i] = "ok"]
  /\ inGroup' = inGroup \ {i}
  /\ UNCHANGED <<hedgeVars, spc, next, ended, verdict, page>>

\* What Search returns once all slots are filled.
Merge   == verdict' = "page" /\ page' = Merged[Responded]
Refusal == verdict' = (IF ended THEN "ctx" ELSE "insufficient") /\ UNCHANGED page

\* Wait returns and Search applies the floor.
Finish ==
  /\ spc = "gather" /\ inGroup = {}
  /\ spc' = "returned"
  /\ IF Cardinality(Responded) < Need THEN Refusal ELSE Merge
  /\ UNCHANGED <<hedgeVars, next, inGroup, OK, ended>>

\* A child's sub-deadline passes.
SubDeadline(i) ==
  /\ HasTimeout /\ i \in inGroup \ over
  /\ over' = over \cup {i}
  /\ UNCHANGED <<hpc, launched, pending, timer, attempt, done, result,
                 spc, next, inGroup, OK, ended, verdict, page>>

\* The query's context ends, and with it that of every child, started or not.
EndQuery ==
  /\ ~ended /\ spc # "returned"
  /\ ended' = TRUE
  /\ over' = Children
  /\ UNCHANGED <<hpc, launched, pending, timer, attempt, done, result,
                 spc, next, inGroup, OK, verdict, page>>

CallStep(i) == HedgeStep(i) /\ UNCHANGED <<spc, next, inGroup, OK, ended, verdict, page>>

Attempts ==
  /\ \E i \in Children : \E r \in Replica(i) : AttemptEnds(i, r)
  /\ UNCHANGED <<spc, next, inGroup, OK, ended, verdict, page>>

\* The query is answered; attempts that hang may hang on.
Answered == spc = "returned" /\ UNCHANGED searchVars

Goroutines ==
  \/ Go \/ WaitForGroup \/ Finish
  \/ \E i \in Children : CallStep(i) \/ ChildEnds(i)

Next ==
  \/ Goroutines \/ EndQuery \/ Attempts \/ Answered
  \/ \E i \in Children : SubDeadline(i)

\* The query's goroutines run on: while one of them has a step to take, one is
\* taken.  The replicas may hang, and no deadline need ever pass.
Spec == Init /\ [][Next]_searchVars /\ WF_searchVars(Goroutines)

-----------------------------------------------------------------------------
SearchTypeOK ==
  /\ HedgeTypeOK
  /\ spc \in {"scatter", "gather", "returned"}
  /\ next \in 1..(N + 1)
  /\ inGroup \in SUBSET Children
  /\ OK \in [Children -> BOOLEAN]
  /\ ended \in BOOLEAN
  /\ verdict \in {"none", "page", "ctx", "insufficient"}
  /\ page \in Seq(DOMAIN Score)

Answering == {i \in Children : result[i] = "ok"}

\* The results of the children that answered, by child and position.
Candidates == UNION {{<<i, p>> : p \in 1..Len(Ranked[i])} : i \in Answering}
CountOn(x) == Cardinality({p \in 1..Len(page) : page[p] = x})
CountAmong(x) == Cardinality({c \in Candidates : Ranked[c[1]][c[2]] = x})

RefusedForCause ==
  verdict \in {"ctx", "insufficient"} =>
    /\ Cardinality(Answering) < Need
    /\ verdict = "ctx" => ended

\* A page is the K best results of all the children that answered, in order and
\* none of them twice or left out, and it is served only if enough of them did;
\* a query is refused only when fewer answered than the floor, and with its
\* context's error only when that has ended (coordinator.go and merge.go: a
\* degraded page is never served as complete).  Without children the page is
\* empty, and so it is when K is not positive.
PageIsTopK ==
  /\ RefusedForCause
  /\ verdict = "page" =>
       /\ N = 0 \/ Cardinality(Answering) >= Need
       /\ Len(page) = IF K <= 0 THEN 0
                      ELSE IF Cardinality(Candidates) < K THEN Cardinality(Candidates) ELSE K
       /\ \A p \in 1..(Len(page) - 1) : ~Better(page[p + 1], page[p])
       /\ \A c \in Candidates : LET x == Ranked[c[1]][c[2]] IN
            \/ CountOn(x) = CountAmong(x)
            \/ CountOn(x) < CountAmong(x) /\ (K > 0 => ~Better(x, page[Len(page)]))

\* Whatever the replicas do, once every child has answered or hit its
\* sub-deadline the query returns (fanout.go: "Scatter returns when every leaf has
\* either answered or hit its sub-deadline").
DeadlinesEndQuery ==
  <>[](\A i \in Children : i \in over \/ result[i] # "none") => <>(spc = "returned")
=============================================================================
