--------------------------------- MODULE Wand ---------------------------------
(***************************************************************************)
(* Block-Max WAND, the top-k loop of index/search/wand.go, over encoded    *)
(* posting lists.  One step is one turn of the loop.                       *)
(*                                                                         *)
(* The scorer is a table of non-negative contributions that grow with the  *)
(* frequency, so that MaxScore of a block's largest frequency bounds the   *)
(* block, as the interface demands.  A contribution may be zero: a scorer  *)
(* of weight zero gives nothing else.  The heap is the set of its hits:    *)
(* its root is the hit that every other one outranks.                      *)
(***************************************************************************)
EXTENDS Cursor

CONSTANTS
    QueryTerms,     \* 1 .. n, the terms of the query in their order
    Scorer,         \* [QueryTerms -> sequence of contributions by frequency]
    TopKs,          \* values of k
    LastDocID,      \* the largest value of DocID (2^32 - 1); ids wrap past it
    PostingLists    \* the posting lists a term may have

(* A list is one that Encode takes, of frequencies the scorer knows. *)
ASSUME WandAssumption ==
    /\ IsFiniteSet(QueryTerms) /\ QueryTerms \subseteq Nat
    /\ TopKs \subseteq Int /\ LastDocID \in Nat
    /\ Scorer \in [QueryTerms -> Seq(Nat)]
    /\ \A t \in QueryTerms : \A f, g \in DOMAIN Scorer[t] : f <= g => Scorer[t][f] <= Scorer[t][g]
    /\ \A ps \in PostingLists :
         /\ Encodable(ps)
         /\ \A i \in DOMAIN ps : ps[i][1] < LastDocID
         /\ \A i \in DOMAIN ps, t \in QueryTerms : ps[i][2] \in DOMAIN Scorer[t]

VARIABLES
    given,      \* history: the postings the lists were built from
    lists,      \* the encoded list of every term
    k,
    maxScore, cursor, doc, done,  \* the state of every term
    top,        \* the heap
    threshold,  \* the k-th best score, 0 until the heap is full
    hits,       \* what the call returned
    returned

wandVars == <<given, lists, k, maxScore, cursor, doc, done, top, threshold, hits, returned>>

successor(d) == (d + 1) % (LastDocID + 1)

better(a, b) == a.score > b.score \/ (a.score = b.score /\ a.doc < b.doc)

ranking(S) == [i \in 1 .. Cardinality(S) |->
                 CHOOSE h \in S : Cardinality({g \in S : better(g, h)}) = i - 1]

drain(S) == ranking(S)

(* The live terms by current document, in query order among equals. *)
liveSorted ==
    LET live == {t \in QueryTerms : ~done[t]}
        before(t) == {u \in live : doc[u] < doc[t] \/ (doc[u] = doc[t] /\ u < t)}
    IN  [i \in 1 .. Cardinality(live) |->
            CHOOSE t \in live : Cardinality(before(t)) = i - 1]

(* The first place where the summed bounds exceed the threshold, or 0. *)
findPivot(live) ==
    LET over == {i \in DOMAIN live : SumFunction([j \in 1 .. i |-> maxScore[live[j]]]) > threshold}
    IN  IF over = {} THEN 0 ELSE Min(over)

(* The cursors after AdvanceShallow of the terms at or before the pivot. *)
shallowed(pivotDoc) ==
    [t \in QueryTerms |-> IF ~done[t] /\ doc[t] <= pivotDoc
                          THEN AdvanceShallow(lists[t], cursor[t], pivotDoc) ELSE cursor[t]]

pivotSet(pivotDoc) == {t \in QueryTerms : ~done[t] /\ doc[t] <= pivotDoc}

blockMaxSum(cs, pivotDoc) ==
    SumFunction([t \in pivotSet(pivotDoc) |-> Scorer[t][BlockMaxFreq(lists[t], cs[t])]])

scoreDoc(d) ==
    SumFunction([t \in {u \in QueryTerms : ~done[u] /\ doc[u] = d} |-> Scorer[t][Freq(cursor[t])]])

(* A slip: the term with the largest bound is moved wherever it stands. *)
PickStrongest(live, pivotDoc) ==
    CHOOSE i \in DOMAIN live : \A j \in DOMAIN live : maxScore[live[i]] >= maxScore[live[j]]

pickAdvance(live, pivotDoc) ==
    LET early == {i \in DOMAIN live : doc[live[i]] < pivotDoc}
        best == Max({maxScore[live[i]] : i \in early})
    IN  Min({i \in early : maxScore[live[i]] = best})

pushTop(hit) ==
    LET root == CHOOSE h \in top : \A g \in top \ {h} : better(g, h)
    IN  IF Cardinality(top) < k THEN top \cup {hit}
        ELSE IF better(hit, root) THEN (top \ {root}) \cup {hit} ELSE top

rootScore(S) == Min({h.score : h \in S})

(* advance, for the terms ts: each to target, from the cursors cs. *)
advance(ts, cs, target) ==
    /\ cursor' = [t \in QueryTerms |-> IF t \in ts THEN NextGEQ(lists[t], cs[t], target) ELSE cs[t]]
    /\ done' = [t \in QueryTerms |-> done[t] \/ (t \in ts /\ PastEnd(lists[t], cursor'[t]))]
    /\ doc' = [t \in QueryTerms |-> IF t \in ts /\ ~done'[t] THEN Doc(cursor'[t]) ELSE doc[t]]

-----------------------------------------------------------------------------
(* A slip: the jump ignores where the next term stands. *)
SkipPastNextTerm(cs, pivotDoc) ==
    successor(Min({BlockLastDoc(lists[t], cs[t]) : t \in pivotSet(pivotDoc)}))

(* Where skipBlock jumps to: past the shallowest block of the pivot set,   *)
(* and no further than the next term.                                      *)
skipTarget(cs, pivotDoc) ==
    LET minLast == Min({BlockLastDoc(lists[t], cs[t]) : t \in pivotSet(pivotDoc)})
        beyond == {doc[t] : t \in {u \in QueryTerms : ~done[u] /\ doc[u] > pivotDoc}}
    IN  Min({successor(minLast)} \cup beyond)

skipBlock(cs, pivotDoc) ==
    \E target \in {skipTarget(cs, pivotDoc)} :
        /\ advance({t \in QueryTerms : ~done[t] /\ doc[t] < target}, cs, target)
        /\ UNCHANGED <<top, threshold>>

scorePivot(cs, pivotDoc) ==
    /\ top' = pushTop([doc |-> pivotDoc, score |-> scoreDoc(pivotDoc)])
    /\ threshold' = IF Cardinality(top') = k THEN rootScore(top') ELSE threshold
    /\ advance({t \in QueryTerms : ~done[t] /\ doc[t] = pivotDoc}, cs, successor(pivotDoc))

realign(live, pivotDoc) ==
    /\ advance({live[pickAdvance(live, pivotDoc)]}, cursor, pivotDoc)
    /\ UNCHANGED <<top, threshold>>

(* One turn with a pivot: the block bound is read, and the cursors' shallow *)
(* pointers moved, only when the first term already stands on the pivot.    *)
Turn(live, pivotDoc) ==
    \/ /\ doc[live[1]] = pivotDoc
       /\ \E cs \in {shallowed(pivotDoc)} :
            LET hopeless == blockMaxSum(cs, pivotDoc) <= threshold /\ threshold > 0
            IN  \/ hopeless /\ skipBlock(cs, pivotDoc)
                \/ ~hopeless /\ scorePivot(cs, pivotDoc)
    \/ doc[live[1]] # pivotDoc /\ realign(live, pivotDoc)

Loop ==
    \E live \in {liveSorted} : \E pivot \in {findPivot(live)} :
        /\ pivot > 0
        /\ Turn(live, doc[live[pivot]])
        /\ UNCHANGED <<given, lists, k, maxScore, hits, returned>>

Return ==
    /\ findPivot(liveSorted) = 0
    /\ hits' = drain(top)
    /\ returned' = TRUE
    /\ UNCHANGED <<given, lists, k, maxScore, cursor, doc, done, top, threshold>>

(* Each term begins on its first document; a call for nothing returns at   *)
(* once.                                                                   *)
WANDCall ==
    /\ k \in TopKs
    /\ given \in [QueryTerms -> PostingLists]
    /\ lists = [t \in QueryTerms |-> Encode(given[t])]
    /\ cursor = [t \in QueryTerms |-> NextGEQ(lists[t], NewCursor, 0)]
    /\ maxScore = [t \in QueryTerms |-> IF lists[t] = <<>> THEN 0 ELSE Scorer[t][MaxFreq(lists[t])]]
    /\ done = [t \in QueryTerms |-> PastEnd(lists[t], cursor[t])]
    /\ doc = [t \in QueryTerms |-> IF done[t] THEN 0 ELSE Doc(cursor[t])]
    /\ top = {} /\ threshold = 0 /\ hits = <<>>
    /\ returned = (k <= 0 \/ QueryTerms = {})

WandNext == ~returned /\ (Loop \/ Return)

WandSpec == WANDCall /\ [][WandNext]_wandVars

-----------------------------------------------------------------------------
(* Documents with their scores: the exhaustive scan of the postings the    *)
(* caller has.                                                             *)
contribution(t, d) ==
    LET at == {i \in DOMAIN given[t] : given[t][i][1] = d}
    IN  IF at = {} THEN 0 ELSE Scorer[t][given[t][CHOOSE i \in at : TRUE][2]]

hitOf(d) == [doc |-> d, score |-> SumFunction([t \in QueryTerms |-> contribution(t, d)])]

hitsOf(ts) == {hitOf(d) : d \in UNION {{given[t][i][1] : i \in DOMAIN given[t]} : t \in ts}}

firstOf(S) == SubSeq(ranking(S), 1, Min({k, Cardinality(S)}))

(* The terms that give anything to any of their documents.                 *)
weighty == {t \in QueryTerms : \E i \in DOMAIN given[t] : Scorer[t][given[t][i][2]] > 0}

scored == hitsOf(weighty)

(* WandIsTopK: however much the loop skips, it returns exactly the first k *)
(* hits of the exhaustive scan, in rank order and with their full scores   *)
(* (wand.go:86-124).  The scan is over the documents of the terms that     *)
(* score at all: findPivot asks for a sum of bounds above a threshold that *)
(* begins at zero (wand.go:144), so a document of no such term is never    *)
(* reached.  A document of one that scores zero itself is a hit.           *)
WandIsTopK == returned => hits = firstOf(scored)

(* WandIsExhaustive: the same of the whole disjunction, which wand.go:65   *)
(* promises of any scorer that is not negative (wand.go:10-12).  It fails: *)
(* when the documents of the terms that score are fewer than k, those of   *)
(* the others are left out, though the heap has room for them.             *)
WandIsExhaustive == returned => hits = firstOf(hitsOf(QueryTerms))

(* WandReturns: every turn of the loop moves a cursor: the call returns    *)
(* (wand.go:115-119).                                                      *)
WandReturns == <>returned
=============================================================================
