------------------------------- MODULE Segment -------------------------------
(***************************************************************************)
(* Index segments (index/segment): the builder, sealed segments with their *)
(* live bits, the tiered merge policy, and merging while documents are     *)
(* being deleted.  The loop that calls Select and Merge and swaps the      *)
(* result in is the index manager's, which this repository does not hold:  *)
(* StartMerge and EndMerge are how these operations are meant to be used.  *)
(***************************************************************************)
EXTENDS Cursor, ForwardStore, TermDict

CONSTANTS
    Pages,              \* [doc, tf]: a document and its frequency of every term
    MaxSegments,        \* bound on the segments ever built
    MaxDeletes,         \* bound on the deletes
    SegmentsPerTier, MaxMergeAtOnce, FloorSegmentDocs, MaxMergedDocs,
    DeletesPctAllowed   \* the merge policy

ASSUME PolicyAssumption ==
    /\ DeletesPctAllowed \in Nat \ {0} /\ MaxMergeAtOnce \in Nat
    /\ \A p \in Pages : Len(p.doc.norms) = NumFields

VARIABLES
    segs,       \* the segments in service, in a sequence
    builder,    \* the segment under construction
    merging,    \* the merge under way, or NoMerge
    built,      \* segments built so far
    deletes,    \* deletes so far
    indexed,    \* documents indexed so far
    deleted,    \* those that were deleted
    late        \* those deleted after a running merge had copied them

segmentVars == <<segs, builder, merging, built, deletes, indexed, deleted, late>>

-----------------------------------------------------------------------------
(* Builder.                                                                *)

NewBuilder == [docs |-> <<>>, terms |-> [t \in {} |-> <<>>], next |-> 0]

AddDocument(b, doc, tf) ==
    LET used == {t \in DOMAIN tf : tf[t] # 0}
        old(t) == IF t \in DOMAIN b.terms THEN b.terms[t] ELSE <<>>
    IN  [docs |-> Append(b.docs, doc), next |-> b.next + 1,
         terms |-> [t \in DOMAIN b.terms \cup used |->
                       IF t \in used THEN Append(old(t), <<b.next, tf[t]>>) ELSE old(t)]]

(* The lists are met in the map's order, which is any; an offset is only   *)
(* followed, so the model takes one order.                                 *)
Build(b) ==
    LET long == SetToSeq({t \in DOMAIN b.terms : Len(b.terms[t]) > 1})
        entry(t) == IF Len(b.terms[t]) = 1
                    THEN [docFreq |-> 1, singleton |-> TRUE,
                          doc |-> b.terms[t][1][1], freq |-> b.terms[t][1][2], offset |-> 0]
                    ELSE [docFreq |-> Len(b.terms[t]), singleton |-> FALSE, doc |-> 0, freq |-> 0,
                          offset |-> CHOOSE i \in DOMAIN long : long[i] = t]
    IN  [dict |-> NewSortedDict([t \in DOMAIN b.terms |-> entry(t)]),
         lists |-> [i \in DOMAIN long |-> Encode(b.terms[long[i]])],
         fwd |-> storeOf(b.docs),
         live |-> 0 .. Len(b.docs) - 1, \* setAll
         numDocs |-> Len(b.docs)]

-----------------------------------------------------------------------------
(* Segment.                                                                *)

LiveDocs(s) == Cardinality(s.live)

Document(s, id) == IF id \in s.live THEN Get(s.fwd, id) ELSE NoDocument

Postings(s, term) ==
    LET e == Lookup(s.dict, term)
    IN  IF e.singleton THEN Encode(<<<<e.doc, e.freq>>>>) ELSE s.lists[e.offset]

(* What the lists give a document, of a function from terms to postings. *)
termsOf(posts, d) ==
    [t \in {u \in DOMAIN posts : \E p \in posts[u] : p[1] = d} |->
        (CHOOSE p \in posts[t] : p[1] = d)[2]]

(* A slip: terms kept inline are forgotten. *)
CollectListsOnly(s) ==
    LET terms == {e.term : e \in {x \in ToSet(PrefixScan(s.dict, <<>>)) : ~x.entry.singleton}}
        perDoc(posts) == [d \in s.live |-> termsOf(posts, d)]
    IN  perDoc([t \in terms |-> walk(Postings(s, t))])

(* For every live document, the frequency of its terms. *)
collectTerms(s) ==
    LET terms == {e.term : e \in ToSet(PrefixScan(s.dict, <<>>))}
        perDoc(posts) == [d \in s.live |-> termsOf(posts, d)]
    IN  perDoc([t \in terms |-> walk(Postings(s, t))])

-----------------------------------------------------------------------------
(* MergePolicy.                                                            *)

flooredSize(s) == Max({LiveDocs(s), FloorSegmentDocs})

(* A slip: the live share is compared, not the deleted one. *)
TooManyLive(s) == s.numDocs # 0 /\ LiveDocs(s) * 100 >= s.numDocs * DeletesPctAllowed

tooManyDeletes(s) ==
    s.numDocs # 0 /\ (s.numDocs - LiveDocs(s)) * 100 >= s.numDocs * DeletesPctAllowed

(* The longest run of the sorted segments that one merge may take. *)
batch(sorted) ==
    LET total(n) == SumFunction([i \in 1 .. n |-> LiveDocs(segs[sorted[i]])])
        fits(n) == n <= MaxMergeAtOnce
                   /\ \A m \in 1 .. n : m = 1 \/ total(m) <= MaxMergedDocs
    IN  SubSeq(sorted, 1, Max({n \in 0 .. Len(sorted) : fits(n)}))

(* The batches Select may return, as indices into segs: sort.Slice keeps   *)
(* no order among segments of one size class.                              *)
Select ==
    LET dirty == {i \in DOMAIN segs : tooManyDeletes(segs[i])}
        orders == {o \in [DOMAIN segs -> DOMAIN segs] :
                     /\ \A i, j \in DOMAIN segs : i # j => o[i] # o[j]
                     /\ \A i \in 1 .. Len(segs) - 1 :
                          flooredSize(segs[o[i]]) <= flooredSize(segs[o[i + 1]])}
    IN  IF dirty # {} THEN {<<Min(dirty)>>}
        ELSE IF Len(segs) < SegmentsPerTier THEN {}
        ELSE {b \in {batch(o) : o \in orders} : Len(b) >= 2}

-----------------------------------------------------------------------------
NoMerge == [inputs |-> <<>>, done |-> 0, perDoc |-> <<>>, builder |-> NewBuilder]

SegmentInit ==
    /\ segs = <<>>
    /\ builder = NewBuilder
    /\ merging = NoMerge
    /\ built = 0 /\ deletes = 0
    /\ indexed = {} /\ deleted = {} /\ late = {}

(* A page is indexed once. *)
Index(p) ==
    /\ built < MaxSegments
    /\ p.doc \notin indexed
    /\ indexed' = indexed \cup {p.doc}
    /\ builder' = AddDocument(builder, p.doc, p.tf)
    /\ UNCHANGED <<segs, merging, built, deletes, deleted, late>>

SealSegment ==
    /\ builder.docs # <<>>
    /\ segs' = Append(segs, Build(builder))
    /\ built' = built + 1
    /\ builder' = NewBuilder
    /\ UNCHANGED <<merging, deletes, indexed, deleted, late>>

(* Delete(id): a merge that has the document already will bring it back.   *)
Delete(i, id) ==
    /\ deletes < MaxDeletes
    /\ id \in segs[i].live
    /\ segs' = [segs EXCEPT ![i].live = @ \ {id}]
    /\ deletes' = deletes + 1
    /\ \E page \in {Document(segs[i], id)} :
         /\ late' = IF page \in ToSet(merging.builder.docs) THEN late \cup {page} ELSE late
         /\ deleted' = deleted \cup {page}
    /\ UNCHANGED <<builder, merging, built, indexed>>

StartMerge ==
    /\ merging.inputs = <<>>
    /\ \E b \in Select : merging' = [NoMerge EXCEPT !.inputs = b]
    /\ UNCHANGED <<segs, builder, built, deletes, indexed, deleted, late>>

(* Merge reads the terms of one input ... *)
MergeCollect ==
    /\ merging.done < Len(merging.inputs)
    /\ merging.perDoc = <<>>
    /\ merging' = [merging EXCEPT !.perDoc = <<collectTerms(segs[merging.inputs[merging.done + 1]])>>]
    /\ UNCHANGED <<segs, builder, built, deletes, indexed, deleted, late>>

(* ... and then copies the documents of that input that are still live.    *)
copied(b, s, perDoc) ==
    LET at[d \in 0 .. s.numDocs] ==
            IF d = 0 THEN b
            ELSE IF d - 1 \notin s.live THEN at[d - 1]
            ELSE AddDocument(at[d - 1], Get(s.fwd, d - 1), perDoc[d - 1])
    IN  at[s.numDocs]

MergeCopy ==
    /\ merging.perDoc # <<>>
    /\ merging' = [merging EXCEPT !.done = @ + 1, !.perDoc = <<>>,
                      !.builder = copied(@, segs[merging.inputs[merging.done + 1]], merging.perDoc[1])]
    /\ UNCHANGED <<segs, builder, built, deletes, indexed, deleted, late>>

(* The other segments keep their order. *)
EndMerge ==
    /\ merging.inputs # <<>> /\ merging.done = Len(merging.inputs)
    /\ LET kept == ascending(DOMAIN segs \ ToSet(merging.inputs))
       IN  segs' = Append([j \in DOMAIN kept |-> segs[kept[j]]], Build(merging.builder))
    /\ merging' = NoMerge
    /\ UNCHANGED <<builder, built, deletes, indexed, deleted, late>>

SegmentNext ==
    \/ \E p \in Pages : Index(p)
    \/ SealSegment
    \/ \E i \in DOMAIN segs : \E id \in segs[i].live : Delete(i, id)
    \/ StartMerge \/ MergeCollect \/ MergeCopy \/ EndMerge

SegmentSpec == SegmentInit /\ [][SegmentNext]_segmentVars

-----------------------------------------------------------------------------
Slots == UNION {{<<i, d>> : d \in segs[i].live} : i \in DOMAIN segs}

(* What the postings of a segment give a document for a term. *)
foundIn(seg, t, d) ==
    IF Known(seg.dict, t) THEN {q \in walk(Postings(seg, t)) : q[1] = d} ELSE {}

(* A function from slots to pages is a corpus of the pages in service. *)
Served(pageAt) ==
    LET stored == Range(pageAt) \cup ToSet(builder.docs)
    IN  /\ indexed \ deleted \subseteq stored
        /\ stored \subseteq (indexed \ deleted) \cup late
        /\ \A s, r \in Slots : s # r => pageAt[s] # pageAt[r]
        /\ \A s \in Slots : \E p \in Pages :
             /\ p.doc = pageAt[s]
             /\ \A t \in DOMAIN p.tf :
                  foundIn(segs[s[1]], t, s[2]) = IF p.tf[t] = 0 THEN {} ELSE {<<s[2], p.tf[t]>>}

(* CorpusIntact: through building, deleting and merging, a live slot holds *)
(* one indexed page, no page is live twice, and the postings give every    *)
(* live page exactly its own term frequencies.  No page is lost, and a     *)
(* deleted one is served again only if a running merge had copied it when  *)
(* it was deleted (segment.go:163-184).                                    *)
CorpusIntact == Served([s \in Slots |-> Document(segs[s[1]], s[2])])

Dead == SumFunction([i \in DOMAIN segs |-> segs[i].numDocs - LiveDocs(segs[i])])

(* MergeGains: a finished merge has fewer segments or fewer dead documents *)
(* than it found, so that merging comes to an end when indexing and        *)
(* deleting pause (policy.go:66-103).                                      *)
MergeGains ==
    [][merging.inputs # <<>> /\ merging'.inputs = <<>>
         => Len(segs') < Len(segs) \/ Dead' < Dead]_segmentVars
=============================================================================
