------------------------------- MODULE MCIndex -------------------------------
(***************************************************************************)
(* The index of a node for TLC.  The codec, a top-k call, the life of      *)
(* segments and the graph of vectors share operators and no state, so one  *)
(* behaviour exercises one of them: part says which.                       *)
(***************************************************************************)
EXTENDS Wand, Segment, Hnsw, TLC

VARIABLE part

vars == <<wandVars, segmentVars, hnswVars, part, sample>>

(* Lists of n postings with these gaps between documents and frequencies. *)
postingLists(n, gaps, freqs) ==
    {[i \in 1 .. n |-> <<SumFunction([j \in 1 .. i |-> g[j]]), f[i]>>] :
        g \in [1 .. n -> gaps], f \in [1 .. n -> freqs]}

MCSamples == UNION {postingLists(n, {1, 3, 300}, {1, 2, 300}) : n \in 0 .. 3}
             \cup UNION {postingLists(n, {1, 300}, {1, 300}) : n \in 4 .. 6}
             \cup PostingLists

(* The first term gives nothing to a document that has it once.            *)
MCScorer == <<<<0, 2>>, <<1, 2>>>>

MCPostingLists ==
    {ps \in UNION {postingLists(n, 1 .. 4, 1 .. 2) : n \in 0 .. 3} :
        ps = <<>> \/ ps[Len(ps)][1] <= 4}

MCPage(url, a, ab, b) ==
    [doc |-> [url |-> url, title |-> <<>>, body |-> <<a, b>>, norms |-> <<a + b, 200>>],
     tf |-> (<<1>> :> a @@ <<1, 2>> :> ab @@ <<2>> :> b)]

MCPages == {MCPage(<<1>>, 1, 0, 2), MCPage(<<2, 1>>, 2, 300, 0), MCPage(<<>>, 0, 1, 1)}

(* A point in the middle of five others, each nearer to it than to the     *)
(* next: the hub of a star, whose list overflows.                          *)
Plane == <<<<0, 0>>, <<7, 0>>, <<2, 7>>, <<-6, 4>>, <<-6, -5>>, <<2, -5>>>>
MCDistance ==
    LET square(a) == a * a
    IN  [p \in Points |-> [q \in Points |->
            square(Plane[p][1] - Plane[q][1]) + square(Plane[p][2] - Plane[q][2])]]
MCLevels == [p \in Points |-> CASE p \in 1 .. 3 -> {1} [] p = 4 -> {0, 2} [] OTHER -> {0}]

NoCall ==
    /\ given = [t \in QueryTerms |-> <<>>] /\ lists = <<>> /\ k = 0 /\ maxScore = <<>>
    /\ cursor = <<>> /\ doc = <<>> /\ done = <<>>
    /\ top = {} /\ threshold = 0 /\ hits = <<>> /\ returned = TRUE

Init ==
    /\ SegmentInit /\ NewIndex
    /\ \/ part = "codec" /\ sample \in Samples /\ NoCall
       \/ part = "wand" /\ sample = <<>> /\ WANDCall
       \/ part \in {"segment", "vector"} /\ sample = <<>> /\ NoCall

Next ==
    /\ UNCHANGED <<part, sample>>
    /\ \/ part = "wand" /\ WandNext /\ UNCHANGED <<segmentVars, hnswVars>>
       \/ part = "segment" /\ SegmentNext /\ UNCHANGED <<wandVars, hnswVars>>
       \/ part = "vector" /\ HnswNext /\ UNCHANGED <<wandVars, segmentVars>>

(* A call of WAND runs alone in its goroutine until it returns. *)
Spec ==
    /\ Init /\ [][Next]_vars
    /\ WF_vars(WandNext /\ part = "wand" /\ UNCHANGED <<segmentVars, hnswVars, part, sample>>)
=============================================================================
