-------------------------------- MODULE MCEdge --------------------------------
(***************************************************************************)
(* What surrounds a query at the edge, for TLC: request metrics, traces,   *)
(* health tracking, the answer pipeline and federated search.  They share  *)
(* no state, so one behaviour exercises one of them: part says which.      *)
(***************************************************************************)
EXTENDS Metric, Trace, Health, Answer, Federation, TLC

VARIABLE part

vars == <<metricVars, traceVars, healthVars, answerVars, fedVars, part>>

MCBounds == <<1>>

MCMarkers == "[0]" :> 0 @@ "[1]" :> 1 @@ "[2]" :> 2

MCShapes == [multiHop : BOOLEAN, question : BOOLEAN, words : {2, 3, 13}]

MCTokens == {"a", "b", ".", " ", "[0]", "[1]", "[2]"}

(* "[0]" and spaces in the shorter drafts; two sentences with markers fit. *)
MCDrafts == UNION {[1 .. n -> MCTokens] : n \in 0 .. 4}
            \cup [1 .. 5 -> MCTokens \ {"[0]"}] \cup [1 .. 6 -> MCTokens \ {"[0]", " "}]

MCPassage(source, words, score) ==
    [source |-> source, words |-> words, score |-> score, cost |-> 2]

(* One passage has the number of a marker among its words.                 *)
MCRerankings ==
    {<<>>,
     <<MCPassage("x", {"a"}, 3), MCPassage("x", {"b"}, 2), MCPassage("y", {"b"}, 1)>>,
     <<MCPassage("y", {"b", "1"}, 1), MCPassage("x", {"a"}, 3), MCPassage("", {"a", "b"}, 2)>>}

MCHit(o, doc, score) == [op |-> o, doc |-> doc, score |-> score]
MCHits == [o \in Operators |->
             IF o = "first" THEN {MCHit(o, 1, 3), MCHit(o, 2, 1)}
             ELSE IF o = "peer" THEN {MCHit(o, 1, 2)} ELSE {MCHit(o, 1, 9)}]

Init ==
    /\ part \in {"metric", "trace", "health", "answer", "federation"}
    /\ New /\ NewTracers /\ NewHealthTracker /\ AnswerInit /\ FederationInit

Next ==
    /\ UNCHANGED part
    /\ \/ part = "metric" /\ MetricNext
          /\ UNCHANGED <<traceVars, healthVars, answerVars, fedVars>>
       \/ part = "trace" /\ TraceNext
          /\ UNCHANGED <<metricVars, healthVars, answerVars, fedVars>>
       \/ part = "health" /\ HealthNext
          /\ UNCHANGED <<metricVars, traceVars, answerVars, fedVars>>
       \/ part = "answer" /\ AnswerNext
          /\ UNCHANGED <<metricVars, traceVars, healthVars, fedVars>>
       \/ part = "federation" /\ FederationNext
          /\ UNCHANGED <<metricVars, traceVars, healthVars, answerVars>>

Spec == Init /\ [][Next]_vars
=============================================================================
