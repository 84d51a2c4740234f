-------------------------------- MODULE Answer --------------------------------
(***************************************************************************)
(* The answer pipeline (answer/engine with router, synth, verify, ground): *)
(* route, retrieve, rerank, build the context, synthesize, verify every    *)
(* claim and cite the survivors.                                           *)
(*                                                                         *)
(* Text is a sequence of tokens: words, "." for terminal punctuation, " "  *)
(* and markers "[n]".  Words in a row are words of their own, as if a      *)
(* comma stood between them.  Offsets count tokens.  Retriever, Reranker   *)
(* and Synthesizer are external and may return anything or fail; the       *)
(* Verifier is the reference one, scored in percent.                       *)
(***************************************************************************)
EXTENDS Integers, Sequences, FiniteSets, FiniteSetsExt, SequencesExt

CONSTANTS
    Shapes,         \* queries: [multiHop, question, words]
    Rerankings,     \* what Rerank may return: sequences of passages
    Drafts,         \* what the model may write
    MarkerNumber,   \* [marker token -> its number]
    Stopwords,
    MaxNavigationalWords, PerSource, Ceiling,   \* Ceiling: tokens, utilization applied
    Threshold, MinConfidence                    \* percent

(* A passage is [source, words, score, cost]; source "" cannot be grouped. *)

VARIABLES
    stage,  \* "route", "retrieve", "rerank", "synthesize", "verify" or an outcome
    passages, raw,
    answer  \* [text, citations, verified]

answerVars == <<stage, passages, raw, answer>>

-----------------------------------------------------------------------------
(* router.go                                                               *)

Classify(q) ==
    IF q.multiHop THEN "agentic"
    ELSE IF q.question THEN (IF q.words > 12 THEN "agentic" ELSE "single-pass")
    ELSE IF q.words <= MaxNavigationalWords THEN "search" ELSE "single-pass"

WantsModel(route) == route \in {"single-pass", "agentic"}

-----------------------------------------------------------------------------
(* synth.go                                                                *)

(* The ranks of a stable sort by descending score. *)
rank(ps, i) == Cardinality({j \in DOMAIN ps : ps[j].score > ps[i].score
                                              \/ (ps[j].score = ps[i].score /\ j < i)})

(* Each source keeps its best passages; the order of the rest stands. *)
Consolidate(ps) ==
    LET above(i) == {j \in DOMAIN ps : ps[j].source = ps[i].source /\ rank(ps, j) < rank(ps, i)}
        keep(i) == ps[i].source = "" \/ Cardinality(above(i)) < PerSource
        kept == SelectSeq([i \in DOMAIN ps |-> i], keep)
    IN  [n \in DOMAIN kept |-> ps[kept[n]]]

(* Dealt outward in: ranks 0, 2, 4 from the front, 1, 3 from the back. *)
Order(ps) ==
    LET n == Len(ps)
        place(r) == IF r % 2 = 0 THEN r \div 2 + 1 ELSE n - r \div 2
    IN  IF n <= 2 THEN ps
        ELSE [i \in 1 .. n |-> ps[CHOOSE j \in 1 .. n : place(rank(ps, j)) = i]]

(* The longest prefix below the ceiling. *)
Budget(ps) ==
    LET used(n) == MapThenSumSet(LAMBDA i : ps[i].cost, 1 .. n)
    IN  SubSeq(ps, 1, Max({n \in 0 .. Len(ps) : used(n) <= Ceiling}))

-----------------------------------------------------------------------------
(* citations.go                                                            *)

isMarker(t) == t \in DOMAIN MarkerNumber

(* The first position from i on, counted from 0, whose token is not in S. *)
past(b, i, S) == Min({j \in i .. Len(b) : j = Len(b) \/ b[j + 1] \notin S})

parseMarkers(b, pos) ==
    LET after == past(b, pos, DOMAIN MarkerNumber)
        cited == SelectSeq(SubSeq(b, pos + 1, after), LAMBDA t : MarkerNumber[t] > 0)
    IN  <<[i \in DOMAIN cited |-> MarkerNumber[cited[i]] - 1], after>>

(* The span [start, end) of b without the space around it, as a claim. *)
appendClaimSpan(claims, b, start, end, chunks) ==
    LET solid == {i \in start .. end - 1 : b[i + 1] # " "}
    IN  IF solid = {} THEN claims
        ELSE Append(claims, [start |-> Min(solid), end |-> Max(solid) + 1, chunks |-> chunks,
                             text |-> SubSeq(b, Min(solid) + 1, Max(solid) + 1)])

(* One turn of the loop: a token, or the end of a sentence with the        *)
(* markers behind it.                                                      *)
parseTurn(b, s) ==
    IF b[s.i + 1] # "." THEN [s EXCEPT !.clean = Append(@, b[s.i + 1]), !.i = @ + 1]
    ELSE LET stop == past(b, s.i, {"."})
             sentence == s.clean \o SubSeq(b, s.i + 1, stop)
             m == parseMarkers(b, past(b, stop, {" "}))
             claims == appendClaimSpan(s.claims, sentence, s.sentStart, Len(sentence), m[1])
             next == past(b, m[2], {" "})
             clean == IF next < Len(b) THEN Append(sentence, " ") ELSE sentence
         IN  IF m[1] # <<>>
             THEN [i |-> next, clean |-> clean, claims |-> claims, sentStart |-> Len(clean)]
             ELSE [i |-> stop, clean |-> sentence, claims |-> claims, sentStart |-> Len(sentence)]

(* The text without markers and its claims. *)
parseCitations(b) ==
    LET at[n \in 0 .. Len(b)] ==
            IF n = 0 THEN [i |-> 0, clean |-> <<>>, claims |-> <<>>, sentStart |-> 0]
            ELSE LET s == at[n - 1] IN IF s.i = Len(b) THEN s ELSE parseTurn(b, s)
        s == at[Len(b)]
    IN  <<s.clean, IF s.sentStart >= Len(s.clean) THEN s.claims
                   ELSE appendClaimSpan(s.claims, s.clean, s.sentStart, Len(s.clean), <<>>)>>

-----------------------------------------------------------------------------
(* verify.go and ground.go                                                 *)

(* What is between the separators: of a marker, its digits.                *)
word(t) == IF isMarker(t) THEN ToString(MarkerNumber[t]) ELSE t

contentWords(text) ==
    SelectSeq([i \in DOMAIN text |-> word(text[i])], LAMBDA w : w \notin {".", " "} \cup Stopwords)

(* OverlapVerifier: the share of the claim's words found in the passage. *)
Entail(text, passage) ==
    LET words == contentWords(text)
        hit == Len(SelectSeq(words, LAMBDA w : w \in passage.words))
    IN  IF words = <<>> THEN 0 ELSE (hit * 100) \div Len(words)

(* The best score among the cited passages that exist and entail the claim. *)
Check(claim, ps) ==
    Max({Entail(claim.text, ps[c + 1]) : c \in {d \in ToSet(claim.chunks) : d < Len(ps)}} \cup {0})

supported(claim, ps) == Check(claim, ps) >= Max({Threshold, MinConfidence})

Marker(chunks) ==
    [i \in DOMAIN chunks |-> CHOOSE t \in DOMAIN MarkerNumber : MarkerNumber[t] = chunks[i] + 1]

placed(text, s) == SubSeq(text, 1, s.end) \o Marker(s.chunks) \o SubSeq(text, s.end + 1, Len(text))

(* A slip: the first marker is placed first and moves the spans after it. *)
InsertForward(text, supports) ==
    LET at[n \in 0 .. Len(supports)] == IF n = 0 THEN text ELSE placed(at[n - 1], supports[n])
    IN  at[Len(supports)]

(* Supports come in the order of their spans; the last one is placed first. *)
Insert(text, supports) ==
    LET at[n \in 1 .. Len(supports) + 1] ==
            IF n = Len(supports) + 1 THEN text ELSE placed(at[n + 1], supports[n])
    IN  at[1]

(* Correct: the claims that stay, and whether all do. *)
Correct(claims, ps) ==
    <<SelectSeq(claims, LAMBDA c : supported(c, ps)), \A i \in DOMAIN claims : supported(claims[i], ps)>>

-----------------------------------------------------------------------------
(* engine.go                                                               *)

NoAnswer == [text |-> <<>>, citations |-> <<>>, verified |-> FALSE]

AnswerInit ==
    /\ stage = "route"
    /\ passages = <<>> /\ raw = <<>> /\ answer = NoAnswer

RouteQuery ==
    /\ stage = "route"
    /\ \E q \in Shapes : stage' = IF WantsModel(Classify(q)) THEN "retrieve" ELSE "ErrSearchRoute"
    /\ UNCHANGED <<passages, raw, answer>>

(* An error of any stage ends the query with it. *)
StageFails ==
    /\ stage \in {"retrieve", "rerank", "synthesize"}
    /\ stage' = "error"
    /\ UNCHANGED <<passages, raw, answer>>

Retrieve ==
    /\ stage = "retrieve"
    /\ stage' = "rerank"
    /\ UNCHANGED <<passages, raw, answer>>

Rerank ==
    /\ stage = "rerank"
    /\ \E reranked \in Rerankings : passages' = Budget(Order(Consolidate(reranked)))
    /\ stage' = "synthesize"
    /\ UNCHANGED <<raw, answer>>

Synthesize ==
    /\ stage = "synthesize"
    /\ raw' \in Drafts
    /\ stage' = "verify"
    /\ UNCHANGED <<passages, answer>>

Cite ==
    /\ stage = "verify"
    /\ LET parsed == parseCitations(raw)
           result == Correct(parsed[2], passages)
       IN  answer' = [text |-> Insert(parsed[1], result[1]), verified |-> result[2],
                      citations |-> [i \in DOMAIN result[1] |->
                          [start |-> result[1][i].start, end |-> result[1][i].end,
                           chunks |-> result[1][i].chunks]]]
    /\ stage' = "answered"
    /\ UNCHANGED <<passages, raw>>

AnswerNext == RouteQuery \/ StageFails \/ Retrieve \/ Rerank \/ Synthesize \/ Cite

-----------------------------------------------------------------------------
(* How far the markers of the citations before the i-th move its span.     *)
shift(i) == MapThenSumSet(LAMBDA j : Len(Marker(answer.citations[j].chunks)), 1 .. i - 1)

(* What stands in the answer from one offset to another.                   *)
shown(start, end) == SubSeq(answer.text, start + 1, end)

(* AnswerGrounded: every citation is found in the answer's text, where the *)
(* markers before it have moved it to: there stand a claim of the model,   *)
(* which a passage cited for it entails above the floor, and its own       *)
(* markers after it.  The first is at its offsets themselves.  Reading a   *)
(* verified answer back finds the model's own claims, each with the        *)
(* markers it was verified by: no claim lost, moved or cited by its        *)
(* neighbour (engine.go:131-133).                                          *)
AnswerGrounded ==
    stage = "answered" =>
        LET parsed == parseCitations(raw)
        IN  /\ \A i \in DOMAIN answer.citations :
                 LET c == answer.citations[i]
                     claim == shown(c.start + shift(i), c.end + shift(i))
                 IN  /\ \E own \in ToSet(parsed[2]) : own.text = claim /\ own.chunks = c.chunks
                     /\ \E d \in ToSet(c.chunks) \cap 0 .. Len(passages) - 1 :
                          Entail(claim, passages[d + 1]) >= MinConfidence
                     /\ shown(c.end + shift(i), c.end + shift(i + 1)) = Marker(c.chunks)
            /\ answer.verified => parseCitations(answer.text) = parsed

(* SpansInAnswerText: the offsets of every citation are those of its claim *)
(* in the answer's text, as answer.go:58-59 documents them.  It fails from *)
(* the second citation on, which points too early by the markers before    *)
(* it: engine.go:138 keeps the offsets of the text without them.           *)
SpansInAnswerText ==
    stage = "answered" =>
        \A i \in DOMAIN answer.citations :
            \E own \in ToSet(parseCitations(raw)[2]) :
                /\ own.chunks = answer.citations[i].chunks
                /\ own.text = shown(answer.citations[i].start, answer.citations[i].end)
=============================================================================
