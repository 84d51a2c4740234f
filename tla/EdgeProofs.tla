----------------------------- MODULE EdgeProofs ------------------------------
(***************************************************************************)
(* Proofs about what surrounds a query: a head-sampled trace is whole, a   *)
(* federated page is the best of what was collected, and the metrics count *)
(* every request, for any number of processes, operators and requests.     *)
(***************************************************************************)
EXTENDS Trace, Federation, Metric, IterationProofs

-----------------------------------------------------------------------------
(***************************************************************************)
(* Traces.                                                                 *)
(***************************************************************************)

Contexts == [trace : Nat, span : Nat, sampled : BOOLEAN]
Heads == {"true", "false", "lost"}
Spans == [proc : Procs, sc : Contexts, parent : Nat, root : Procs \X Nat, head : Heads,
          errored : BOOLEAN]
Carriers == [trace : Nat, span : Nat, sampled : {"true", "false", "bad"}]
Messages == [call : Nat, to : Procs, carrier : Carriers, root : Procs \X Nat, head : Heads]

\* Ids are numbers, spans and calls are what the code puts together.
TraceTypeOK ==
  /\ seq \in [Procs -> Nat]
  /\ drawn \subseteq [proc : Procs, trace : Nat]
  /\ open \subseteq Spans /\ ended \subseteq Spans
  /\ kept \in Seq(Spans)
  /\ wire \subseteq Messages
  /\ calls \in Nat

\* The id of a span was drawn from the counter of its process.
DrawnInv == \A s \in open \cup ended : s.sc.span <= seq[s.proc]

\* A span's sampling bit is the decision of its root, unless it was lost on the way.
HeadInv ==
  /\ \A s \in open \cup ended : s.head # "lost" => s.head = FormatBool(s.sc.sampled)
  /\ \A m \in wire : m.head # "lost" => m.head = m.carrier.sampled

\* t has the place in the trace that id names.
IsParent(t, root, id, trace) == t.root = root /\ t.sc.span = id /\ t.sc.trace = trace

\* A span has a parent that was begun, another span of the same trace and root.
HasParent(s, begunSpans) ==
  \/ s.parent = 0 /\ s.root = <<s.proc, s.sc.span>>
  \/ \E t \in begunSpans : /\ IsParent(t, s.root, s.parent, s.sc.trace)
                           /\ t.proc # s.proc \/ t.sc.span # s.sc.span

\* A call that can still be joined comes from a span of another process.
HasCaller(m, begunSpans) ==
  Valid(m.carrier) => \E t \in begunSpans : /\ IsParent(t, m.root, m.carrier.span, m.carrier.trace)
                                            /\ t.proc # m.to

ParentInv ==
  /\ \A s \in open \cup ended : HasParent(s, open \cup ended)
  /\ \A m \in wire : HasCaller(m, open \cup ended)

\* A sampled span that has ended is kept.
KeptInv == \A s \in ended : s.sc.sampled => \E i \in 1..Len(kept) : kept[i] = s

TraceInv == TraceTypeOK /\ DrawnInv /\ HeadInv /\ ParentInv /\ KeptInv

\* Each span of B is in C, possibly with its error set.
Covers(B, C) == \A t \in B : \E u \in C : u.proc = t.proc /\ u.sc = t.sc /\ u.root = t.root

\* Parents and callers stay when spans are begun or end.
LEMMA ParentStays ==
  ASSUME NEW B, NEW C, Covers(B, C), NEW s, HasParent(s, B)
  PROVE  HasParent(s, C)
  <1>1. CASE s.parent = 0 /\ s.root = <<s.proc, s.sc.span>>
    BY <1>1 DEF HasParent
  <1>2. CASE \E t \in B : /\ IsParent(t, s.root, s.parent, s.sc.trace)
                          /\ t.proc # s.proc \/ t.sc.span # s.sc.span
    <2>1. PICK t \in B : /\ IsParent(t, s.root, s.parent, s.sc.trace)
                         /\ t.proc # s.proc \/ t.sc.span # s.sc.span
      BY <1>2
    <2>2. PICK u \in C : u.proc = t.proc /\ u.sc = t.sc /\ u.root = t.root
      BY DEF Covers
    <2>3. /\ IsParent(u, s.root, s.parent, s.sc.trace)
          /\ u.proc # s.proc \/ u.sc.span # s.sc.span
      BY <2>1, <2>2 DEF IsParent
    <2> QED
      BY <2>3 DEF HasParent
  <1> QED
    BY <1>1, <1>2 DEF HasParent

\* The same for the caller of a message.
LEMMA CallerStays ==
  ASSUME NEW B, NEW C, Covers(B, C), NEW m, HasCaller(m, B)
  PROVE  HasCaller(m, C)
  <1> SUFFICES ASSUME Valid(m.carrier)
               PROVE  \E t \in C : /\ IsParent(t, m.root, m.carrier.span, m.carrier.trace)
                                   /\ t.proc # m.to
    BY DEF HasCaller
  <1>1. PICK t \in B : IsParent(t, m.root, m.carrier.span, m.carrier.trace) /\ t.proc # m.to
    BY DEF HasCaller
  <1>2. PICK u \in C : u.proc = t.proc /\ u.sc = t.sc /\ u.root = t.root
    BY DEF Covers
  <1> QED
    BY <1>1, <1>2 DEF IsParent

\* Counters only grow.
Grows(a, b) == b \in [Procs -> Nat] /\ \A p \in Procs : a[p] <= b[p]

\* A span that may begin: it has its id, its root's decision and a parent.
MayBegin(x) ==
  /\ x \in Spans /\ x.sc.span <= seq'[x.proc]
  /\ x.head # "lost" => x.head = FormatBool(x.sc.sampled)
  /\ HasParent(x, open \cup ended)

\* Beginning a span keeps the invariant.
LEMMA BeginKeeps ==
  ASSUME TraceInv, NEW x, MayBegin(x), open' = open \cup {x}, Grows(seq, seq'),
         drawn' \subseteq [proc : Procs, trace : Nat], wire' \subseteq wire,
         UNCHANGED <<ended, kept, calls>>
  PROVE  TraceInv'
  <1>1. TraceTypeOK'
    BY DEF TraceInv, TraceTypeOK, MayBegin, Grows
  <1>2. DrawnInv'
    <2> SUFFICES ASSUME NEW s \in open' \cup ended' PROVE s.sc.span <= seq'[s.proc]
      BY DEF DrawnInv
    <2>1. CASE s = x
      BY <2>1 DEF MayBegin
    <2>2. CASE s \in open \cup ended
      <3>1. s.sc.span \in Nat /\ s.proc \in Procs /\ s.sc.span <= seq[s.proc]
        BY <2>2 DEF TraceInv, TraceTypeOK, DrawnInv, Spans, Contexts
      <3>2. seq[s.proc] \in Nat /\ seq'[s.proc] \in Nat /\ seq[s.proc] <= seq'[s.proc]
        BY <3>1 DEF TraceInv, TraceTypeOK, Grows
      <3> QED
        BY <3>1, <3>2
    <2> QED
      BY <2>1, <2>2
  <1>3. HeadInv'
    BY DEF TraceInv, HeadInv, MayBegin
  <1>4. Covers(open \cup ended, open' \cup ended')
    BY DEF Covers
  <1>5. ParentInv'
    <2>1. ASSUME NEW s \in open' \cup ended' PROVE HasParent(s, open' \cup ended')
      <3>1. HasParent(s, open \cup ended)
        BY DEF TraceInv, ParentInv, MayBegin
      <3> QED
        BY <3>1, <1>4, ParentStays
    <2>2. ASSUME NEW m \in wire' PROVE HasCaller(m, open' \cup ended')
      <3>1. HasCaller(m, open \cup ended)
        BY DEF TraceInv, ParentInv
      <3> QED
        BY <3>1, <1>4, CallerStays
    <2> QED
      BY <2>1, <2>2 DEF ParentInv
  <1>6. KeptInv'
    BY DEF TraceInv, KeptInv
  <1> QED
    BY <1>1, <1>2, <1>3, <1>5, <1>6 DEF TraceInv

\* A step that leaves the spans as they are and whose calls all have callers.
LEMMA SpansStay ==
  ASSUME TraceInv, UNCHANGED <<open, ended, kept>>, Grows(seq, seq'),
         drawn' \subseteq [proc : Procs, trace : Nat], wire' \subseteq Messages, calls' \in Nat,
         \A m \in wire' : (m.head # "lost" => m.head = m.carrier.sampled) /\ HasCaller(m, open \cup ended)
  PROVE  TraceInv'
  <1>1. TraceTypeOK'
    BY DEF TraceInv, TraceTypeOK, Grows
  <1>2. DrawnInv'
    <2> SUFFICES ASSUME NEW s \in open \cup ended PROVE s.sc.span <= seq'[s.proc]
      BY DEF DrawnInv
    <2>1. s.sc.span \in Nat /\ s.proc \in Procs /\ s.sc.span <= seq[s.proc]
      BY DEF TraceInv, TraceTypeOK, DrawnInv, Spans, Contexts
    <2>2. seq[s.proc] \in Nat /\ seq'[s.proc] \in Nat /\ seq[s.proc] <= seq'[s.proc]
      BY <2>1 DEF TraceInv, TraceTypeOK, Grows
    <2> QED
      BY <2>1, <2>2
  <1>3. HeadInv' /\ ParentInv' /\ KeptInv'
    BY DEF TraceInv, HeadInv, ParentInv, KeptInv
  <1> QED
    BY <1>1, <1>2, <1>3 DEF TraceInv

\* Drawing an id.
LEMMA DrawGrows ==
  ASSUME TraceTypeOK, NEW p \in Procs, seq' = [seq EXCEPT ![p] = seq[p] + 1]
  PROVE  Grows(seq, seq') /\ seq[p] \in Nat /\ seq'[p] = seq[p] + 1
  BY DEF TraceTypeOK, Grows

\* Ending a span keeps the invariant.
LEMMA EndKeeps ==
  ASSUME TraceInv, NEW s \in open, End(s)
  PROVE  TraceInv'
  <1>1. PICK errored \in BOOLEAN, slow \in BOOLEAN :
           /\ open' = open \ {s} /\ ended' = ended \cup {[s EXCEPT !.errored = errored]}
           /\ kept' = IF offered([s EXCEPT !.errored = errored], slow)
                      THEN Append(kept, [s EXCEPT !.errored = errored]) ELSE kept
           /\ UNCHANGED <<seq, drawn, wire, calls>>
    BY DEF End
  <1>2. s \in Spans
    BY DEF TraceInv, TraceTypeOK
  <1>3. PICK done \in Spans : done = [s EXCEPT !.errored = errored]
    BY <1>2 DEF Spans
  <1>4. done.proc = s.proc /\ done.sc = s.sc /\ done.root = s.root /\ done.parent = s.parent
        /\ done.head = s.head
    BY <1>2, <1>3 DEF Spans
  <1>5. open' = open \ {s} /\ ended' = ended \cup {done}
        /\ kept' = IF offered(done, slow) THEN Append(kept, done) ELSE kept
    BY <1>1, <1>3
  <1>6. TraceTypeOK'
    <2>1. kept' \in Seq(Spans)
      BY <1>5 DEF TraceInv, TraceTypeOK
    <2> QED
      BY <1>1, <1>5, <2>1 DEF TraceInv, TraceTypeOK
  <1>7. DrawnInv'
    BY <1>1, <1>4, <1>5 DEF TraceInv, DrawnInv
  <1>8. HeadInv'
    BY <1>1, <1>4, <1>5 DEF TraceInv, HeadInv
  <1>9. Covers(open \cup ended, open' \cup ended')
    BY <1>4, <1>5 DEF Covers
  <1>10. ParentInv'
    <2>1. ASSUME NEW t \in open' \cup ended' PROVE HasParent(t, open' \cup ended')
      <3>1. CASE t = done
        <4>1. HasParent(s, open \cup ended)
          BY DEF TraceInv, ParentInv
        <4>2. HasParent(done, open \cup ended)
          BY <4>1, <1>4 DEF HasParent
        <4> QED
          BY <3>1, <4>2, <1>9, ParentStays
      <3>2. CASE t \in open \cup ended
        <4>1. HasParent(t, open \cup ended)
          BY <3>2 DEF TraceInv, ParentInv
        <4> QED
          BY <4>1, <1>9, ParentStays
      <3> QED
        BY <3>1, <3>2, <1>5
    <2>2. ASSUME NEW m \in wire' PROVE HasCaller(m, open' \cup ended')
      <3>1. HasCaller(m, open \cup ended)
        BY <1>1 DEF TraceInv, ParentInv
      <3> QED
        BY <3>1, <1>9, CallerStays
    <2> QED
      BY <2>1, <2>2 DEF ParentInv
  <1>11. KeptInv'
    <2> SUFFICES ASSUME NEW t \in ended', t.sc.sampled PROVE \E i \in 1..Len(kept') : kept'[i] = t
      BY DEF KeptInv
    <2>1. kept \in Seq(Spans)
      BY DEF TraceInv, TraceTypeOK
    <2>2. CASE t = done
      <3>1. kept' = Append(kept, done)
        BY <2>2, <1>5 DEF offered
      <3>2. Len(kept') = Len(kept) + 1 /\ kept'[Len(kept) + 1] = done /\ Len(kept) \in Nat
        BY <2>1, <3>1
      <3> QED
        BY <2>2, <3>2
    <2>3. CASE t \in ended
      <3>1. PICK i \in 1..Len(kept) : kept[i] = t
        BY <2>3 DEF TraceInv, KeptInv
      <3>2. i \in 1..Len(kept') /\ kept'[i] = kept[i]
        BY <2>1, <1>5
      <3> QED
        BY <3>1, <3>2
    <2> QED
      BY <2>2, <2>3, <1>5
  <1> QED
    BY <1>6, <1>7, <1>8, <1>10, <1>11 DEF TraceInv

\* Starting a span under a valid parent that was begun keeps the invariant.
LEMMA StartSpanKeeps ==
  ASSUME TraceInv, NEW p \in Procs, NEW sc \in Contexts, NEW root \in Procs \X Nat, NEW head \in Heads,
         StartSpan(p, sc, root, head), wire' \subseteq wire,
         head # "lost" => head = FormatBool(sc.sampled),
         \E t \in open \cup ended : IsParent(t, root, sc.span, sc.trace) /\ (t.proc # p \/ t.sc.span # seq[p] + 1)
  PROVE  TraceInv'
  <1> DEFINE id == seq[p] + 1
             x == Span(p, SpanContext(sc.trace, id, sc.sampled), sc.span, root, head)
  <1>1. seq' = [seq EXCEPT ![p] = id] /\ open' = open \cup {x} /\ UNCHANGED <<drawn, ended, kept, calls>>
    BY DEF StartSpan, begin
  <1>2. Grows(seq, seq') /\ seq[p] \in Nat /\ seq'[p] = id
    BY <1>1, DrawGrows DEF TraceInv
  <1>3. x \in Spans /\ x.proc = p /\ x.sc.span = id /\ x.sc.trace = sc.trace /\ x.sc.sampled = sc.sampled
        /\ x.parent = sc.span /\ x.root = root /\ x.head = head
    BY <1>2 DEF Span, SpanContext, Spans, Contexts
  <1> HIDE DEF x, id
  <1>4. HasParent(x, open \cup ended)
    BY <1>3 DEF HasParent, id
  <1>5. MayBegin(x)
    BY <1>2, <1>3, <1>4 DEF MayBegin, id
  <1>6. drawn' \subseteq [proc : Procs, trace : Nat]
    BY <1>1 DEF TraceInv, TraceTypeOK
  <1> QED
    BY <1>1, <1>2, <1>5, <1>6, BeginKeeps

\* Every step of the tracers keeps the invariant.
LEMMA TraceStep ==
  ASSUME TraceInv, [TraceNext]_traceVars
  PROVE  TraceInv'
  <1>0. TraceTypeOK /\ seq \in [Procs -> Nat]
    BY DEF TraceInv, TraceTypeOK
  <1>w. \A m \in wire : (m.head # "lost" => m.head = m.carrier.sampled) /\ HasCaller(m, open \cup ended)
    BY DEF TraceInv, HeadInv, ParentInv
  <1>s. Grows(seq, seq)
    BY <1>0 DEF Grows
  <1>1. ASSUME NEW p \in Procs, DrawTraceID(p) PROVE TraceInv'
    <2>1. seq' = [seq EXCEPT ![p] = seq[p] + 1] /\ drawn' = drawn \cup {[proc |-> p, trace |-> seq[p] + 1]}
          /\ UNCHANGED <<open, ended, kept, wire, calls>>
      BY <1>1 DEF DrawTraceID
    <2>2. Grows(seq, seq') /\ seq[p] \in Nat
      BY <1>0, <2>1, DrawGrows
    <2>3. drawn' \subseteq [proc : Procs, trace : Nat] /\ wire' \subseteq Messages /\ calls' \in Nat
      BY <1>0, <2>1, <2>2 DEF TraceTypeOK
    <2> QED
      BY <1>w, <2>1, <2>2, <2>3, SpansStay
  <1>2. ASSUME NEW d \in drawn, StartTrace(d) PROVE TraceInv'
    <2> DEFINE p == d.proc
               id == seq[p] + 1
    <2>1. p \in Procs /\ d.trace \in Nat
      BY <1>0 DEF TraceTypeOK
    <2>2. PICK sampled \in BOOLEAN :
             open' = open \cup {Span(p, SpanContext(d.trace, id, sampled), 0, <<p, id>>, FormatBool(sampled))}
      BY <1>2 DEF StartTrace, begin, Sample
    <2>3. seq' = [seq EXCEPT ![p] = seq[p] + 1] /\ drawn' = drawn \ {d} /\ UNCHANGED <<ended, kept, wire, calls>>
      BY <1>2 DEF StartTrace
    <2>4. Grows(seq, seq') /\ seq[p] \in Nat /\ seq'[p] = id
      BY <1>0, <2>1, <2>3, DrawGrows
    <2> DEFINE x == Span(p, SpanContext(d.trace, id, sampled), 0, <<p, id>>, FormatBool(sampled))
    <2>5. x \in Spans /\ x.proc = p /\ x.sc.span = id /\ x.sc.sampled = sampled /\ x.parent = 0
          /\ x.root = <<p, id>> /\ x.head = FormatBool(sampled)
      BY <2>1, <2>4 DEF Span, SpanContext, Spans, Contexts, Heads, FormatBool
    <2> HIDE DEF x, id, p
    <2>6. MayBegin(x)
      BY <2>4, <2>5 DEF MayBegin, HasParent, id
    <2>7. drawn' \subseteq [proc : Procs, trace : Nat] /\ wire' \subseteq wire
      BY <1>0, <2>3 DEF TraceTypeOK
    <2> QED
      BY <2>2, <2>3, <2>4, <2>6, <2>7, BeginKeeps DEF x, id, p
  <1>3. ASSUME NEW s \in open, StartChild(s) PROVE TraceInv'
    <2>1. s \in Spans /\ s.sc.span <= seq[s.proc]
      BY DEF TraceInv, TraceTypeOK, DrawnInv
    <2>2. s.proc \in Procs /\ s.sc \in Contexts /\ s.root \in Procs \X Nat /\ s.head \in Heads
          /\ s.sc.span \in Nat /\ seq[s.proc] \in Nat
      BY <1>0, <2>1 DEF Spans, Contexts
    <2>3. s.head # "lost" => s.head = FormatBool(s.sc.sampled)
      BY DEF TraceInv, HeadInv
    <2>4. \E t \in open \cup ended : IsParent(t, s.root, s.sc.span, s.sc.trace)
                                     /\ (t.proc # s.proc \/ t.sc.span # seq[s.proc] + 1)
      BY <2>1, <2>2 DEF IsParent
    <2>5. StartSpan(s.proc, s.sc, s.root, s.head) /\ wire' \subseteq wire
      BY <1>3 DEF StartChild
    <2> QED
      BY <2>2, <2>3, <2>4, <2>5, StartSpanKeeps
  <1>4. ASSUME NEW s \in open, NEW q \in Procs, Call(s, q) PROVE TraceInv'
    <2> DEFINE m == [call |-> calls, to |-> q, carrier |-> Inject(s.sc), root |-> s.root, head |-> s.head]
    <2>1. s \in Spans /\ (s.head # "lost" => s.head = FormatBool(s.sc.sampled)) /\ calls \in Nat
      BY DEF TraceInv, TraceTypeOK, HeadInv
    <2>2. q # s.proc /\ calls' = calls + 1 /\ wire' = wire \cup {m} /\ UNCHANGED <<seq, drawn, open, ended, kept>>
      BY <1>4 DEF Call
    <2>3. m \in Messages /\ m.head = s.head /\ m.to = q /\ m.root = s.root /\ m.carrier = Inject(s.sc)
      BY <2>1 DEF Messages, Carriers, Inject, FormatBool, Spans, Contexts
    <2> HIDE DEF m
    <2>4. m.head # "lost" => m.head = m.carrier.sampled
      BY <2>1, <2>3 DEF Inject
    <2>5. HasCaller(m, open \cup ended)
      BY <2>2, <2>3 DEF HasCaller, IsParent, Inject
    <2>6. drawn' \subseteq [proc : Procs, trace : Nat] /\ wire' \subseteq Messages /\ calls' \in Nat
      BY <1>0, <2>1, <2>2, <2>3 DEF TraceTypeOK
    <2>7. Grows(seq, seq')
      BY <1>s, <2>2
    <2>8. \A k \in wire' : (k.head # "lost" => k.head = k.carrier.sampled) /\ HasCaller(k, open \cup ended)
      BY <1>w, <2>2, <2>4, <2>5
    <2> QED
      BY <2>2, <2>6, <2>7, <2>8, SpansStay
  <1>5. ASSUME NEW m \in wire, Damage(m) PROVE TraceInv'
    <2>1. PICK bad \in {[m EXCEPT !.carrier.trace = 0], [m EXCEPT !.carrier.span = 0],
                        [m EXCEPT !.carrier.sampled = "bad", !.head = "lost"]} :
             wire' = (wire \ {m}) \cup {bad}
      BY <1>5 DEF Damage
    <2>2. UNCHANGED <<seq, drawn, open, ended, kept, calls>> /\ Valid(m.carrier)
      BY <1>5 DEF Damage
    <2>3. m \in Messages
      BY <1>0 DEF TraceTypeOK
    <2>4. bad \in Messages
      <3>1. m.carrier \in Carriers
        BY <2>3 DEF Messages
      <3>2. [m.carrier EXCEPT !.trace = 0] \in Carriers /\ [m.carrier EXCEPT !.span = 0] \in Carriers
            /\ [m.carrier EXCEPT !.sampled = "bad"] \in Carriers
        BY <3>1 DEF Carriers
      <3>3. \A c \in Carriers, h \in Heads :
               [m EXCEPT !.carrier = c] \in Messages /\ [m EXCEPT !.carrier = c, !.head = h] \in Messages
        BY <2>3 DEF Messages
      <3>4. "lost" \in Heads
        BY DEF Heads
      <3> QED
        BY <3>2, <3>3, <3>4
    <2>5. bad.head # "lost" => bad.head = bad.carrier.sampled
      BY <1>w, <2>3 DEF Messages, Carriers
    <2>6. HasCaller(bad, open \cup ended)
      <3>1. CASE bad.carrier.trace = 0 \/ bad.carrier.span = 0
        BY <3>1 DEF HasCaller, Valid
      <3>2. CASE bad = [m EXCEPT !.carrier.sampled = "bad", !.head = "lost"]
        <4>1. bad.root = m.root /\ bad.to = m.to /\ bad.carrier.span = m.carrier.span
              /\ bad.carrier.trace = m.carrier.trace
          BY <3>2, <2>3 DEF Messages, Carriers
        <4>2. HasCaller(m, open \cup ended)
          BY <1>w
        <4> QED
          BY <4>1, <4>2, <2>2 DEF HasCaller, Valid
      <3>3. CASE bad = [m EXCEPT !.carrier.trace = 0]
        <4>1. bad.carrier.trace = 0
          BY <3>3, <2>3 DEF Messages, Carriers
        <4> QED
          BY <4>1, <3>1
      <3>4. CASE bad = [m EXCEPT !.carrier.span = 0]
        <4>1. bad.carrier.span = 0
          BY <3>4, <2>3 DEF Messages, Carriers
        <4> QED
          BY <4>1, <3>1
      <3> QED
        BY <3>2, <3>3, <3>4
    <2>7. drawn' \subseteq [proc : Procs, trace : Nat] /\ wire' \subseteq Messages /\ calls' \in Nat
      BY <1>0, <2>1, <2>2, <2>4 DEF TraceTypeOK
    <2>8. Grows(seq, seq')
      BY <1>s, <2>2
    <2>9. \A k \in wire' : (k.head # "lost" => k.head = k.carrier.sampled) /\ HasCaller(k, open \cup ended)
      BY <1>w, <2>1, <2>5, <2>6
    <2> QED
      BY <2>2, <2>7, <2>8, <2>9, SpansStay
  <1>6. ASSUME NEW m \in wire, Serve(m) PROVE TraceInv'
    <2> DEFINE sc == Extract(m.carrier)
    <2>1. m \in Messages
      BY <1>0 DEF TraceTypeOK
    <2>2. m.to \in Procs /\ m.root \in Procs \X Nat /\ m.head \in Heads /\ m.carrier \in Carriers
      BY <2>1 DEF Messages
    <2>3. wire' = wire \ {m}
      BY <1>6 DEF Serve
    <2>4. CASE Valid(sc) /\ StartSpan(m.to, sc, m.root, m.head)
      <3>1. sc = SpanContext(m.carrier.trace, m.carrier.span, m.carrier.sampled = "true") /\ Valid(m.carrier)
        BY <2>4 DEF Extract, NoContext, Valid, SpanContext
      <3>2. sc \in Contexts /\ sc.trace = m.carrier.trace /\ sc.span = m.carrier.span
            /\ sc.sampled = (m.carrier.sampled = "true")
        BY <2>2, <3>1 DEF SpanContext, Contexts, Carriers
      <3> HIDE DEF sc
      <3>3. m.head # "lost" => m.head = FormatBool(sc.sampled)
        <4>1. m.head # "lost" => m.head = m.carrier.sampled
          BY <1>w
        <4> QED
          BY <4>1, <3>2, <2>2 DEF FormatBool, Heads
      <3>4. PICK t \in open \cup ended : IsParent(t, m.root, m.carrier.span, m.carrier.trace) /\ t.proc # m.to
        BY <1>w, <3>1 DEF HasCaller
      <3>5. \E t1 \in open \cup ended : IsParent(t1, m.root, sc.span, sc.trace)
                                        /\ (t1.proc # m.to \/ t1.sc.span # seq[m.to] + 1)
        BY <3>2, <3>4
      <3> QED
        BY <2>2, <2>3, <2>4, <3>2, <3>3, <3>5, StartSpanKeeps
    <2>5. CASE ~(Valid(sc) /\ StartSpan(m.to, sc, m.root, m.head))
      <3>1. seq' = [seq EXCEPT ![m.to] = seq[m.to] + 1]
            /\ drawn' = drawn \cup {[proc |-> m.to, trace |-> seq[m.to] + 1]}
            /\ UNCHANGED <<open, ended, kept, calls>>
        BY <1>6, <2>5 DEF Serve
      <3>2. Grows(seq, seq') /\ seq[m.to] \in Nat
        BY <1>0, <2>2, <3>1, DrawGrows
      <3>3. drawn' \subseteq [proc : Procs, trace : Nat] /\ wire' \subseteq Messages /\ calls' \in Nat
        BY <1>0, <2>2, <2>3, <3>1, <3>2 DEF TraceTypeOK
      <3>4. \A k \in wire' : (k.head # "lost" => k.head = k.carrier.sampled) /\ HasCaller(k, open \cup ended)
        BY <1>w, <2>3
      <3> QED
        BY <3>1, <3>2, <3>3, <3>4, SpansStay
    <2> QED
      BY <2>4, <2>5
  <1>7. ASSUME NEW s \in open, End(s) PROVE TraceInv'
    BY <1>7, EndKeeps
  <1>8. CASE UNCHANGED traceVars
    BY <1>8 DEF traceVars, TraceInv, TraceTypeOK, DrawnInv, HeadInv, ParentInv, KeptInv
  <1> QED
    BY <1>1, <1>2, <1>3, <1>4, <1>5, <1>6, <1>7, <1>8 DEF TraceNext

\* The inductive invariant of the tracers.
THEOREM TraceCorrect == TraceSpec => []TraceInv
  <1>1. NewTracers => TraceInv
    BY DEF NewTracers, TraceInv, TraceTypeOK, DrawnInv, HeadInv, ParentInv, KeptInv
  <1>2. TraceInv /\ [TraceNext]_traceVars => TraceInv'
    BY TraceStep
  <1> QED
    BY <1>1, <1>2, PTL DEF TraceSpec

\* A head-sampled trace is whole: each of its ended spans was kept, and finds its parent
\* among the spans of the same root, however calls, ends and lost headers interleave.
THEOREM TracesAreWhole == TraceSpec => []SampledTraceWhole
  <1>1. TraceInv => SampledTraceWhole
    <2> SUFFICES ASSUME TraceInv, NEW s \in ended, s.head = "true"
                 PROVE  /\ s \in TraceOf(s.sc.trace)
                        /\ \/ s.parent = 0 /\ s.root = <<s.proc, s.sc.span>>
                           \/ \E t \in open \cup ended :
                                /\ t # s /\ t.root = s.root
                                /\ t.sc.span = s.parent /\ t.sc.trace = s.sc.trace
      BY DEF SampledTraceWhole
    <2>1. s.sc.sampled
      BY DEF TraceInv, HeadInv, FormatBool
    <2>2. PICK i \in 1..Len(kept) : kept[i] = s
      BY <2>1 DEF TraceInv, KeptInv
    <2>3. s \in TraceOf(s.sc.trace)
      BY <2>2 DEF TraceOf, keptSet, TraceInv, TraceTypeOK
    <2>4. HasParent(s, open \cup ended)
      BY DEF TraceInv, ParentInv
    <2> QED
      BY <2>3, <2>4 DEF HasParent, IsParent
  <1> QED
    BY <1>1, TraceCorrect, PTL

-----------------------------------------------------------------------------
(***************************************************************************)
(* Federated search.                                                       *)
(***************************************************************************)

FedTypeOK ==
  /\ query \in {"idle", "collecting", "returned"}
  /\ trusted \subseteq Operators
  /\ leaf \in [Operators -> {"idle", "searching", "sent", "done"}]
  /\ collected \in Nat /\ timer \in BOOLEAN /\ ctxDone \in BOOLEAN

\* The gate is asked once, when the query starts.
GateInv ==
  /\ query = "idle" => trusted = {}
  /\ query # "idle" => trusted = {o \in Operators : Trusted(o)}
  /\ \A o \in Operators : leaf[o] # "idle" <=> o \in trusted

\* A partial in the channel is the one its partition sent.
PartialInv ==
  /\ \A p \in channel : p[1] \in Operators /\ leaf[p[1]] = "sent" /\ p[2] \subseteq Hits[p[1]]
  /\ \A p, q \in channel : p[1] = q[1] => p = q

\* What was collected came from the partitions that are done.
DoneLeaves == {o \in Operators : leaf[o] = "done"}

CollectedInv ==
  /\ collected = Cardinality(DoneLeaves)
  /\ IsFiniteSet(merged)
  /\ \A h \in merged : h.op \in Operators /\ leaf[h.op] = "done" /\ h \in Hits[h.op]

\* The page is the top of what was collected, and was returned for a reason.
PageInv ==
  query = "returned" =>
    /\ page \in topKs(merged, FedK)
    /\ timer \/ ctxDone \/ \A o \in Operators : leaf[o] \in {"idle", "done"}

\* Before a query nothing is merged, and before its end there is no page.
BlankInv == (query = "idle" => merged = {}) /\ (query # "returned" => page = {})

FedInv == FedTypeOK /\ GateInv /\ PartialInv /\ CollectedInv /\ PageInv /\ BlankInv

\* The smaller of two numbers.
LEMMA MinOfTwo ==
  ASSUME NEW a \in Int, NEW b \in Int
  PROVE  Min({a, b}) = IF a <= b THEN a ELSE b
  <1> DEFINE m == IF a <= b THEN a ELSE b
  <1>1. m \in {a, b} /\ \A y \in {a, b} : m <= y
    OBVIOUS
  <1>2. \A x \in {a, b} : (\A y \in {a, b} : x <= y) => x = m
    OBVIOUS
  <1> HIDE DEF m
  <1>3. Min({a, b}) = m
    BY <1>1, <1>2, Zenon DEF Min
  <1> QED
    BY <1>3 DEF m

\* The larger of two numbers.
LEMMA MaxOfTwo ==
  ASSUME NEW a \in Int, NEW b \in Int
  PROVE  Max({a, b}) = IF a >= b THEN a ELSE b
  <1> DEFINE m == IF a >= b THEN a ELSE b
  <1>1. m \in {a, b} /\ \A y \in {a, b} : m >= y
    OBVIOUS
  <1>2. \A x \in {a, b} : (\A y \in {a, b} : x >= y) => x = m
    OBVIOUS
  <1> HIDE DEF m
  <1>3. Max({a, b}) = m
    BY <1>1, <1>2, Zenon DEF Max
  <1> QED
    BY <1>3 DEF m

\* A hit of S that is not among the first k is behind k hits that are.
LEMMA TopKLeavesLesser ==
  ASSUME NEW S, IsFiniteSet(S), \A h \in S : h.score \in Int, NEW k \in Int,
         NEW T \in topKs(S, k), NEW h \in S \ T
  PROVE  Cardinality({g \in T : g.score >= h.score}) >= k
  <1>1. T \subseteq S /\ Cardinality(T) = (IF k > 0 THEN Min({k, Cardinality(S)}) ELSE Cardinality(S))
        /\ \A x \in S \ T, g \in T : ~(x.score > g.score)
    BY DEF topKs
  <1>2. Cardinality(S) \in Nat /\ IsFiniteSet(T) /\ Cardinality(T) \in Nat
    BY <1>1, FS_CardinalityType, FS_Subset
  <1>3. Cardinality(T) < Cardinality(S)
    <2>1. T # S
      OBVIOUS
    <2>2. T \in SUBSET S
      BY <1>1
    <2>3. Cardinality(T) <= Cardinality(S) /\ Cardinality(S) # Cardinality(T)
      BY <2>1, <2>2, FS_Subset
    <2> QED
      BY <1>2, <2>3
  <1>4. k > 0 /\ Cardinality(T) = k
    <2>1. Min({k, Cardinality(S)}) = IF k <= Cardinality(S) THEN k ELSE Cardinality(S)
      BY <1>2, MinOfTwo
    <2> QED
      BY <1>1, <1>2, <1>3, <2>1
  <1>5. {g \in T : g.score >= h.score} = T
    BY <1>1
  <1> QED
    BY <1>4, <1>5

\* The invariant says what FederatedPage says.
LEMMA PageIsFederated ==
  ASSUME FedInv
  PROVE  FederatedPage
  <1> SUFFICES ASSUME query = "returned"
               PROVE  /\ \A h \in page : h.op \in registry /\ reputation[h.op] >= MinReputation
                                         /\ leaf[h.op] = "done"
                      /\ \A o \in Operators : leaf[o] = "done" =>
                           \A h \in Hits[o] \ page :
                             h \in merged => Cardinality({g \in page : g.score >= h.score}) >= FedK
                      /\ timer \/ ctxDone \/ \A o \in Operators : leaf[o] \in {"idle", "done"}
    BY DEF FederatedPage
  <1>1. page \in topKs(merged, FedK) /\ (timer \/ ctxDone \/ \A o \in Operators : leaf[o] \in {"idle", "done"})
    BY DEF FedInv, PageInv
  <1>2. page \subseteq merged
    BY <1>1 DEF topKs
  <1>3. \A h \in merged : h.op \in Operators /\ leaf[h.op] = "done" /\ h \in Hits[h.op]
    BY DEF FedInv, CollectedInv
  <1>4. ASSUME NEW h \in page
        PROVE  h.op \in registry /\ reputation[h.op] >= MinReputation /\ leaf[h.op] = "done"
    <2>1. h.op \in Operators /\ leaf[h.op] = "done"
      BY <1>2, <1>3
    <2>2. h.op \in trusted
      BY <2>1 DEF FedInv, GateInv
    <2>3. Trusted(h.op)
      BY <2>2 DEF FedInv, GateInv
    <2> QED
      BY <2>1, <2>3 DEF Trusted
  <1>5. ASSUME NEW h \in merged, h \notin page
        PROVE  Cardinality({g \in page : g.score >= h.score}) >= FedK
    <2>1. IsFiniteSet(merged) /\ FedK \in Int /\ h \in merged \ page
      BY <1>5, FederationAssumption DEF FedInv, CollectedInv
    <2>2. \A x \in merged : x.score \in Int
      BY <1>3, FederationAssumption
    <2> QED
      BY <1>1, <2>1, <2>2, TopKLeavesLesser
  <1> QED
    BY <1>1, <1>4, <1>5

\* No hits, no page.
LEMMA TopOfNothing == {} \in topKs({}, FedK)
  <1>1. Cardinality({}) = 0
    BY FS_EmptySet
  <1>2. FedK > 0 => Min({FedK, 0}) = 0
    BY MinOfTwo, FederationAssumption
  <1> QED
    BY <1>1, <1>2 DEF topKs

\* A new federator.
LEMMA FedInvInit ==
  ASSUME FederationInit
  PROVE  FedInv
  <1>1. DoneLeaves = {}
    BY DEF FederationInit, DoneLeaves
  <1> QED
    BY <1>1, FS_EmptySet DEF FederationInit, FedInv, FedTypeOK, GateInv, PartialInv, CollectedInv, PageInv, BlankInv

\* Before a query, keys and reputations may change.
LEMMA GateChanges ==
  ASSUME FedInv, query = "idle", UNCHANGED <<query, fanVars>>
  PROVE  FedInv'
  <1>1. UNCHANGED <<trusted, leaf, channel, collected, merged, subDeadline, timer, ctxDone, page>>
    BY DEF fanVars
  <1>2. DoneLeaves' = DoneLeaves
    BY <1>1 DEF DoneLeaves
  <1> QED
    BY <1>1, <1>2 DEF FedInv, FedTypeOK, GateInv, PartialInv, CollectedInv, PageInv, BlankInv

\* Search asks the gate.
LEMMA FedSearchKeeps ==
  ASSUME FedInv, Search
  PROVE  FedInv'
  <1>1. query = "idle" /\ trusted' = {o \in Operators : Trusted(o)}
        /\ query' = (IF trusted' = {} THEN "returned" ELSE "collecting")
        /\ leaf' = [o \in Operators |-> IF o \in trusted' THEN "searching" ELSE "idle"]
        /\ UNCHANGED <<registry, reputation, channel, collected, merged, subDeadline, timer, ctxDone, page>>
    BY DEF Search
  <1>2. trusted = {} /\ merged = {} /\ page = {} /\ \A o \in Operators : leaf[o] = "idle"
    BY <1>1 DEF FedInv, GateInv, BlankInv
  <1>3. channel = {}
    BY <1>2 DEF FedInv, PartialInv
  <1>4. DoneLeaves = {} /\ DoneLeaves' = {}
    BY <1>1, <1>2 DEF DoneLeaves
  <1>5. FedTypeOK'
    BY <1>1 DEF FedInv, FedTypeOK
  <1>6. GateInv'
    <2>1. \A o \in Operators : Trusted(o)' <=> Trusted(o)
      BY <1>1 DEF Trusted
    <2>2. trusted' = {o \in Operators : Trusted(o)'}
      BY <1>1, <2>1
    <2> QED
      BY <1>1, <2>2 DEF GateInv
  <1>7. PartialInv' /\ CollectedInv' /\ BlankInv'
    BY <1>1, <1>2, <1>3, <1>4 DEF FedInv, PartialInv, CollectedInv, BlankInv
  <1>8. PageInv'
    BY <1>1, <1>2, TopOfNothing DEF PageInv
  <1> QED
    BY <1>5, <1>6, <1>7, <1>8 DEF FedInv

\* A partition sends its results, or nothing.
LEMMA SendKeeps ==
  ASSUME FedInv, NEW o \in Operators, NEW R, R \subseteq Hits[o],
         leaf[o] = "searching", leaf' = [leaf EXCEPT ![o] = "sent"], channel' = channel \cup {<<o, R>>},
         UNCHANGED <<registry, reputation, query, trusted, collected, merged, subDeadline, timer,
                     ctxDone, page>>
  PROVE  FedInv'
  <1>1. leaf \in [Operators -> {"idle", "searching", "sent", "done"}]
    BY DEF FedInv, FedTypeOK
  <1>2. leaf'[o] = "sent" /\ \A q \in Operators : q # o => leaf'[q] = leaf[q]
    BY <1>1
  <1>3. DoneLeaves' = DoneLeaves
    BY <1>2 DEF DoneLeaves
  <1>4. FedTypeOK'
    BY <1>1 DEF FedInv, FedTypeOK
  <1>5. GateInv'
    <2>1. \A q \in Operators : Trusted(q)' <=> Trusted(q)
      BY DEF Trusted
    <2>2. {q \in Operators : Trusted(q)'} = {q \in Operators : Trusted(q)}
      BY <2>1
    <2>3. \A q \in Operators : leaf'[q] # "idle" <=> q \in trusted
      BY <1>2 DEF FedInv, GateInv
    <2> QED
      BY <2>2, <2>3 DEF FedInv, GateInv
  <1>6. PartialInv'
    <2>1. \A p \in channel : p[1] # o
      BY DEF FedInv, PartialInv
    <2>2. <<o, R>>[1] = o /\ <<o, R>>[2] = R
      OBVIOUS
    <2>3. PartialInv
      BY DEF FedInv
    <2> QED
      BY <2>1, <2>2, <2>3, <1>2 DEF PartialInv
  <1>7. CollectedInv'
    BY <1>2, <1>3 DEF FedInv, CollectedInv
  <1>8. PageInv' /\ BlankInv'
    BY <1>2 DEF FedInv, PageInv, BlankInv
  <1> QED
    BY <1>4, <1>5, <1>6, <1>7, <1>8 DEF FedInv

\* A deadline, the timer or the caller's context ends while the query collects.
LEMMA ClockKeeps ==
  ASSUME FedInv, query = "collecting", timer' \in BOOLEAN, ctxDone' \in BOOLEAN,
         UNCHANGED <<registry, reputation, query, trusted, leaf, channel, collected, merged, page>>
  PROVE  FedInv'
  <1>1. DoneLeaves' = DoneLeaves
    BY DEF DoneLeaves
  <1>2. \A q \in Operators : Trusted(q)' <=> Trusted(q)
    BY DEF Trusted
  <1>3. {q \in Operators : Trusted(q)'} = {q \in Operators : Trusted(q)}
    BY <1>2
  <1>4. GateInv'
    BY <1>3 DEF FedInv, GateInv
  <1>5. FedTypeOK' /\ PartialInv' /\ CollectedInv' /\ PageInv' /\ BlankInv'
    BY <1>1 DEF FedInv, FedTypeOK, PartialInv, CollectedInv, PageInv, BlankInv
  <1> QED
    BY <1>4, <1>5 DEF FedInv

\* The loop takes a partial; the last one ends it.
LEMMA FedReceiveKeeps ==
  ASSUME FedInv, NEW p \in channel, Receive(p)
  PROVE  FedInv'
  <1> DEFINE o == p[1]
  <1>1. /\ query = "collecting" /\ channel' = channel \ {p} /\ leaf' = [leaf EXCEPT ![o] = "done"]
        /\ merged' = merged \cup p[2] /\ collected' = collected + 1
        /\ UNCHANGED <<registry, reputation, trusted, subDeadline, timer, ctxDone>>
        /\ \/ collected' = Cardinality(trusted) /\ query' = "returned" /\ page' \in topKs(merged', FedK)
           \/ query' = query /\ page' = page
    BY DEF Receive
  <1>2. o \in Operators /\ leaf[o] = "sent" /\ p[2] \subseteq Hits[o]
        /\ \A q \in channel : q[1] = o => q = p
    BY DEF FedInv, PartialInv
  <1>3. leaf \in [Operators -> {"idle", "searching", "sent", "done"}] /\ collected \in Nat
    BY DEF FedInv, FedTypeOK
  <1> HIDE DEF o
  <1>4. leaf'[o] = "done" /\ \A q \in Operators : q # o => leaf'[q] = leaf[q]
    BY <1>1, <1>2, <1>3
  <1>5. DoneLeaves' = DoneLeaves \cup {o} /\ o \notin DoneLeaves
    BY <1>2, <1>4 DEF DoneLeaves
  <1>6. IsFiniteSet(DoneLeaves)
    <2>1. DoneLeaves \subseteq Operators
      BY DEF DoneLeaves
    <2> QED
      BY <2>1, FederationAssumption, FS_Subset
  <1>7. CollectedInv'
    <2>1. collected = Cardinality(DoneLeaves) /\ IsFiniteSet(merged)
          /\ \A h \in merged : h.op \in Operators /\ leaf[h.op] = "done" /\ h \in Hits[h.op]
      BY DEF FedInv, CollectedInv
    <2>2. collected' = Cardinality(DoneLeaves')
      BY <1>1, <1>5, <1>6, <2>1, FS_AddElement
    <2>3. IsFiniteSet(p[2])
      BY <1>2, FederationAssumption, FS_Subset
    <2>4. IsFiniteSet(merged')
      BY <1>1, <2>1, <2>3, FS_Union
    <2>5. ASSUME NEW h \in merged' PROVE h.op \in Operators /\ leaf'[h.op] = "done" /\ h \in Hits[h.op]
      <3>1. CASE h \in merged
        BY <3>1, <2>1, <1>2, <1>4
      <3>2. CASE h \in p[2]
        BY <3>2, <1>2, <1>4, FederationAssumption
      <3> QED
        BY <3>1, <3>2, <1>1
    <2> QED
      BY <2>2, <2>4, <2>5 DEF CollectedInv
  <1>8. FedTypeOK'
    BY <1>1, <1>2, <1>3 DEF FedInv, FedTypeOK
  <1>9. GateInv'
    <2>1. \A q \in Operators : Trusted(q)' <=> Trusted(q)
      BY <1>1 DEF Trusted
    <2>2. {q \in Operators : Trusted(q)'} = {q \in Operators : Trusted(q)}
      BY <2>1
    <2>3. \A q \in Operators : leaf'[q] # "idle" <=> q \in trusted
      BY <1>2, <1>4 DEF FedInv, GateInv
    <2> QED
      BY <1>1, <2>2, <2>3 DEF FedInv, GateInv
  <1>10. PartialInv'
    <2>1. PartialInv
      BY DEF FedInv
    <2>2. \A q \in channel' : q \in channel /\ q[1] # o
      BY <1>1, <1>2
    <2> QED
      BY <2>1, <2>2, <1>4 DEF PartialInv
  <1>11. BlankInv'
    BY <1>1 DEF FedInv, BlankInv
  <1>12. PageInv'
    <2> SUFFICES ASSUME query' = "returned"
                 PROVE  page' \in topKs(merged', FedK) /\ \A q \in Operators : leaf'[q] \in {"idle", "done"}
      BY DEF PageInv
    <2>1. collected' = Cardinality(trusted) /\ page' \in topKs(merged', FedK)
      BY <1>1
    <2>2. DoneLeaves' \subseteq trusted
      BY <1>1, <1>9 DEF GateInv, DoneLeaves
    <2>3. IsFiniteSet(trusted)
      BY FederationAssumption, FS_Subset DEF FedInv, FedTypeOK
    <2>4. Cardinality(DoneLeaves') = Cardinality(trusted)
      BY <2>1, <1>7 DEF CollectedInv
    <2>5. DoneLeaves' = trusted
      BY <2>2, <2>3, <2>4, FS_Subset
    <2>6. ASSUME NEW q \in Operators PROVE leaf'[q] \in {"idle", "done"}
      BY <2>5, <1>1, <1>9 DEF GateInv, DoneLeaves
    <2> QED
      BY <2>1, <2>6
  <1> QED
    BY <1>7, <1>8, <1>9, <1>10, <1>11, <1>12 DEF FedInv

\* The timer or the context ends the loop.
LEMMA GiveUpKeeps ==
  ASSUME FedInv, GiveUp
  PROVE  FedInv'
  <1>1. query = "collecting" /\ (timer \/ ctxDone) /\ query' = "returned" /\ page' \in topKs(merged, FedK)
        /\ UNCHANGED <<registry, reputation, trusted, leaf, channel, collected, merged, subDeadline,
                       timer, ctxDone>>
    BY DEF GiveUp
  <1>2. DoneLeaves' = DoneLeaves
    BY <1>1 DEF DoneLeaves
  <1>3. \A q \in Operators : Trusted(q)' <=> Trusted(q)
    BY <1>1 DEF Trusted
  <1>4. {q \in Operators : Trusted(q)'} = {q \in Operators : Trusted(q)}
    BY <1>3
  <1>5. GateInv'
    BY <1>1, <1>4 DEF FedInv, GateInv
  <1>6. FedTypeOK' /\ PartialInv' /\ CollectedInv' /\ BlankInv'
    BY <1>1, <1>2 DEF FedInv, FedTypeOK, PartialInv, CollectedInv, BlankInv
  <1>7. PageInv'
    BY <1>1 DEF PageInv
  <1> QED
    BY <1>5, <1>6, <1>7 DEF FedInv

\* The inductive invariant of a federated query.
THEOREM FederationCorrect == FederationSpec => []FedInv
  <1>1. FederationInit => FedInv
    BY FedInvInit
  <1>2. FedInv /\ [FederationNext]_fedVars => FedInv'
    <2> SUFFICES ASSUME FedInv, [FederationNext]_fedVars PROVE FedInv'
      OBVIOUS
    <2>1. ASSUME NEW o \in Operators, RegistryAdd(o) PROVE FedInv'
      BY <2>1, GateChanges DEF RegistryAdd
    <2>2. ASSUME NEW o \in Operators, NEW s \in Reputations, SetReputation(o, s) PROVE FedInv'
      BY <2>2, GateChanges DEF SetReputation
    <2>3. ASSUME NEW o \in Operators, LeafAnswers(o) PROVE FedInv'
      <3>1. Hits[o] \subseteq Hits[o]
        OBVIOUS
      <3> QED
        BY <2>3, <3>1, SendKeeps DEF LeafAnswers
    <2>4. ASSUME NEW o \in Operators, LeafFails(o) PROVE FedInv'
      <3>1. {} \subseteq Hits[o]
        OBVIOUS
      <3>2. PICK R : R = {}
        OBVIOUS
      <3>3. R \subseteq Hits[o] /\ leaf[o] = "searching" /\ leaf' = [leaf EXCEPT ![o] = "sent"]
            /\ channel' = channel \cup {<<o, R>>}
            /\ UNCHANGED <<registry, reputation, query, trusted, collected, merged, subDeadline, timer,
                           ctxDone, page>>
        BY <2>4, <3>1, <3>2 DEF LeafFails
      <3> QED
        BY <3>3, SendKeeps
    <2>5. ASSUME NEW p \in channel, Receive(p) PROVE FedInv'
      BY <2>5, FedReceiveKeeps
    <2>6. CASE Search
      BY <2>6, FedSearchKeeps
    <2>7. CASE SubDeadlineEnds \/ TimerFires \/ CallerCancels
      BY <2>7, ClockKeeps DEF SubDeadlineEnds, TimerFires, CallerCancels, FedInv, FedTypeOK
    <2>8. CASE GiveUp
      BY <2>8, GiveUpKeeps
    <2>9. CASE UNCHANGED fedVars
      <3>1. UNCHANGED <<registry, reputation, query, trusted, leaf, channel, collected, merged,
                        subDeadline, timer, ctxDone, page>>
        BY <2>9 DEF fedVars
      <3>2. DoneLeaves' = DoneLeaves /\ {q \in Operators : Trusted(q)'} = {q \in Operators : Trusted(q)}
        BY <3>1 DEF DoneLeaves, Trusted
      <3>3. GateInv'
        BY <3>1, <3>2 DEF FedInv, GateInv
      <3>4. FedTypeOK' /\ PartialInv' /\ CollectedInv' /\ PageInv' /\ BlankInv'
        BY <3>1, <3>2 DEF FedInv, FedTypeOK, PartialInv, CollectedInv, PageInv, BlankInv
      <3> QED
        BY <3>3, <3>4 DEF FedInv
    <2> QED
      BY <2>1, <2>2, <2>3, <2>4, <2>5, <2>6, <2>7, <2>8, <2>9 DEF FederationNext
  <1> QED
    BY <1>1, <1>2, PTL DEF FederationSpec

\* A federated page is the best of what the trusted partitions sent in time, and no
\* answer is left out unless the timer or the caller cut the wait short.
THEOREM FederatedPagesAreRight == FederationSpec => []FederatedPage
  <1>1. FedInv => FederatedPage
    BY PageIsFederated
  <1> QED
    BY <1>1, FederationCorrect, PTL

-----------------------------------------------------------------------------
(***************************************************************************)
(* Request metrics.                                                        *)
(***************************************************************************)

\* The series that are not overflow series.
OwnSeries == {k \in DOMAIN series : k.method # otherMethod}

OverflowKeys == {seriesKey(otherMethod, s) : s \in Statuses}

Hists == [count : Nat, errors : Nat, sum : Nat, counts : [1 .. Len(Bounds) + 1 -> Nat]]

MetricTypeOK ==
  /\ maxSeries \in Nat
  /\ IsFiniteSet(DOMAIN series)
  /\ \A k \in DOMAIN series : series[k] \in Hists
  /\ timers \in [Workers -> [method : Methods \cup {"none"}, elapsed : Nat]]

\* Of the slots, own series leave the reserve free; the others are overflow series.
SlotInv ==
  /\ \A k \in DOMAIN series : k.method = otherMethod => k \in OverflowKeys
  /\ OwnSeries = {} \/ Cardinality(OwnSeries) <= maxSeries - overflowReserve

\* Every request of a series that did not end well is an error, no other is.
ErrorInv ==
  \A k \in DOMAIN series : series[k].errors = IF k.status = "OK" THEN 0 ELSE series[k].count

MetricInv == MetricTypeOK /\ SlotInv /\ ErrorInv

\* A set grows by at most one.
LEMMA OneMore ==
  ASSUME NEW S, IsFiniteSet(S), NEW n \in Nat, Cardinality(S) <= n, NEW x
  PROVE  IsFiniteSet(S \cup {x}) /\ Cardinality(S \cup {x}) \in Nat /\ Cardinality(S \cup {x}) <= n + 1
  <1>1. IsFiniteSet(S \cup {x})
        /\ Cardinality(S \cup {x}) = IF x \in S THEN Cardinality(S) ELSE Cardinality(S) + 1
    BY FS_AddElement, Zenon
  <1>2. Cardinality(S) \in Nat
    BY FS_CardinalityType
  <1> QED
    BY <1>1, <1>2

\* There are four statuses, hence at most four overflow series.
LEMMA FourOverflowKeys == IsFiniteSet(OverflowKeys) /\ Cardinality(OverflowKeys) <= overflowReserve
  <1> DEFINE a == seriesKey(otherMethod, "OK")
             b == seriesKey(otherMethod, "deadline_exceeded")
             c == seriesKey(otherMethod, "canceled")
             d == seriesKey(otherMethod, "error")
  <1>1. Statuses = {"OK", "deadline_exceeded", "canceled", "error"}
    BY DEF Statuses, Errors, classify
  <1>2. OverflowKeys = {a, b, c, d}
    BY <1>1 DEF OverflowKeys
  <1> HIDE DEF a, b, c, d
  <1>3. PICK A : A = {a}
    OBVIOUS
  <1>4. IsFiniteSet(A) /\ Cardinality(A) <= 1
    <2>1. IsFiniteSet({a}) /\ Cardinality({a}) = 1
      BY FS_Singleton, Zenon
    <2> QED
      BY <1>3, <2>1
  <1>5. PICK B : B = A \cup {b} /\ IsFiniteSet(B) /\ Cardinality(B) <= 2
    <2>1. IsFiniteSet(A \cup {b}) /\ Cardinality(A \cup {b}) <= 1 + 1
      BY <1>4, 1 \in Nat, OneMore, Zenon
    <2> QED
      BY <2>1
  <1>6. PICK C : C = B \cup {c} /\ IsFiniteSet(C) /\ Cardinality(C) <= 3
    <2>1. IsFiniteSet(B \cup {c}) /\ Cardinality(B \cup {c}) <= 2 + 1
      BY <1>5, 2 \in Nat, OneMore, Zenon
    <2> QED
      BY <2>1
  <1>7. IsFiniteSet(C \cup {d}) /\ Cardinality(C \cup {d}) <= 4
    <2>1. IsFiniteSet(C \cup {d}) /\ Cardinality(C \cup {d}) <= 3 + 1
      BY <1>6, 3 \in Nat, OneMore, Zenon
    <2> QED
      BY <2>1
  <1>8. {a, b, c, d} = C \cup {d}
    BY <1>3, <1>5, <1>6
  <1> QED
    BY <1>2, <1>7, <1>8 DEF overflowReserve

\* What record makes of a histogram.
LEMMA RecordCounts ==
  ASSUME NEW h \in Hists, NEW ms \in Nat, NEW status
  PROVE  /\ record(h, ms, status) \in Hists
         /\ record(h, ms, status).count = h.count + 1
         /\ record(h, ms, status).errors = h.errors + (IF status = "OK" THEN 0 ELSE 1)
  <1> DEFINE b == bucketOf(ms)
             f == h.counts
             more == [f EXCEPT ![b] = f[b] + 1]
             D == 1 .. Len(Bounds) + 1
  <1>1. f \in [D -> Nat] /\ h.count \in Nat /\ h.errors \in Nat /\ h.sum \in Nat
    BY DEF Hists
  <1>2. record(h, ms, status) = [count |-> h.count + 1, errors |-> h.errors + (IF status = "OK" THEN 0 ELSE 1),
                                 sum |-> h.sum + ms, counts |-> more]
    <2>1. h = [count |-> h.count, errors |-> h.errors, sum |-> h.sum, counts |-> h.counts]
      BY DEF Hists
    <2> HIDE DEF b
    <2>2. record(h, ms, status)
            = [[[[h EXCEPT !.count = h.count + 1]
                    EXCEPT !.sum = h.sum + ms]
                    EXCEPT !.errors = h.errors + (IF status = "OK" THEN 0 ELSE 1)]
                    EXCEPT !.counts = more]
      BY <2>1 DEF record, b
    <2> HIDE DEF more
    <2> QED
      BY <2>1, <2>2
  <1> HIDE DEF b, f, D
  <1>3. more \in [D -> Nat]
    <2>1. \A i \in D : more[i] \in Nat
      BY <1>1
    <2>2. more = [i \in D |-> more[i]]
      BY <1>1
    <2> QED
      BY <2>1, <2>2
  <1> HIDE DEF more
  <1> QED
    BY <1>1, <1>2, <1>3 DEF Hists, D

\* Observe, whose key is key: the series it makes and the request it counts.
LEMMA ObserveKeeps ==
  ASSUME MetricInv, NEW method, NEW ms \in Nat, NEW err \in Errors, Observe(method, ms, err),
         maxSeries' = maxSeries, timers' \in [Workers -> [method : Methods \cup {"none"}, elapsed : Nat]]
  PROVE  MetricInv'
  <1> DEFINE status == classify(err)
             own == seriesKey(normalize(method), status)
             key == keyFor(method, status)
             h == IF key \in DOMAIN series THEN series[key] ELSE emptyHist
             D == DOMAIN series
  <1>1. series' = [k \in D \cup {key} |-> IF k = key THEN record(h, ms, status) ELSE series[k]]
    BY DEF Observe
  <1>2. status \in Statuses
    BY DEF Statuses
  <1>3. emptyHist \in Hists /\ emptyHist.count = 0 /\ emptyHist.errors = 0
    BY DEF emptyHist, Hists
  <1>4. MetricTypeOK /\ SlotInv /\ ErrorInv
    BY DEF MetricInv
  <1>5. h \in Hists
    BY <1>3, <1>4 DEF MetricTypeOK
  <1>6. key.status = status /\ (key.method = otherMethod => key \in OverflowKeys)
    BY <1>2 DEF keyFor, seriesKey, OverflowKeys
  <1>7. key.method # otherMethod => key \in D \/ Cardinality(D) < maxSeries - overflowReserve
    BY DEF keyFor, seriesKey
  <1>8. h.errors = IF status = "OK" THEN 0 ELSE h.count
    <2>1. CASE key \in D
      BY <2>1, <1>4, <1>6 DEF ErrorInv
    <2>2. CASE key \notin D
      BY <2>2, <1>3
    <2> QED
      BY <2>1, <2>2
  <1> HIDE DEF status, key, h
  <1>9. record(h, ms, status) \in Hists /\ record(h, ms, status).count = h.count + 1
        /\ record(h, ms, status).errors = h.errors + (IF status = "OK" THEN 0 ELSE 1)
    BY <1>5, RecordCounts
  <1>10. PICK r : r = record(h, ms, status)
    OBVIOUS
  <1>11. DOMAIN series' = D \cup {key} /\ series'[key] = r /\ \A k \in D : k # key => series'[k] = series[k]
    BY <1>1, <1>10
  <1>12. MetricTypeOK'
    <2>1. IsFiniteSet(DOMAIN series')
      BY <1>4, <1>11, FS_AddElement DEF MetricTypeOK
    <2>2. \A k \in DOMAIN series' : series'[k] \in Hists
      BY <1>4, <1>9, <1>10, <1>11 DEF MetricTypeOK
    <2> QED
      BY <1>4, <2>1, <2>2 DEF MetricTypeOK
  <1>13. ErrorInv'
    <2> SUFFICES ASSUME NEW k \in DOMAIN series'
                 PROVE  series'[k].errors = IF k.status = "OK" THEN 0 ELSE series'[k].count
      BY DEF ErrorInv
    <2>1. CASE k = key
      <3>1. r.count = h.count + 1 /\ r.errors = h.errors + (IF status = "OK" THEN 0 ELSE 1)
            /\ h.count \in Nat
        BY <1>5, <1>9, <1>10 DEF Hists
      <3> QED
        BY <2>1, <3>1, <1>6, <1>8, <1>11
    <2>2. CASE k # key
      BY <2>2, <1>4, <1>11 DEF ErrorInv
    <2> QED
      BY <2>1, <2>2
  <1>14. SlotInv'
    <2>1. \A k \in DOMAIN series' : k.method = otherMethod => k \in OverflowKeys
      BY <1>4, <1>6, <1>11 DEF SlotInv
    <2>2. OverflowKeys' = OverflowKeys
      BY DEF OverflowKeys
    <2>3. CASE key.method = otherMethod \/ key \in D
      <3>1. OwnSeries' = OwnSeries
        BY <2>3, <1>11 DEF OwnSeries
      <3> QED
        BY <2>1, <2>2, <3>1, <1>4 DEF SlotInv
    <2>4. CASE key.method # otherMethod /\ key \notin D
      <3>1. OwnSeries' = OwnSeries \cup {key}
        BY <2>4, <1>11 DEF OwnSeries
      <3>2. OwnSeries \in SUBSET D
        BY DEF OwnSeries
      <3>3. IsFiniteSet(OwnSeries) /\ Cardinality(OwnSeries) <= Cardinality(D)
        BY <3>2, <1>4, FS_Subset DEF MetricTypeOK
      <3>4. Cardinality(OwnSeries) \in Nat /\ Cardinality(D) \in Nat
        BY <3>3, <1>4, FS_CardinalityType DEF MetricTypeOK
      <3>5. Cardinality(OwnSeries') <= Cardinality(OwnSeries) + 1 /\ Cardinality(OwnSeries') \in Nat
        <4>1. Cardinality(OwnSeries) <= Cardinality(OwnSeries)
          BY <3>4
        <4> QED
          BY <3>1, <3>3, <3>4, <4>1, OneMore
      <3>6. Cardinality(D) < maxSeries - overflowReserve /\ maxSeries \in Nat
        BY <2>4, <1>4, <1>7 DEF MetricTypeOK
      <3>7. Cardinality(OwnSeries') <= maxSeries - overflowReserve
        BY <3>3, <3>4, <3>5, <3>6 DEF overflowReserve
      <3> QED
        BY <2>1, <2>2, <3>7 DEF SlotInv
    <2> QED
      BY <2>3, <2>4
  <1> QED
    BY <1>12, <1>13, <1>14 DEF MetricInv

\* A step that records nothing.
LEMMA NothingRecorded ==
  ASSUME MetricInv, UNCHANGED <<maxSeries, series>>,
         timers' \in [Workers -> [method : Methods \cup {"none"}, elapsed : Nat]]
  PROVE  MetricInv'
  BY DEF MetricInv, MetricTypeOK, SlotInv, ErrorInv, OwnSeries, OverflowKeys

\* The inductive invariant of the recorder.
THEOREM MetricCorrect == MetricSpec => []MetricInv
  <1>1. New => MetricInv
    <2> SUFFICES ASSUME New PROVE MetricInv
      OBVIOUS
    <2>1. DOMAIN series = {} /\ OwnSeries = {}
      BY DEF New, OwnSeries
    <2>2. timers \in [Workers -> [method : Methods \cup {"none"}, elapsed : Nat]]
      BY DEF New, NoTimer
    <2>3. maxSeries \in Nat
      BY MetricAssumption DEF New
    <2> QED
      BY <2>1, <2>2, <2>3, FS_EmptySet DEF MetricInv, MetricTypeOK, SlotInv, ErrorInv
  <1>2. MetricInv /\ [MetricNext]_metricVars => MetricInv'
    <2> SUFFICES ASSUME MetricInv, [MetricNext]_metricVars PROVE MetricInv'
      OBVIOUS
    <2>0. timers \in [Workers -> [method : Methods \cup {"none"}, elapsed : Nat]]
          /\ NoTimer \in [method : Methods \cup {"none"}, elapsed : Nat] /\ Tick \in Nat
      BY MetricAssumption DEF MetricInv, MetricTypeOK, NoTimer
    <2>1. ASSUME NEW w \in Workers, NEW m \in Methods, Start(w, m) PROVE MetricInv'
      <3>1. timers' \in [Workers -> [method : Methods \cup {"none"}, elapsed : Nat]]
            /\ UNCHANGED <<maxSeries, series>>
        BY <2>0, <2>1 DEF Start
      <3> QED
        BY <3>1, NothingRecorded
    <2>2. CASE TimePasses
      <3>1. ASSUME NEW w \in Workers
            PROVE  [timers[w] EXCEPT !.elapsed = @ + Tick] \in [method : Methods \cup {"none"}, elapsed : Nat]
        BY <2>0
      <3>2. timers' \in [Workers -> [method : Methods \cup {"none"}, elapsed : Nat]]
            /\ UNCHANGED <<maxSeries, series>>
        BY <2>0, <2>2, <3>1 DEF TimePasses
      <3> QED
        BY <3>2, NothingRecorded
    <2>3. ASSUME NEW w \in Workers, NEW e \in Errors, Done(w, e) PROVE MetricInv'
      <3>1. timers[w].elapsed \in Nat
        BY <2>0
      <3>2. timers' \in [Workers -> [method : Methods \cup {"none"}, elapsed : Nat]]
            /\ maxSeries' = maxSeries
        BY <2>0, <2>3 DEF Done
      <3>3. Observe(timers[w].method, timers[w].elapsed, e)
        BY <2>3 DEF Done
      <3> QED
        BY <3>1, <3>2, <3>3, ObserveKeeps
    <2>4. CASE UNCHANGED metricVars
      BY <2>0, <2>4, NothingRecorded DEF metricVars
    <2> QED
      BY <2>1, <2>2, <2>3, <2>4 DEF MetricNext
  <1> QED
    BY <1>1, <1>2, PTL DEF MetricSpec

\* The recorder never holds more series than its cap, or than the four overflow series
\* when the cap is smaller, whatever methods and outcomes arrive (keyFor, metric.go:150).
THEOREM SeriesStayBounded == MetricSpec => []SeriesBounded
  <1>1. MetricInv => SeriesBounded
    <2> SUFFICES ASSUME MetricInv PROVE SeriesBounded
      OBVIOUS
    <2> DEFINE D == DOMAIN series
               folded == D \ OwnSeries
    <2>1. maxSeries \in Nat /\ IsFiniteSet(D) /\ SlotInv
      BY DEF MetricInv, MetricTypeOK
    <2>2. OwnSeries \in SUBSET D /\ folded \in SUBSET D /\ D = OwnSeries \cup folded /\ OwnSeries \cap folded = {}
      BY DEF OwnSeries
    <2>3. IsFiniteSet(OwnSeries) /\ IsFiniteSet(folded)
      BY <2>1, <2>2, FS_Subset
    <2>4. folded \in SUBSET OverflowKeys
      BY <2>1 DEF SlotInv, OwnSeries
    <2>5. Cardinality(folded) <= 4 /\ Cardinality(folded) \in Nat
      <3>1. Cardinality(folded) <= Cardinality(OverflowKeys)
        BY <2>4, FourOverflowKeys, FS_Subset
      <3>2. Cardinality(folded) \in Nat /\ Cardinality(OverflowKeys) \in Nat
        BY <2>3, FourOverflowKeys, FS_CardinalityType
      <3> QED
        BY <3>1, <3>2, FourOverflowKeys DEF overflowReserve
    <2>6. Cardinality(OwnSeries) \in Nat /\ (Cardinality(OwnSeries) = 0 \/ Cardinality(OwnSeries) <= maxSeries - 4)
      BY <2>1, <2>3, FS_CardinalityType, FS_EmptySet DEF SlotInv, overflowReserve
    <2>7. Cardinality(D) = Cardinality(OwnSeries) + Cardinality(folded)
      <3> HIDE DEF folded
      <3>1. Cardinality(OwnSeries \cup folded) = Cardinality(OwnSeries) + Cardinality(folded) - Cardinality(OwnSeries \cap folded)
        BY <2>3, FS_Union
      <3>2. Cardinality(OwnSeries \cap folded) = 0
        BY <2>2, FS_EmptySet
      <3> QED
        BY <2>2, <2>5, <2>6, <3>1, <3>2
    <2>8. Max({maxSeries, 4}) = IF maxSeries >= 4 THEN maxSeries ELSE 4
      BY <2>1, MaxOfTwo
    <2> QED
      BY <2>1, <2>5, <2>6, <2>7, <2>8 DEF SeriesBounded, overflowReserve
  <1> QED
    BY <1>1, MetricCorrect, PTL

-----------------------------------------------------------------------------
(***************************************************************************)
(* The accounts of the recorder, whose sums are folds over sets.           *)
(***************************************************************************)

\* The requests of a set of series, as a fold and as a total.
LEMMA CountSum ==
  ASSUME NEW S, NEW f, \A x \in S : f[x] = series[x].count
  PROVE  MapThenSumSet(LAMBDA k : series[k].count, S) = Total(f, S)
  <1> DEFINE A(it) == [s \in SUBSET S |-> IF s = {} THEN 0
                         ELSE series[CHOOSE x \in s : TRUE].count + it[s \ {CHOOSE x \in s : TRUE}]]
             B(it) == [s \in SUBSET S |-> IF s = {} THEN 0
                         ELSE f[CHOOSE x \in s : TRUE] + it[s \ {CHOOSE x \in s : TRUE}]]
  <1>1. ASSUME NEW s \in SUBSET S, s # {}
        PROVE  f[CHOOSE x \in s : TRUE] = series[CHOOSE x \in s : TRUE].count
    <2>1. (CHOOSE x \in s : TRUE) \in s
      BY <1>1
    <2> QED
      BY <2>1
  <1>2. ASSUME NEW it PROVE A(it) = B(it)
    BY <1>1
  <1>3. (CHOOSE it : it = A(it)) = (CHOOSE it : it = B(it))
    <2> HIDE DEF A, B
    <2> QED
      BY <1>2, Zenon
  <1> QED
    BY <1>3, Zenon DEF Total, MapThenSumSet, MapThenFoldSet

\* The errors of a set of series.
LEMMA ErrorSum ==
  ASSUME NEW S, NEW f, \A x \in S : f[x] = series[x].errors
  PROVE  MapThenSumSet(LAMBDA k : series[k].errors, S) = Total(f, S)
  <1> DEFINE A(it) == [s \in SUBSET S |-> IF s = {} THEN 0
                         ELSE series[CHOOSE x \in s : TRUE].errors + it[s \ {CHOOSE x \in s : TRUE}]]
             B(it) == [s \in SUBSET S |-> IF s = {} THEN 0
                         ELSE f[CHOOSE x \in s : TRUE] + it[s \ {CHOOSE x \in s : TRUE}]]
  <1>1. ASSUME NEW s \in SUBSET S, s # {}
        PROVE  f[CHOOSE x \in s : TRUE] = series[CHOOSE x \in s : TRUE].errors
    <2>1. (CHOOSE x \in s : TRUE) \in s
      BY <1>1
    <2> QED
      BY <2>1
  <1>2. ASSUME NEW it PROVE A(it) = B(it)
    BY <1>1
  <1>3. (CHOOSE it : it = A(it)) = (CHOOSE it : it = B(it))
    <2> HIDE DEF A, B
    <2> QED
      BY <1>2, Zenon
  <1> QED
    BY <1>3, Zenon DEF Total, MapThenSumSet, MapThenFoldSet

-----------------------------------------------------------------------------
\* The sum grows by the duration, and one bucket by one.
LEMMA RecordPlaces ==
  ASSUME NEW h \in Hists, NEW ms \in Nat, NEW status, bucketOf(ms) \in 1 .. Len(Bounds) + 1
  PROVE  /\ record(h, ms, status).sum = h.sum + ms
         /\ record(h, ms, status).counts[bucketOf(ms)] = h.counts[bucketOf(ms)] + 1
         /\ \A y \in 1 .. Len(Bounds) + 1 : y # bucketOf(ms) => record(h, ms, status).counts[y] = h.counts[y]
  <1>1. PICK b : b = bucketOf(ms)
    OBVIOUS
  <1>2. PICK f : f = h.counts
    OBVIOUS
  <1>3. f \in [1 .. Len(Bounds) + 1 -> Nat]
    BY <1>2 DEF Hists
  <1>4. record(h, ms, status).sum = h.sum + ms /\ record(h, ms, status).counts = [f EXCEPT ![b] = f[b] + 1]
    BY <1>1, <1>2 DEF record, Hists
  <1> QED
    BY <1>1, <1>2, <1>3, <1>4

-----------------------------------------------------------------------------
\* The number of buckets, the last being the overflow bucket.
Buckets == Len(Bounds) + 1

\* There is a bound, and bounds ascend.
LEMMA BoundsAscend ==
  /\ Len(Bounds) \in Nat /\ Len(Bounds) >= 1 /\ Buckets \in Nat /\ Buckets = Len(Bounds) + 1
  /\ \A i \in 1 .. Len(Bounds) : Bounds[i] \in Nat
  /\ \A i, j \in 1 .. Len(Bounds) : i <= j => Bounds[i] <= Bounds[j]
  <1> DEFINE n == Len(Bounds)
  <1>1. n \in Nat /\ n >= 1 /\ \A i \in 1 .. n : Bounds[i] \in Nat
    BY MetricAssumption
  <1>2. \A i \in 1 .. n - 1 : Bounds[i] <= Bounds[i + 1]
    BY MetricAssumption
  <1> HIDE DEF n
  <1>3. ASSUME NEW i \in 1 .. n PROVE \A d \in Nat : i + d <= n => Bounds[i] <= Bounds[i + d]
    <2> DEFINE P == {d \in Nat : i + d <= n => Bounds[i] <= Bounds[i + d]}
    <2>1. 0 \in P
      BY <1>1
    <2>2. ASSUME NEW d \in Nat, d \in P PROVE d + 1 \in P
      <3> SUFFICES ASSUME i + (d + 1) <= n PROVE Bounds[i] <= Bounds[i + (d + 1)]
        OBVIOUS
      <3>1. i + d \in 1 .. n - 1 /\ i + d <= n /\ (i + d) + 1 = i + (d + 1)
            /\ i + (d + 1) \in 1 .. n /\ i + d \in 1 .. n
        BY <1>1
      <3>2. Bounds[i] <= Bounds[i + d]
        BY <2>2, <3>1
      <3>3. Bounds[i + d] <= Bounds[i + (d + 1)]
        BY <1>2, <3>1
      <3>4. Bounds[i] \in Nat /\ Bounds[i + d] \in Nat /\ Bounds[i + (d + 1)] \in Nat
        BY <1>1, <3>1
      <3> QED
        BY <3>2, <3>3, <3>4
    <2> HIDE DEF P
    <2>3. P \in SUBSET Nat
      BY DEF P
    <2>4. Nat \subseteq P
      BY <2>1, <2>2, <2>3, NumberInduction
    <2> QED
      BY <2>4 DEF P
  <1>4. ASSUME NEW i \in 1 .. n, NEW j \in 1 .. n, i <= j PROVE Bounds[i] <= Bounds[j]
    <2>1. j - i \in Nat /\ i + (j - i) = j /\ j <= n
      BY <1>1, <1>4
    <2> QED
      BY <1>3, <2>1
  <1> QED
    BY <1>1, <1>4 DEF n, Buckets

\* The bucket of a duration, which does not exceed its bound.
LEMMA BucketHolds ==
  ASSUME NEW ms \in Nat
  PROVE  /\ bucketOf(ms) \in 1 .. Buckets
         /\ bucketOf(ms) <= Len(Bounds) => ms <= Bounds[bucketOf(ms)]
  <1> DEFINE T == {i \in 1 .. Len(Bounds) : ms <= Bounds[i]} \cup {Len(Bounds) + 1}
  <1>1. T \in SUBSET Nat /\ T # {} /\ T \subseteq 1 .. Buckets
    BY BoundsAscend
  <1>2. \A i \in T : i <= Len(Bounds) => ms <= Bounds[i]
    BY BoundsAscend
  <1> HIDE DEF T
  <1>3. \E i \in T : \A j \in T : i <= j
    BY <1>1, LeastNumber
  <1>4. Min(T) \in T
    BY <1>3 DEF Min
  <1>5. bucketOf(ms) = Min(T)
    BY DEF bucketOf, T
  <1> QED
    BY <1>1, <1>2, <1>4, <1>5

\* The running counts of a histogram, as weights.
LEMMA CumulatedIsWeight ==
  ASSUME NEW h, h.counts \in [1 .. Buckets -> Nat]
  PROVE  /\ \A i \in 0 .. Buckets : cumulated(h)[i] \in Nat
         /\ cumulated(h)[0] = 0
         /\ \A i \in 1 .. Buckets : cumulated(h)[i] = cumulated(h)[i - 1] + h.counts[i]
         /\ cumulated(h)[Buckets] = Weight(h.counts, 1 .. Buckets)
  <1> DEFINE n == Buckets
             f == h.counts
             S == 1 .. n
             B(cum) == [i \in 0 .. n |-> IF i = 0 THEN 0 ELSE cum[i - 1] + f[i]]
             W == [i \in 0 .. n |-> Weight(f, 1 .. i)]
             c == CHOOSE cum : cum = B(cum)
  <1>1. n \in Nat /\ \A x \in S : f[x] \in Nat
    BY BoundsAscend
  <1>2. IsFiniteSet(S)
    BY <1>1, FS_Interval
  <1> HIDE DEF n, f
  <1>3. /\ Weight(f, {}) = 0
        /\ \A T \in SUBSET S : IsFiniteSet(Units(f, T)) /\ Weight(f, T) \in Nat
        /\ \A T \in SUBSET S : \A x \in S : x \notin T => Weight(f, T \cup {x}) = f[x] + Weight(f, T)
    <2> HIDE DEF S
    <2> QED
      BY <1>1, <1>2, WeightAdds
  <1>4. ASSUME NEW i \in 1 .. n PROVE Weight(f, 1 .. i) = Weight(f, 1 .. i - 1) + f[i] /\ Weight(f, 1 .. i) \in Nat
    <2>1. 1 .. i - 1 \in SUBSET S /\ i \in S /\ i \notin 1 .. i - 1 /\ 1 .. i = (1 .. i - 1) \cup {i} /\ 1 .. i \in SUBSET S
      BY <1>1
    <2>2. Weight(f, (1 .. i - 1) \cup {i}) = f[i] + Weight(f, 1 .. i - 1)
      BY <1>3, <2>1
    <2>3. Weight(f, 1 .. i - 1) \in Nat /\ f[i] \in Nat /\ Weight(f, 1 .. i) \in Nat
      BY <1>1, <1>3, <2>1
    <2>4. f[i] + Weight(f, 1 .. i - 1) = Weight(f, 1 .. i - 1) + f[i]
      BY <2>3
    <2>5. Weight(f, 1 .. i) = f[i] + Weight(f, 1 .. i - 1)
      BY <2>1, <2>2
    <2> QED
      BY <2>3, <2>4, <2>5
  <1>5. Weight(f, 1 .. 0) = 0
    <2>1. 1 .. 0 = {}
      OBVIOUS
    <2> QED
      BY <1>3, <2>1
  <1>6. W = B(W)
    <2>1. ASSUME NEW i \in 0 .. n PROVE W[i] = IF i = 0 THEN 0 ELSE W[i - 1] + f[i]
      <3>1. CASE i = 0
        BY <3>1, <1>5
      <3>2. CASE i # 0
        <4>1. i \in 1 .. n /\ i - 1 \in 0 .. n
          BY <1>1, <3>2
        <4> QED
          BY <1>4, <3>2, <4>1
      <3> QED
        BY <3>1, <3>2
    <2> QED
      BY <2>1
  <1>7. c = B(c)
    <2>1. PICK w : w = W
      OBVIOUS
    <2>2. w = B(w)
      BY <1>6, <2>1
    <2> HIDE DEF B
    <2> QED
      BY <2>2
  <1>8. cumulated(h) = c
    BY Zenon DEF cumulated, f, n, Buckets
  <1> HIDE DEF c
  <1>9. c[0] = 0 /\ \A i \in 1 .. n : c[i] = c[i - 1] + f[i]
    BY <1>1, <1>7
  <1> DEFINE P == {i \in Nat : i <= n => c[i] = Weight(f, 1 .. i)}
  <1>10. 0 \in P
    BY <1>5, <1>9
  <1>11. ASSUME NEW i \in Nat, i \in P PROVE i + 1 \in P
    <2> SUFFICES ASSUME i + 1 <= n PROVE c[i + 1] = Weight(f, 1 .. i + 1)
      OBVIOUS
    <2>1. i + 1 \in 1 .. n /\ (i + 1) - 1 = i /\ i <= n
      BY <1>1
    <2> QED
      BY <1>4, <1>9, <1>11, <2>1
  <1>12. Nat \subseteq P
    <2> HIDE DEF P
    <2>1. P \in SUBSET Nat
      BY DEF P
    <2> QED
      BY <1>10, <1>11, <2>1, NumberInduction
  <1>13. \A i \in 0 .. n : c[i] = Weight(f, 1 .. i)
    BY <1>1, <1>12
  <1>14. \A i \in 0 .. n : c[i] \in Nat
    <2> SUFFICES ASSUME NEW i \in 0 .. n PROVE c[i] \in Nat
      OBVIOUS
    <2>1. i = 0 \/ i \in 1 .. n
      BY <1>1
    <2> QED
      BY <2>1, <1>4, <1>9, <1>13
  <1> QED
    BY <1>1, <1>8, <1>9, <1>13, <1>14 DEF n, f

\* Products keep the order.
LEMMA ProductOrder ==
  ASSUME NEW a \in Nat, NEW b \in Nat, NEW c \in Nat, a <= b
  PROVE  a * c <= b * c /\ c * a <= c * b /\ a * c \in Nat /\ b * c \in Nat /\ a * c = c * a /\ b * c = c * b
  OBVIOUS

\* A value between L and U, r parts of d on the way, stays between them.
LEMMA Interpolates ==
  ASSUME NEW L \in Nat, NEW U \in Nat, L <= U, NEW d \in Nat, NEW r \in Nat, r <= d
  PROVE  /\ d * L + r * (U - L) \in Nat
         /\ L * d <= d * L + r * (U - L)
         /\ d * L + r * (U - L) <= U * d
  <1>1. PICK w \in Nat : w = U - L
    OBVIOUS
  <1>2. r * w <= d * w /\ r * w \in Nat /\ d * w \in Nat
    BY <1>1, ProductOrder
  <1>3. U = L + w
    BY <1>1
  <1>4. U * d = d * L + d * w
    BY <1>3
  <1>5. d * L \in Nat /\ L * d = d * L
    OBVIOUS
  <1> QED
    BY <1>1, <1>2, <1>4, <1>5

\* A fraction at most U below one at least L, when U is at most L.
LEMMA FractionsApart ==
  ASSUME NEW N \in Nat, NEW D \in Nat, NEW M \in Nat, NEW E \in Nat, NEW U \in Nat, NEW L \in Nat,
         N <= U * D, L * E <= M, U <= L
  PROVE  N * E <= M * D
  <1>1. N * E <= (U * D) * E
    BY ProductOrder
  <1>2. U * (D * E) <= L * (D * E)
    <2>1. PICK p \in Nat : p = D * E
      OBVIOUS
    <2> QED
      BY <2>1, ProductOrder
  <1>3. (L * E) * D <= M * D
    BY ProductOrder
  <1>4. (U * D) * E = U * (D * E) /\ (L * E) * D = L * (D * E)
    OBVIOUS
  <1>5. N * E \in Nat /\ U * (D * E) \in Nat /\ L * (D * E) \in Nat /\ M * D \in Nat
    OBVIOUS
  <1> QED
    BY <1>1, <1>2, <1>3, <1>4, <1>5

\* A histogram as record keeps them: every request is in one bucket.
Filled(h) == h \in Hists /\ cumulated(h)[Buckets] = h.count

\* What is known of the running counts of a histogram.
LEMMA RunningCounts ==
  ASSUME NEW h, Filled(h)
  PROVE  /\ h.count \in Nat /\ h.counts \in [1 .. Buckets -> Nat]
         /\ \A i \in 0 .. Buckets : cumulated(h)[i] \in Nat
         /\ \A i \in 1 .. Buckets : cumulated(h)[i] = cumulated(h)[i - 1] + h.counts[i]
         /\ \A i \in 0 .. Buckets : cumulated(h)[i] > 0 =>
              \E j \in 1 .. i : h.counts[j] > 0 /\ cumulated(h)[j] = cumulated(h)[i]
  <1>1. h.count \in Nat /\ h.counts \in [1 .. Buckets -> Nat]
    BY DEF Filled, Hists, Buckets
  <1>2. PICK c : c = cumulated(h)
    OBVIOUS
  <1>3. /\ \A i \in 0 .. Buckets : c[i] \in Nat
        /\ c[0] = 0
        /\ \A i \in 1 .. Buckets : c[i] = c[i - 1] + h.counts[i]
    BY <1>1, <1>2, CumulatedIsWeight
  <1>4. ASSUME NEW i \in 0 .. Buckets, c[i] > 0 PROVE \E j \in 1 .. i : h.counts[j] > 0 /\ c[j] = c[i]
    <2>0. Buckets \in Nat /\ i \in Nat
      BY BoundsAscend
    <2>1. PICK T : T = {j \in 0 .. i : c[j] = c[i]}
      OBVIOUS
    <2>2. T \in SUBSET Nat /\ T # {}
      BY <2>0, <2>1
    <2>3. PICK j \in T : \A k \in T : j <= k
      BY <2>2, LeastNumber
    <2>4. j \in 1 .. i /\ j \in 1 .. Buckets /\ j - 1 \in 0 .. i /\ j - 1 \in 0 .. Buckets /\ c[j] = c[i]
      BY <2>0, <2>1, <2>3, <1>3, <1>4
    <2>5. j - 1 \notin T
      <3>1. ~(j <= j - 1)
        BY <2>0, <2>4
      <3> QED
        BY <2>3, <3>1
    <2>6. c[j - 1] # c[i]
      BY <2>1, <2>4, <2>5
    <2>7. c[j] = c[j - 1] + h.counts[j] /\ c[j - 1] \in Nat /\ h.counts[j] \in Nat
      BY <1>1, <1>3, <2>4
    <2>8. h.counts[j] > 0
      BY <2>4, <2>6, <2>7
    <2> QED
      BY <2>4, <2>8
  <1> QED
    BY <1>1, <1>2, <1>3, <1>4

HitBuckets(h, q) == {i \in 1 .. Buckets : h.counts[i] > 0 /\ 100 * cumulated(h)[i] >= q * h.count}

LowerEdge(i) == IF i = 1 THEN 0 ELSE Bounds[i - 1]
UpperEdge(i) == IF i = Buckets THEN Bounds[Len(Bounds)] ELSE Bounds[i]

\* The q-quantile of h is read from bucket i, r parts into it.
ReadFrom(h, q, i, r) ==
  /\ \A k \in HitBuckets(h, q) : i <= k
  /\ r = q * h.count - 100 * cumulated(h)[i - 1] /\ r <= 100 * h.counts[i]
  /\ i = Buckets => Quantile(h, q) = <<Bounds[Len(Bounds)], 1>>
  /\ i # Buckets => Quantile(h, q) = <<100 * h.counts[i] * LowerEdge(i) + r * (UpperEdge(i) - LowerEdge(i)),
                                       100 * h.counts[i]>>

\* Which bucket a quantile is read from, and how far into it.
LEMMA QuantileForm ==
  ASSUME NEW h, Filled(h), h.count > 0, NEW q \in 0 .. 100
  PROVE  \E i \in HitBuckets(h, q) : \E r \in Nat : ReadFrom(h, q, i, r)
  <1> DEFINE H == HitBuckets(h, q)
             n == Len(Bounds)
  <1>1. PICK c : c = cumulated(h)
    OBVIOUS
  <1>2. /\ h.count \in Nat /\ h.counts \in [1 .. Buckets -> Nat]
        /\ \A i \in 0 .. Buckets : c[i] \in Nat
        /\ \A i \in 1 .. Buckets : c[i] = c[i - 1] + h.counts[i]
        /\ \A i \in 0 .. Buckets : c[i] > 0 => \E j \in 1 .. i : h.counts[j] > 0 /\ c[j] = c[i]
        /\ c[Buckets] = h.count
    BY <1>1, RunningCounts DEF Filled
  <1>3. Buckets \in Nat /\ n \in Nat /\ n >= 1 /\ Buckets = n + 1
    BY BoundsAscend
  <1>4. \A i : i \in H <=> i \in 1 .. Buckets /\ h.counts[i] > 0 /\ 100 * c[i] >= q * h.count
    BY <1>1 DEF HitBuckets
  <1>5. q \in Nat /\ q <= 100 /\ q * h.count \in Nat /\ q * h.count <= 100 * h.count
    <2>1. PICK m \in Nat : m = h.count
      BY <1>2
    <2>2. q \in Nat /\ q <= 100 /\ 100 \in Nat
      OBVIOUS
    <2>3. q * m <= 100 * m /\ q * m \in Nat
      BY <2>2, ProductOrder
    <2> QED
      BY <2>1, <2>2, <2>3
  <1>6. H # {}
    <2>1. PICK j \in 1 .. Buckets : h.counts[j] > 0 /\ c[j] = c[Buckets]
      BY <1>2, <1>3
    <2>2. 100 * c[j] >= q * h.count
      BY <1>2, <1>5, <2>1
    <2> QED
      BY <1>4, <2>1, <2>2
  <1> HIDE DEF H
  <1>7. H \in SUBSET Nat
    BY <1>3, <1>4
  <1>8. PICK i \in H : \A j \in H : i <= j
    BY <1>6, <1>7, LeastNumber
  <1>9. i = Min(H)
    <2>1. \A x \in H : (\A y \in H : x <= y) => x = i
      <3> SUFFICES ASSUME NEW x \in H, \A y \in H : x <= y PROVE x = i
        OBVIOUS
      <3>1. x <= i /\ i <= x /\ x \in Nat /\ i \in Nat
        BY <1>7, <1>8
      <3> QED
        BY <3>1
    <2> QED
      BY <1>8, <2>1, Zenon DEF Min
  <1>10. i \in 1 .. Buckets /\ h.counts[i] > 0 /\ 100 * c[i] >= q * h.count /\ i - 1 \in 0 .. Buckets
    BY <1>3, <1>4, <1>8
  <1>11. c[i] = c[i - 1] + h.counts[i] /\ c[i] \in Nat /\ c[i - 1] \in Nat /\ h.counts[i] \in Nat
    <2>1. i \in 0 .. Buckets
      BY <1>3, <1>10
    <2> QED
      BY <1>2, <1>10, <2>1
  <1>12. 100 * c[i - 1] <= q * h.count
    <2> SUFFICES ASSUME 100 * c[i - 1] > q * h.count PROVE FALSE
      BY <1>5, <1>11
    <2>1. c[i - 1] > 0
      BY <1>5, <1>11
    <2>2. PICK j \in 1 .. i - 1 : h.counts[j] > 0 /\ c[j] = c[i - 1]
      BY <1>2, <1>10, <2>1
    <2>3. j \in 1 .. Buckets /\ ~(i <= j)
      BY <1>3, <1>10, <2>2
    <2>4. 100 * c[j] >= q * h.count
      BY <1>5, <1>11, <2>2
    <2> QED
      BY <1>4, <1>8, <2>2, <2>3, <2>4
  <1>13. PICK r \in Nat : r = q * h.count - 100 * c[i - 1]
    BY <1>5, <1>11, <1>12
  <1>14. r <= 100 * h.counts[i]
    BY <1>5, <1>10, <1>11, <1>13
  <1>15. h.count # 0
    BY <1>2
  <1>16. i = Buckets => Quantile(h, q) = <<Bounds[n], 1>>
    <2> SUFFICES ASSUME i = Buckets PROVE Quantile(h, q) = <<Bounds[n], 1>>
      OBVIOUS
    <2>1. i > n /\ i # 1 /\ i - 1 = n
      BY <1>3
    <2>2. Quantile(h, q) = <<IF i = 1 THEN 0 ELSE Bounds[i - 1], 1>>
      BY <1>1, <1>6, <1>9, <1>15, <2>1 DEF Quantile, H, HitBuckets, Buckets
    <2> QED
      BY <2>1, <2>2
  <1>17. i # Buckets => Quantile(h, q) = <<100 * h.counts[i] * LowerEdge(i) + r * (UpperEdge(i) - LowerEdge(i)), 100 * h.counts[i]>>
    <2> SUFFICES ASSUME i # Buckets
                 PROVE  Quantile(h, q) = <<100 * h.counts[i] * LowerEdge(i) + r * (UpperEdge(i) - LowerEdge(i)), 100 * h.counts[i]>>
      OBVIOUS
    <2>1. ~(i > n)
      BY <1>3, <1>10
    <2>2. PICK lower : lower = LowerEdge(i)
      OBVIOUS
    <2>3. lower = IF i = 1 THEN 0 ELSE Bounds[i - 1]
      BY <2>2 DEF LowerEdge
    <2>4. UpperEdge(i) = Bounds[i]
      BY DEF UpperEdge
    <2>5. Quantile(h, q) = <<100 * h.counts[i] * lower + (q * h.count - 100 * c[i - 1]) * (Bounds[i] - lower), 100 * h.counts[i]>>
      BY <1>1, <1>6, <1>9, <1>15, <2>1, <2>3, Zenon DEF Quantile, H, HitBuckets, Buckets
    <2> QED
      BY <1>13, <2>2, <2>4, <2>5
  <1>18. ReadFrom(h, q, i, r)
    BY <1>1, <1>8, <1>13, <1>14, <1>16, <1>17 DEF H, ReadFrom
  <1> QED
    BY <1>8, <1>13, <1>18 DEF H

\* The edges of a bucket.
LEMMA EdgesAscend ==
  /\ \A i \in 1 .. Buckets : LowerEdge(i) \in Nat /\ UpperEdge(i) \in Nat /\ LowerEdge(i) <= UpperEdge(i)
                             /\ UpperEdge(i) <= Bounds[Len(Bounds)]
  /\ LowerEdge(Buckets) = Bounds[Len(Bounds)]
  /\ \A i, j \in 1 .. Buckets : i < j => UpperEdge(i) <= LowerEdge(j)
  <1> DEFINE n == Len(Bounds)
  <1>1. /\ n \in Nat /\ n >= 1 /\ Buckets = n + 1
        /\ \A i \in 1 .. n : Bounds[i] \in Nat
        /\ \A i, j \in 1 .. n : i <= j => Bounds[i] <= Bounds[j]
    BY BoundsAscend
  <1> HIDE DEF n
  <1>2. UpperEdge(Buckets) = Bounds[n] /\ LowerEdge(Buckets) = Bounds[n] /\ \A i \in 1 .. n : UpperEdge(i) = Bounds[i]
    BY <1>1 DEF UpperEdge, LowerEdge, n
  <1>3. LowerEdge(1) = 0 /\ \A i \in 2 .. Buckets : LowerEdge(i) = Bounds[i - 1] /\ i - 1 \in 1 .. n
    BY <1>1 DEF LowerEdge
  <1>4. ASSUME NEW i \in 1 .. Buckets
        PROVE  LowerEdge(i) \in Nat /\ UpperEdge(i) \in Nat /\ LowerEdge(i) <= UpperEdge(i) /\ UpperEdge(i) <= Bounds[n]
    <2>1. CASE i = Buckets
      BY <2>1, <1>1, <1>2
    <2>2. CASE i # Buckets
      <3>1. i \in 1 .. n /\ n \in 1 .. n /\ i <= n
        BY <2>2, <1>1
      <3>2. UpperEdge(i) = Bounds[i] /\ Bounds[i] \in Nat /\ Bounds[i] <= Bounds[n]
        BY <3>1, <1>1, <1>2
      <3>3. CASE i = 1
        BY <3>2, <3>3, <1>3
      <3>4. CASE i # 1
        <4>1. i \in 2 .. Buckets /\ i - 1 \in 1 .. n /\ i - 1 <= i
          BY <3>1, <3>4, <1>1
        <4>2. LowerEdge(i) = Bounds[i - 1] /\ Bounds[i - 1] \in Nat /\ Bounds[i - 1] <= Bounds[i]
          BY <4>1, <3>1, <1>1, <1>3
        <4> QED
          BY <4>2, <3>2
      <3> QED
        BY <3>3, <3>4
    <2> QED
      BY <2>1, <2>2
  <1>5. ASSUME NEW i \in 1 .. Buckets, NEW j \in 1 .. Buckets, i < j PROVE UpperEdge(i) <= LowerEdge(j)
    <2>1. i \in 1 .. n /\ j \in 2 .. Buckets /\ j - 1 \in 1 .. n /\ i <= j - 1
      BY <1>1, <1>5
    <2> QED
      BY <2>1, <1>1, <1>2, <1>3
  <1> QED
    BY <1>2, <1>4, <1>5 DEF n

\* A quantile lies between the edges of its bucket.
LEMMA QuantileBetween ==
  ASSUME NEW h, Filled(h), NEW q, NEW i \in 1 .. Buckets, NEW r \in Nat, ReadFrom(h, q, i, r)
  PROVE  /\ Quantile(h, q)[1] \in Nat /\ Quantile(h, q)[2] \in Nat
         /\ LowerEdge(i) * Quantile(h, q)[2] <= Quantile(h, q)[1]
         /\ Quantile(h, q)[1] <= UpperEdge(i) * Quantile(h, q)[2]
  <1>1. LowerEdge(i) \in Nat /\ UpperEdge(i) \in Nat /\ LowerEdge(i) <= UpperEdge(i)
        /\ LowerEdge(Buckets) = Bounds[Len(Bounds)]
    BY EdgesAscend
  <1>2. CASE i = Buckets
    <2>1. UpperEdge(i) = Bounds[Len(Bounds)] /\ LowerEdge(i) = Bounds[Len(Bounds)]
      BY <1>1, <1>2 DEF UpperEdge
    <2>2. Quantile(h, q)[1] = Bounds[Len(Bounds)] /\ Quantile(h, q)[2] = 1
      BY <1>2 DEF ReadFrom
    <2> QED
      BY <1>1, <2>1, <2>2
  <1>3. CASE i # Buckets
    <2>1. PICK L \in Nat, U \in Nat : L = LowerEdge(i) /\ U = UpperEdge(i) /\ L <= U
      BY <1>1
    <2>2. h.counts[i] \in Nat
      BY RunningCounts
    <2>3. PICK d \in Nat : d = 100 * h.counts[i] /\ r <= d
      BY <2>2 DEF ReadFrom
    <2>4. Quantile(h, q) = <<d * L + r * (U - L), d>>
      BY <1>3, <2>1, <2>3 DEF ReadFrom
    <2>5. d * L + r * (U - L) \in Nat /\ L * d <= d * L + r * (U - L) /\ d * L + r * (U - L) <= U * d
      BY <2>1, <2>3, Interpolates
    <2>6. Quantile(h, q)[1] = d * L + r * (U - L) /\ Quantile(h, q)[2] = d
      BY <2>4
    <2> QED
      BY <2>1, <2>3, <2>5, <2>6
  <1> QED
    BY <1>2, <1>3

\* A higher quantile is not estimated below a lower one, and none above the last bound.
LEMMA QuantileOrder ==
  ASSUME NEW h, Filled(h), NEW q \in 0 .. 100, NEW p \in 0 .. 100, q <= p
  PROVE  /\ Quantile(h, q)[1] * Quantile(h, p)[2] <= Quantile(h, p)[1] * Quantile(h, q)[2]
         /\ Quantile(h, p)[1] <= Bounds[Len(Bounds)] * Quantile(h, p)[2]
  <1>1. CASE h.count = 0
    <2>1. Quantile(h, q) = <<0, 1>> /\ Quantile(h, p) = <<0, 1>>
      BY <1>1 DEF Quantile
    <2>2. Bounds[Len(Bounds)] \in Nat
      BY EdgesAscend, BoundsAscend
    <2> QED
      BY <2>1, <2>2
  <1>2. CASE h.count # 0
    <2>1. h.count \in Nat /\ h.count > 0
      BY <1>2, RunningCounts
    <2>2. PICK i \in HitBuckets(h, q), r \in Nat : ReadFrom(h, q, i, r)
      BY <2>1, QuantileForm
    <2>3. PICK j \in HitBuckets(h, p), t \in Nat : ReadFrom(h, p, j, t)
      BY <2>1, QuantileForm
    <2>4. i \in 1 .. Buckets /\ h.counts[i] > 0 /\ j \in 1 .. Buckets /\ h.counts[j] > 0
      BY DEF HitBuckets
    <2>5. PICK N \in Nat, D \in Nat :
            /\ N = Quantile(h, q)[1] /\ D = Quantile(h, q)[2]
            /\ LowerEdge(i) * D <= N /\ N <= UpperEdge(i) * D
      BY <2>2, <2>4, QuantileBetween
    <2>6. PICK M \in Nat, E \in Nat :
            /\ M = Quantile(h, p)[1] /\ E = Quantile(h, p)[2]
            /\ LowerEdge(j) * E <= M /\ M <= UpperEdge(j) * E
      BY <2>3, <2>4, QuantileBetween
    <2>7. q * h.count <= p * h.count /\ q * h.count \in Nat /\ p * h.count \in Nat
      <3>1. q \in Nat /\ p \in Nat
        OBVIOUS
      <3> QED
        BY <2>1, <3>1, ProductOrder
    <2>8. i <= j
      <3>1. cumulated(h)[j] \in Nat
        BY <2>4, RunningCounts, BoundsAscend
      <3>2. 100 * cumulated(h)[j] >= p * h.count
        BY DEF HitBuckets
      <3>3. 100 * cumulated(h)[j] >= q * h.count
        BY <3>1, <3>2, <2>7
      <3>4. j \in HitBuckets(h, q)
        BY <2>4, <3>3 DEF HitBuckets
      <3> QED
        BY <2>2, <3>4 DEF ReadFrom
    <2>9. M <= Bounds[Len(Bounds)] * E
      <3>1. PICK U \in Nat, top \in Nat : U = UpperEdge(j) /\ top = Bounds[Len(Bounds)] /\ U <= top
        BY <2>4, EdgesAscend, BoundsAscend
      <3>2. U * E <= top * E /\ U * E \in Nat /\ top * E \in Nat
        BY <3>1, ProductOrder
      <3> QED
        BY <2>6, <3>1, <3>2
    <2>10. N * E <= M * D
      <3>1. CASE i < j
        <4>1. PICK U \in Nat, L \in Nat : U = UpperEdge(i) /\ L = LowerEdge(j) /\ U <= L
          BY <2>4, <3>1, EdgesAscend
        <4> QED
          BY <2>5, <2>6, <4>1, FractionsApart
      <3>2. CASE i = j /\ i = Buckets
        <4>1. N = M /\ D = E
          BY <2>2, <2>3, <2>5, <2>6, <3>2 DEF ReadFrom
        <4> QED
          BY <4>1
      <3>3. CASE i = j /\ i # Buckets
        <4>1. PICK L \in Nat, U \in Nat : L = LowerEdge(i) /\ U = UpperEdge(i) /\ L <= U
          BY <2>4, EdgesAscend
        <4>2. h.counts[i] \in Nat
          BY <2>4, RunningCounts
        <4>3. PICK d \in Nat : d = 100 * h.counts[i]
          BY <4>2
        <4>4. N = d * L + r * (U - L) /\ D = d /\ M = d * L + t * (U - L) /\ E = d
          <5>1. Quantile(h, q) = <<d * L + r * (U - L), d>> /\ Quantile(h, p) = <<d * L + t * (U - L), d>>
            BY <2>2, <2>3, <3>3, <4>1, <4>3 DEF ReadFrom
          <5>2. Quantile(h, q)[1] = d * L + r * (U - L) /\ Quantile(h, q)[2] = d
            BY <5>1
          <5>3. Quantile(h, p)[1] = d * L + t * (U - L) /\ Quantile(h, p)[2] = d
            BY <5>1
          <5> QED
            BY <2>5, <2>6, <5>2, <5>3
        <4>5. r <= t
          <5>1. cumulated(h)[i - 1] \in Nat
            <6>1. i - 1 \in 0 .. Buckets
              BY <2>4, BoundsAscend
            <6> QED
              BY <6>1, RunningCounts
          <5> QED
            BY <2>2, <2>3, <2>7, <3>3, <5>1 DEF ReadFrom
        <4>6. PICK w \in Nat : w = U - L
          BY <4>1
        <4>7. r * w <= t * w /\ r * w \in Nat /\ t * w \in Nat
          BY <4>5, ProductOrder
        <4>8. d * L \in Nat
          OBVIOUS
        <4>9. N <= M
          BY <4>4, <4>6, <4>7, <4>8
        <4>10. N * d <= M * d
          BY <4>9, ProductOrder
        <4> QED
          BY <4>4, <4>10
      <3>4. i \in Nat /\ j \in Nat
        BY <2>4
      <3> QED
        BY <2>8, <3>1, <3>2, <3>3, <3>4
    <2> QED
      BY <2>5, <2>6, <2>9, <2>10
  <1> QED
    BY <1>1, <1>2

\* A series that never overflowed has its mean within the last bound.
MeanBounded(h) == h.counts[Buckets] = 0 => h.sum <= Bounds[Len(Bounds)] * h.count

\* The first histogram of a series.
LEMMA EmptyFills == Filled(emptyHist) /\ MeanBounded(emptyHist) /\ emptyHist.count = 0
  <1>1. emptyHist \in Hists /\ emptyHist.count = 0 /\ emptyHist.sum = 0
    BY DEF emptyHist, Hists
  <1>2. emptyHist.counts \in [1 .. Buckets -> Nat] /\ \A i \in 1 .. Buckets : emptyHist.counts[i] = 0
    BY DEF emptyHist, Buckets
  <1>3. PICK f : f = emptyHist.counts
    OBVIOUS
  <1>4. Units(f, 1 .. Buckets) = {}
    BY <1>2, <1>3 DEF Units
  <1>5. Weight(f, 1 .. Buckets) = 0
    BY <1>4, FS_EmptySet DEF Weight
  <1>6. cumulated(emptyHist)[Buckets] = Weight(f, 1 .. Buckets)
    BY <1>2, <1>3, CumulatedIsWeight
  <1>7. Bounds[Len(Bounds)] \in Nat
    BY BoundsAscend
  <1> QED
    BY <1>1, <1>5, <1>6, <1>7 DEF Filled, MeanBounded

\* A recorded request is in one bucket, and in the overflow bucket when it took longer
\* than the last bound.
LEMMA RecordFills ==
  ASSUME NEW h, Filled(h), MeanBounded(h), NEW ms \in Nat, NEW status
  PROVE  Filled(record(h, ms, status)) /\ MeanBounded(record(h, ms, status))
  <1>1. PICK r : r = record(h, ms, status)
    OBVIOUS
  <1>2. PICK b : b = bucketOf(ms)
    OBVIOUS
  <1>3. h \in Hists /\ h.count \in Nat /\ h.sum \in Nat /\ h.counts \in [1 .. Buckets -> Nat]
    BY DEF Filled, Hists, Buckets
  <1>4. r \in Hists /\ r.count = h.count + 1
    <2>1. record(h, ms, status) \in Hists /\ record(h, ms, status).count = h.count + 1
      BY <1>3, RecordCounts
    <2> QED
      BY <1>1, <2>1
  <1>5. b \in 1 .. Buckets /\ (b <= Len(Bounds) => ms <= Bounds[b])
    BY <1>2, BucketHolds
  <1>6. PICK f : f = h.counts
    OBVIOUS
  <1>7. PICK g : g = r.counts
    OBVIOUS
  <1>8. r.sum = h.sum + ms /\ g[b] = f[b] + 1 /\ \A y \in 1 .. Buckets : y # b => g[y] = f[y]
    <2>1. bucketOf(ms) \in 1 .. Len(Bounds) + 1
      BY <1>2, <1>5 DEF Buckets
    <2>2. /\ record(h, ms, status).sum = h.sum + ms
          /\ record(h, ms, status).counts[bucketOf(ms)] = h.counts[bucketOf(ms)] + 1
          /\ \A y \in 1 .. Len(Bounds) + 1 : y # bucketOf(ms) => record(h, ms, status).counts[y] = h.counts[y]
      BY <1>3, <2>1, RecordPlaces
    <2> QED
      BY <1>1, <1>2, <1>6, <1>7, <2>2 DEF Buckets
  <1>9. Weight(g, 1 .. Buckets) = Weight(f, 1 .. Buckets) + 1
    <2>1. PICK S : S = 1 .. Buckets
      OBVIOUS
    <2>2. IsFiniteSet(S)
      BY <2>1, BoundsAscend, FS_Interval
    <2>3. b \in S /\ \A y \in S : f[y] \in Nat
      BY <1>3, <1>5, <1>6, <2>1
    <2>4. \A y \in S : y # b => g[y] = f[y]
      BY <1>8, <2>1
    <2>5. g[b] = (IF b \in S THEN f[b] ELSE 0) + 1
      BY <1>8, <2>3
    <2>6. Weight(g, S \cup {b}) = Weight(f, S) + 1
      BY <2>2, <2>3, <2>4, <2>5, WeightBump
    <2>7. S \cup {b} = S
      BY <2>3
    <2> QED
      BY <2>1, <2>6, <2>7
  <1>10. cumulated(r)[Buckets] = r.count
    <2>1. r.counts \in [1 .. Buckets -> Nat]
      BY <1>4 DEF Hists, Buckets
    <2>2. cumulated(r)[Buckets] = Weight(g, 1 .. Buckets) /\ cumulated(h)[Buckets] = Weight(f, 1 .. Buckets)
      BY <2>1, <1>3, <1>6, <1>7, CumulatedIsWeight
    <2>3. cumulated(h)[Buckets] = h.count
      BY DEF Filled
    <2> QED
      BY <1>4, <1>9, <2>2, <2>3
  <1>11. MeanBounded(r)
    <2> SUFFICES ASSUME r.counts[Buckets] = 0 PROVE r.sum <= Bounds[Len(Bounds)] * r.count
      BY DEF MeanBounded
    <2>1. PICK top \in Nat : top = Bounds[Len(Bounds)]
      BY BoundsAscend
    <2>2. Buckets \in 1 .. Buckets
      BY BoundsAscend
    <2>3. f[Buckets] \in Nat /\ f[b] \in Nat /\ g[Buckets] = 0
      BY <1>3, <1>5, <1>6, <1>7, <2>2
    <2>4. b # Buckets
      BY <1>8, <2>3
    <2>5. f[Buckets] = 0
      BY <1>8, <2>2, <2>3, <2>4
    <2>6. h.sum <= top * h.count
      BY <1>6, <2>1, <2>5 DEF MeanBounded
    <2>7. b \in 1 .. Len(Bounds) /\ b <= Len(Bounds) /\ Len(Bounds) \in 1 .. Len(Bounds)
      BY <1>5, <2>4, BoundsAscend
    <2>8. ms <= top
      <3>1. ms <= Bounds[b] /\ Bounds[b] <= top /\ Bounds[b] \in Nat
        BY <1>5, <2>1, <2>7, BoundsAscend
      <3> QED
        BY <3>1
    <2>9. PICK c \in Nat : c = h.count
      BY <1>3
    <2>10. top * (c + 1) = top * c + top /\ top * c \in Nat
      OBVIOUS
    <2>11. r.sum = h.sum + ms /\ r.count = c + 1 /\ h.sum <= top * c /\ h.sum \in Nat
      BY <1>3, <1>4, <1>8, <2>6, <2>9
    <2>12. r.sum <= top * (c + 1)
      <3>1. PICK x \in Nat, y \in Nat : x = h.sum /\ y = top * c
        BY <2>10, <2>11
      <3>2. r.sum = x + ms /\ x <= y /\ top * (c + 1) = y + top
        BY <2>10, <2>11, <3>1
      <3> QED
        BY <2>8, <3>2
    <2> QED
      BY <2>1, <2>11, <2>12
  <1> QED
    BY <1>1, <1>4, <1>10, <1>11 DEF Filled

-----------------------------------------------------------------------------
\* The requests a series holds, the series of a status, and the calls with a status.
Requests == [k \in DOMAIN series |-> series[k].count]
StatusSeries(s) == {k \in DOMAIN series : k.status = s}
Calls(s) == [m \in Methods |-> observed[<<m, s>>]]

\* What is recorded, and by whom, is known.
CallInv ==
  /\ observed \in [Methods \X Statuses -> Nat]
  /\ \A w \in Workers : timers[w] = NoTimer \/ timers[w].method \in Methods
  /\ \A k \in DOMAIN series : k.status \in Statuses /\ k = seriesKey(k.method, k.status)

\* Every histogram holds its requests, each in one bucket.
FilledInv == \A k \in DOMAIN series : Filled(series[k]) /\ MeanBounded(series[k])

\* Per status the series hold as many requests as were made.
TotalInv == \A s \in Statuses : Weight(Requests, StatusSeries(s)) = Weight(Calls(s), Methods)

\* While nothing was folded, an allowed method has its own requests.
OwnInv ==
  neverFolded => \A m \in Allowed, s \in Statuses :
    observed[<<m, s>>] = IF seriesKey(m, s) \in DOMAIN series THEN series[seriesKey(m, s)].count ELSE 0

AccountInv == CallInv /\ FilledInv /\ TotalInv /\ OwnInv

\* A recorded request is counted where it was made and where it is kept.
LEMMA ObserveAccounts ==
  ASSUME MetricInv, AccountInv, NEW method \in Methods, NEW ms \in Nat, NEW err \in Errors,
         Observe(method, ms, err), maxSeries' = maxSeries,
         \A w \in Workers : timers'[w] = NoTimer \/ timers'[w].method \in Methods
  PROVE  AccountInv'
  <1> DEFINE status == classify(err)
             own == seriesKey(normalize(method), status)
             key == keyFor(method, status)
             h == IF key \in DOMAIN series THEN series[key] ELSE emptyHist
             D == DOMAIN series
  <1>1. series' = [k \in D \cup {key} |-> IF k = key THEN record(h, ms, status) ELSE series[k]]
        /\ observed' = [observed EXCEPT ![<<method, status>>] = observed[<<method, status>>] + 1]
    BY DEF Observe
  <1>2. status \in Statuses
    BY DEF Statuses
  <1>3. key.status = status /\ key = seriesKey(key.method, key.status)
    BY DEF keyFor, seriesKey
  <1>4. CallInv /\ FilledInv /\ TotalInv /\ OwnInv
    BY DEF AccountInv
  <1>5. Filled(h) /\ MeanBounded(h)
    BY <1>4, EmptyFills DEF FilledInv
  <1>6. h.count = IF key \in D THEN series[key].count ELSE 0
    BY EmptyFills
  <1>7. Cardinality(D) < maxSeries - overflowReserve => key = own
    BY DEF keyFor
  <1> HIDE DEF status, key, h
  <1>8. PICK r : r = record(h, ms, status)
    OBVIOUS
  <1>9. Filled(r) /\ MeanBounded(r) /\ r.count = h.count + 1
    <2>1. h \in Hists
      BY <1>5 DEF Filled
    <2>2. Filled(record(h, ms, status)) /\ MeanBounded(record(h, ms, status))
      BY <1>5, RecordFills
    <2>3. record(h, ms, status).count = h.count + 1
      BY <2>1, RecordCounts
    <2> QED
      BY <1>8, <2>2, <2>3
  <1>10. DOMAIN series' = D \cup {key} /\ series'[key] = r /\ \A k \in D : k # key => series'[k] = series[k]
    BY <1>1, <1>8
  <1>11. IsFiniteSet(D) /\ \A k \in D : series[k].count \in Nat
    BY DEF MetricInv, MetricTypeOK, Hists
  <1>12. observed \in [Methods \X Statuses -> Nat]
    BY <1>4 DEF CallInv
  <1>13. /\ observed' \in [Methods \X Statuses -> Nat]
         /\ observed'[<<method, status>>] = observed[<<method, status>>] + 1
         /\ \A m \in Methods, s \in Statuses : m # method \/ s # status => observed'[<<m, s>>] = observed[<<m, s>>]
    <2>1. <<method, status>> \in Methods \X Statuses
      BY <1>2
    <2>2. \A m \in Methods, s \in Statuses : m # method \/ s # status => <<m, s>> # <<method, status>>
      OBVIOUS
    <2> QED
      BY <1>1, <1>12, <2>1, <2>2
  <1>14. CallInv'
    BY <1>2, <1>3, <1>4, <1>10, <1>13 DEF CallInv
  <1>15. FilledInv'
    BY <1>4, <1>9, <1>10 DEF FilledInv
  <1>16. TotalInv'
    <2> SUFFICES ASSUME NEW s \in Statuses
                 PROVE  Weight(Requests', StatusSeries(s)') = Weight(Calls(s)', Methods)
      BY DEF TotalInv
    <2>1. Weight(Requests, StatusSeries(s)) = Weight(Calls(s), Methods)
      BY <1>4 DEF TotalInv
    <2>2. PICK f, S : f = Requests /\ S = StatusSeries(s)
      OBVIOUS
    <2>3. PICK f2, S2 : f2 = Requests' /\ S2 = StatusSeries(s)'
      OBVIOUS
    <2>4. PICK g, g2 : g = Calls(s) /\ g2 = Calls(s)'
      OBVIOUS
    <2>5. \A m \in Methods : g[m] = observed[<<m, s>>] /\ g2[m] = observed'[<<m, s>>] /\ g[m] \in Nat
      BY <1>12, <2>4 DEF Calls
    <2>6. S \subseteq D /\ IsFiniteSet(S) /\ \A k \in S : f[k] = series[k].count /\ f[k] \in Nat
      <3>1. S \subseteq D
        BY <2>2 DEF StatusSeries
      <3>2. IsFiniteSet(S)
        BY <1>11, <3>1, FS_Subset
      <3> QED
        BY <1>11, <2>2, <3>1, <3>2 DEF Requests
    <2>7. \A k \in DOMAIN series' : f2[k] = series'[k].count
      BY <2>3 DEF Requests
    <2>8. CASE s # status
      <3>1. S2 = S
        BY <1>3, <1>10, <2>2, <2>3, <2>8 DEF StatusSeries
      <3>2. \A k \in S : f[k] = f2[k]
        <4> SUFFICES ASSUME NEW k \in S PROVE f[k] = f2[k]
          OBVIOUS
        <4>1. k \in D /\ k.status = s
          BY <2>2 DEF StatusSeries
        <4>2. k # key
          BY <1>3, <2>8, <4>1
        <4> QED
          BY <1>10, <2>6, <2>7, <4>1, <4>2
      <3>3. \A m \in Methods : g[m] = g2[m]
        BY <1>13, <2>5, <2>8
      <3>4. Weight(f, S) = Weight(f2, S) /\ Weight(g, Methods) = Weight(g2, Methods)
        BY <3>2, <3>3, SameWeight
      <3> QED
        BY <2>1, <2>2, <2>3, <2>4, <3>1, <3>4
    <2>9. CASE s = status
      <3>1. S2 = S \cup {key}
        BY <1>3, <1>10, <2>2, <2>3, <2>9 DEF StatusSeries
      <3>2. \A k \in S : k # key => f2[k] = f[k]
        BY <1>10, <2>6, <2>7
      <3>3. key \in S <=> key \in D
        BY <1>3, <2>2, <2>9 DEF StatusSeries
      <3>4. f2[key] = (IF key \in S THEN f[key] ELSE 0) + 1
        BY <1>6, <1>9, <1>10, <2>6, <2>7, <3>3
      <3>5. Weight(f2, S \cup {key}) = Weight(f, S) + 1
        BY <2>6, <3>2, <3>4, WeightBump
      <3>6. \A m \in Methods : m # method => g2[m] = g[m]
        BY <1>13, <2>5, <2>9
      <3>7. g2[method] = (IF method \in Methods THEN g[method] ELSE 0) + 1
        BY <1>13, <2>5, <2>9
      <3>8. Weight(g2, Methods \cup {method}) = Weight(g, Methods) + 1
        <4>1. IsFiniteSet(Methods) /\ \A m \in Methods : g[m] \in Nat
          BY <2>5, MetricAssumption
        <4> QED
          BY <3>6, <3>7, <4>1, WeightBump
      <3>9. Methods \cup {method} = Methods
        OBVIOUS
      <3> QED
        BY <2>1, <2>2, <2>3, <2>4, <3>1, <3>5, <3>8, <3>9
    <2> QED
      BY <2>8, <2>9
  <1>17. OwnInv'
    <2> SUFFICES ASSUME neverFolded', NEW m \in Allowed, NEW s \in Statuses
                 PROVE  observed'[<<m, s>>] = IF seriesKey(m, s) \in DOMAIN series'
                                              THEN series'[seriesKey(m, s)].count ELSE 0
      BY DEF OwnInv
    <2>1. Cardinality(D) < maxSeries - overflowReserve
      <3>1. D \in SUBSET (DOMAIN series') /\ IsFiniteSet(DOMAIN series')
        BY <1>10, <1>11, FS_AddElement
      <3>2. Cardinality(D) <= Cardinality(DOMAIN series')
        BY <3>1, FS_Subset
      <3>3. Cardinality(D) \in Nat /\ Cardinality(DOMAIN series') \in Nat /\ maxSeries \in Nat
        BY <1>11, <3>1, FS_CardinalityType DEF MetricInv, MetricTypeOK
      <3>4. Cardinality(DOMAIN series') < maxSeries - overflowReserve
        BY DEF neverFolded
      <3> QED
        BY <3>2, <3>3, <3>4 DEF overflowReserve
    <2>2. key = own
      BY <1>7, <2>1
    <2>3. observed[<<m, s>>] = IF seriesKey(m, s) \in D THEN series[seriesKey(m, s)].count ELSE 0
      BY <1>4, <2>1 DEF OwnInv, neverFolded
    <2>4. m \in Methods /\ m # otherMethod /\ normalize(m) = m
      BY MetricAssumption DEF otherMethod, normalize
    <2>5. CASE m = method /\ s = status
      <3>1. seriesKey(m, s) = key
        BY <2>2, <2>4, <2>5
      <3> QED
        BY <1>6, <1>9, <1>10, <1>13, <2>3, <2>5, <3>1
    <2>6. CASE m # method \/ s # status
      <3>1. normalize(method) # m \/ s # status
        BY <2>4, <2>6 DEF normalize
      <3>2. seriesKey(m, s) # own
        BY <3>1 DEF seriesKey
      <3>3. observed'[<<m, s>>] = observed[<<m, s>>]
        BY <1>13, <2>4, <2>6
      <3> QED
        BY <1>10, <2>2, <2>3, <3>2, <3>3
    <2> QED
      BY <2>5, <2>6
  <1> QED
    BY <1>14, <1>15, <1>16, <1>17 DEF AccountInv

\* A step that records nothing leaves the accounts as they are.
LEMMA NothingAccounted ==
  ASSUME AccountInv, UNCHANGED <<maxSeries, series, observed>>,
         \A w \in Workers : timers'[w] = NoTimer \/ timers'[w].method \in Methods
  PROVE  AccountInv'
  <1>1. CallInv'
    BY DEF AccountInv, CallInv
  <1>2. FilledInv'
    BY DEF AccountInv, FilledInv
  <1>3. Requests' = Requests /\ \A s : StatusSeries(s)' = StatusSeries(s) /\ Calls(s)' = Calls(s)
    BY DEF Requests, StatusSeries, Calls
  <1>4. TotalInv'
    BY <1>3 DEF AccountInv, TotalInv
  <1>5. OwnInv'
    BY DEF AccountInv, OwnInv, neverFolded
  <1> QED
    BY <1>1, <1>2, <1>4, <1>5 DEF AccountInv

\* There are finitely many statuses.
LEMMA StatusesFinite == IsFiniteSet(Statuses) /\ IsFiniteSet(Statuses \ {"OK"})
  <1>1. Statuses = (({"OK"} \cup {"deadline_exceeded"}) \cup {"canceled"}) \cup {"error"}
    BY DEF Statuses, Errors, classify
  <1>2. IsFiniteSet({"OK"})
    BY FS_Singleton, Zenon
  <1>3. IsFiniteSet({"OK"} \cup {"deadline_exceeded"})
    BY <1>2, FS_AddElement, Zenon
  <1>4. IsFiniteSet(({"OK"} \cup {"deadline_exceeded"}) \cup {"canceled"})
    BY <1>3, FS_AddElement, Zenon
  <1>5. IsFiniteSet((({"OK"} \cup {"deadline_exceeded"}) \cup {"canceled"}) \cup {"error"})
    BY <1>4, FS_AddElement, Zenon
  <1>6. IsFiniteSet(Statuses)
    BY <1>1, <1>5
  <1> QED
    BY <1>6, FS_Subset

\* The fold over the series of a status is the fold over the calls with that status.
LEMMA StatusTotals ==
  ASSUME MetricInv, AccountInv, NEW s \in Statuses
  PROVE  MapThenSumSet(LAMBDA k : series[k].count, {k \in DOMAIN series : k.status = s})
           = MapThenSumSet(LAMBDA m : observed[<<m, s>>], Methods)
  <1>1. PICK f, S : f = Requests /\ S = {k \in DOMAIN series : k.status = s}
    OBVIOUS
  <1>2. PICK g : g = Calls(s)
    OBVIOUS
  <1>3. IsFiniteSet(DOMAIN series) /\ \A k \in DOMAIN series : series[k].count \in Nat
    BY DEF MetricInv, MetricTypeOK, Hists
  <1>4. IsFiniteSet(S) /\ \A k \in S : f[k] = series[k].count /\ f[k] \in Nat
    <2>1. S \in SUBSET (DOMAIN series)
      BY <1>1
    <2>2. IsFiniteSet(S)
      BY <1>3, <2>1, FS_Subset
    <2> QED
      BY <1>1, <1>3, <2>1, <2>2 DEF Requests
  <1>5. IsFiniteSet(Methods) /\ \A m \in Methods : g[m] = observed[<<m, s>>] /\ g[m] \in Nat
    BY <1>2, MetricAssumption DEF AccountInv, CallInv, Calls
  <1>6. MapThenSumSet(LAMBDA k : series[k].count, S) = Total(f, S)
    BY <1>4, CountSum
  <1>7. ASSUME NEW R, NEW v, \A x \in R : v[x] = observed[<<x, s>>]
        PROVE  MapThenSumSet(LAMBDA m : observed[<<m, s>>], R) = Total(v, R)
    <2> DEFINE A(it) == [z \in SUBSET R |-> IF z = {} THEN 0
                           ELSE observed[<<CHOOSE x \in z : TRUE, s>>] + it[z \ {CHOOSE x \in z : TRUE}]]
               B(it) == [z \in SUBSET R |-> IF z = {} THEN 0
                           ELSE v[CHOOSE x \in z : TRUE] + it[z \ {CHOOSE x \in z : TRUE}]]
    <2>1. ASSUME NEW z \in SUBSET R, z # {}
          PROVE  v[CHOOSE x \in z : TRUE] = observed[<<CHOOSE x \in z : TRUE, s>>]
      <3>1. (CHOOSE x \in z : TRUE) \in z
        BY <2>1
      <3> QED
        BY <1>7, <3>1
    <2>2. ASSUME NEW it PROVE A(it) = B(it)
      BY <2>1
    <2>3. (CHOOSE it : it = A(it)) = (CHOOSE it : it = B(it))
      <3> HIDE DEF A, B
      <3> QED
        BY <2>2, Zenon
    <2> QED
      BY <2>3, Zenon DEF Total, MapThenSumSet, MapThenFoldSet
  <1>8. Total(f, S) = Weight(f, S) /\ Total(g, Methods) = Weight(g, Methods)
    BY <1>4, <1>5, TotalIsWeight
  <1>9. Weight(f, S) = Weight(g, Methods)
    BY <1>1, <1>2 DEF AccountInv, TotalInv, StatusSeries
  <1> QED
    BY <1>1, <1>5, <1>6, <1>7, <1>8, <1>9

\* While nothing was folded, the values of a method's series add up over its statuses.
LEMMA MethodTotals ==
  ASSUME MetricInv, AccountInv, neverFolded, NEW m \in Allowed,
         NEW T \in SUBSET Statuses, NEW f,
         \A k \in DOMAIN series : f[k] = IF k.status \in T THEN series[k].count ELSE 0,
         NEW g, \A s \in T : g[s] = observed[<<m, s>>]
  PROVE  /\ \A k \in seriesOf(m) : f[k] \in Nat
         /\ IsFiniteSet(seriesOf(m)) /\ \A s \in T : g[s] \in Nat
         /\ Weight(f, seriesOf(m)) = Weight(g, T)
  <1>1. PICK K : K = seriesOf(m)
    OBVIOUS
  <1>2. PICK L : L = {k \in K : k.status \in T}
    OBVIOUS
  <1>3. m \in Methods /\ normalize(m) = m
    BY MetricAssumption DEF normalize
  <1>4. \A k : k \in K <=> k \in DOMAIN series /\ k.method = m
    BY <1>1, <1>3 DEF seriesOf
  <1>5. IsFiniteSet(DOMAIN series) /\ \A k \in DOMAIN series : series[k].count \in Nat
    BY DEF MetricInv, MetricTypeOK, Hists
  <1>6. IsFiniteSet(K) /\ IsFiniteSet(L)
    <2>1. K \in SUBSET (DOMAIN series) /\ L \in SUBSET (DOMAIN series)
      BY <1>2, <1>4
    <2> QED
      BY <1>5, <2>1, FS_Subset
  <1>7. \A k \in K : k.status \in Statuses /\ k = seriesKey(m, k.status)
    BY <1>4 DEF AccountInv, CallInv
  <1>8. \A k \in L : k \in K /\ k.status \in T /\ f[k] = series[k].count /\ f[k] \in Nat
    BY <1>2, <1>4, <1>5
  <1>9. \A s \in T : s \in Statuses /\ g[s] = observed[<<m, s>>] /\ g[s] \in Nat
    BY <1>3 DEF AccountInv, CallInv
  <1>10. \A s \in Statuses :
           observed[<<m, s>>] = IF seriesKey(m, s) \in DOMAIN series THEN series[seriesKey(m, s)].count ELSE 0
    BY DEF AccountInv, OwnInv
  <1>11. Weight(g, T) = Weight(f, L)
    <2>1. PICK b : b = [k \in L |-> k.status]
      OBVIOUS
    <2>2. b \in [L -> T]
      BY <1>8, <2>1
    <2>3. \A x, y \in L : b[x] = b[y] => x = y
      <3> SUFFICES ASSUME NEW x \in L, NEW y \in L, b[x] = b[y] PROVE x = y
        OBVIOUS
      <3>1. x.status = y.status
        BY <2>1
      <3>2. x = seriesKey(m, x.status) /\ y = seriesKey(m, y.status)
        BY <1>7, <1>8
      <3> QED
        BY <3>1, <3>2
    <2>4. \A x \in L : g[b[x]] = f[x]
      <3> SUFFICES ASSUME NEW x \in L PROVE g[b[x]] = f[x]
        OBVIOUS
      <3>1. PICK s : s = x.status
        OBVIOUS
      <3>2. b[x] = s /\ s \in T /\ x = seriesKey(m, s) /\ x \in DOMAIN series
        BY <1>4, <1>7, <1>8, <2>1, <3>1
      <3> QED
        BY <1>8, <1>9, <1>10, <3>2
    <2>5. \A s \in T : (\A x \in L : b[x] # s) => g[s] = 0
      <3> SUFFICES ASSUME NEW s \in T, \A x \in L : b[x] # s PROVE g[s] = 0
        OBVIOUS
      <3>1. seriesKey(m, s).method = m /\ seriesKey(m, s).status = s
        BY DEF seriesKey
      <3>2. seriesKey(m, s) \notin L
        BY <2>1, <3>1
      <3>3. seriesKey(m, s) \notin DOMAIN series
        BY <1>2, <1>4, <3>1, <3>2
      <3> QED
        BY <1>9, <1>10, <3>3
    <2> QED
      BY <1>6, <1>8, <2>2, <2>3, <2>4, <2>5, WeightCarries
  <1>12. \A k \in K : f[k] \in Nat
    BY <1>4, <1>5
  <1>13. Weight(f, K) = Weight(f, L)
    <2>1. Units(f, K) = Units(f, L)
      <3>1. ASSUME NEW p \in Units(f, K) PROVE p \in Units(f, L)
        <4>1. PICK k \in K, i \in Nat : p = <<k, i>> /\ 1 <= i /\ i <= f[k]
          BY DEF Units
        <4>2. k.status \in T
          BY <1>4, <4>1
        <4> QED
          BY <1>2, <4>1, <4>2 DEF Units
      <3>2. ASSUME NEW p \in Units(f, L) PROVE p \in Units(f, K)
        BY <1>8 DEF Units
      <3> QED
        BY <3>1, <3>2
    <2> QED
      BY <2>1 DEF Weight
  <1> QED
    BY <1>1, <1>6, <1>9, <1>11, <1>12, <1>13

\* While nothing was folded, the error rate of an allowed method counts its own requests.
LEMMA ErrorRateIsOwn ==
  ASSUME MetricInv, AccountInv, neverFolded, NEW m \in Allowed
  PROVE  ErrorRate(m) = <<MapThenSumSet(LAMBDA s : observed[<<m, s>>], Statuses \ {"OK"}),
                          MapThenSumSet(LAMBDA s : observed[<<m, s>>], Statuses)>>
  <1>1. PICK e : e = [k \in DOMAIN series |-> series[k].errors]
    OBVIOUS
  <1>2. PICK f : f = [k \in DOMAIN series |-> series[k].count]
    OBVIOUS
  <1>3. PICK g : g = [s \in Statuses |-> observed[<<m, s>>]]
    OBVIOUS
  <1>4. PICK T : T = Statuses \ {"OK"}
    OBVIOUS
  <1>5. T \in SUBSET Statuses /\ Statuses \in SUBSET Statuses /\ IsFiniteSet(T) /\ IsFiniteSet(Statuses)
    BY <1>4, StatusesFinite
  <1>6. PICK K : K = seriesOf(m)
    OBVIOUS
  <1>7. \A k \in DOMAIN series : k.status \in Statuses
    BY DEF AccountInv, CallInv
  <1>8. \A k \in DOMAIN series : e[k] = IF k.status \in T THEN series[k].count ELSE 0
    BY <1>1, <1>4, <1>7 DEF MetricInv, ErrorInv
  <1>9. \A k \in DOMAIN series : f[k] = IF k.status \in Statuses THEN series[k].count ELSE 0
    BY <1>2, <1>7
  <1>10. (\A s \in T : g[s] = observed[<<m, s>>]) /\ (\A s \in Statuses : g[s] = observed[<<m, s>>])
    BY <1>3, <1>5
  <1>11. /\ \A k \in K : e[k] \in Nat
         /\ IsFiniteSet(K) /\ \A s \in T : g[s] \in Nat
         /\ Weight(e, K) = Weight(g, T)
    <2>1. /\ \A k \in seriesOf(m) : e[k] \in Nat
          /\ IsFiniteSet(seriesOf(m)) /\ \A s \in T : g[s] \in Nat
          /\ Weight(e, seriesOf(m)) = Weight(g, T)
      BY <1>5, <1>8, <1>10, MethodTotals
    <2> QED
      BY <1>6, <2>1
  <1>12. /\ \A k \in K : f[k] \in Nat
         /\ \A s \in Statuses : g[s] \in Nat
         /\ Weight(f, K) = Weight(g, Statuses)
    <2>1. /\ \A k \in seriesOf(m) : f[k] \in Nat
          /\ IsFiniteSet(seriesOf(m)) /\ \A s \in Statuses : g[s] \in Nat
          /\ Weight(f, seriesOf(m)) = Weight(g, Statuses)
      BY <1>5, <1>9, <1>10, MethodTotals
    <2> QED
      BY <1>6, <2>1
  <1>13. \A k \in K : e[k] = series[k].errors /\ f[k] = series[k].count
    BY <1>1, <1>2, <1>6 DEF seriesOf
  <1>14. MapThenSumSet(LAMBDA k : series[k].errors, K) = Total(e, K)
    BY <1>13, ErrorSum
  <1>15. MapThenSumSet(LAMBDA k : series[k].count, K) = Total(f, K)
    BY <1>13, CountSum
  <1>16. ASSUME NEW R, NEW v, \A x \in R : v[x] = observed[<<m, x>>]
        PROVE  MapThenSumSet(LAMBDA s : observed[<<m, s>>], R) = Total(v, R)
    <2> DEFINE A(it) == [z \in SUBSET R |-> IF z = {} THEN 0
                           ELSE observed[<<m, CHOOSE x \in z : TRUE>>] + it[z \ {CHOOSE x \in z : TRUE}]]
               B(it) == [z \in SUBSET R |-> IF z = {} THEN 0
                           ELSE v[CHOOSE x \in z : TRUE] + it[z \ {CHOOSE x \in z : TRUE}]]
    <2>1. ASSUME NEW z \in SUBSET R, z # {}
          PROVE  v[CHOOSE x \in z : TRUE] = observed[<<m, CHOOSE x \in z : TRUE>>]
      <3>1. (CHOOSE x \in z : TRUE) \in z
        BY <2>1
      <3> QED
        BY <1>16, <3>1
    <2>2. ASSUME NEW it PROVE A(it) = B(it)
      BY <2>1
    <2>3. (CHOOSE it : it = A(it)) = (CHOOSE it : it = B(it))
      <3> HIDE DEF A, B
      <3> QED
        BY <2>2, Zenon
    <2> QED
      BY <2>3, Zenon DEF Total, MapThenSumSet, MapThenFoldSet
  <1>17. MapThenSumSet(LAMBDA s : observed[<<m, s>>], T) = Total(g, T)
         /\ MapThenSumSet(LAMBDA s : observed[<<m, s>>], Statuses) = Total(g, Statuses)
    BY <1>10, <1>16
  <1>18. Total(e, K) = Total(g, T) /\ Total(f, K) = Total(g, Statuses)
    BY <1>5, <1>11, <1>12, TotalIsWeight
  <1>19. ErrorRate(m) = <<MapThenSumSet(LAMBDA k : series[k].errors, K), MapThenSumSet(LAMBDA k : series[k].count, K)>>
    BY <1>6 DEF ErrorRate
  <1> QED
    BY <1>4, <1>14, <1>15, <1>17, <1>18, <1>19

\* The estimates read from the buckets are in order.
LEMMA EstimatesOrdered ==
  ASSUME AccountInv
  PROVE  QuantilesOrdered
  <1> DEFINE top == Bounds[Len(Bounds)]
             atMost(x, y) == x[1] * y[2] <= y[1] * x[2]
  <1>1. top \in Nat
    BY BoundsAscend
  <1>2. ASSUME NEW k \in DOMAIN series
        PROVE  /\ \A qs \in {<<0, 50>>, <<50, 99>>, <<99, 100>>} :
                    atMost(Quantile(series[k], qs[1]), Quantile(series[k], qs[2]))
               /\ atMost(Quantile(series[k], 100), <<top, 1>>)
               /\ series[k].counts[Len(Bounds) + 1] = 0 => atMost(Mean(series[k]), <<top, 1>>)
    <2>1. PICK h : h = series[k]
      OBVIOUS
    <2>2. Filled(h) /\ MeanBounded(h)
      BY <2>1 DEF AccountInv, FilledInv
    <2>3. ASSUME NEW q \in 0 .. 100, NEW p \in 0 .. 100, q <= p
          PROVE  /\ atMost(Quantile(h, q), Quantile(h, p))
                 /\ Quantile(h, p)[1] <= top * Quantile(h, p)[2]
      BY <2>2, <2>3, QuantileOrder
    <2>4. atMost(Quantile(h, 0), Quantile(h, 50)) /\ atMost(Quantile(h, 50), Quantile(h, 99))
          /\ atMost(Quantile(h, 99), Quantile(h, 100))
      <3>1. 0 \in 0 .. 100 /\ 50 \in 0 .. 100 /\ 99 \in 0 .. 100 /\ 100 \in 0 .. 100 /\ 0 <= 50 /\ 50 <= 99 /\ 99 <= 100
        OBVIOUS
      <3> HIDE DEF atMost
      <3>2. atMost(Quantile(h, 0), Quantile(h, 50))
        BY <2>3, <3>1
      <3>3. atMost(Quantile(h, 50), Quantile(h, 99))
        BY <2>3, <3>1
      <3>4. atMost(Quantile(h, 99), Quantile(h, 100))
        BY <2>3, <3>1
      <3> QED
        BY <3>2, <3>3, <3>4
    <2>5. Quantile(h, 100)[1] <= top * Quantile(h, 100)[2] /\ Quantile(h, 100)[1] \in Nat
      <3>1. Quantile(h, 100)[1] <= top * Quantile(h, 100)[2]
        <4>1. 100 \in 0 .. 100 /\ 100 <= 100
          OBVIOUS
        <4> HIDE DEF atMost
        <4> QED
          BY <2>3, <4>1
      <3>2. Quantile(h, 100)[1] \in Nat
        <4>1. CASE h.count = 0
          BY <4>1 DEF Quantile
        <4>2. CASE h.count # 0
          <5>1. h.count > 0
            BY <2>2, <4>2, RunningCounts
          <5>2. PICK i \in HitBuckets(h, 100), r \in Nat : ReadFrom(h, 100, i, r)
            BY <2>2, <5>1, QuantileForm
          <5>3. i \in 1 .. Buckets
            BY DEF HitBuckets
          <5> QED
            BY <2>2, <5>2, <5>3, QuantileBetween
        <4> QED
          BY <4>1, <4>2
      <3> QED
        BY <3>1, <3>2
    <2>6. atMost(Quantile(h, 100), <<top, 1>>)
      BY <1>1, <2>5
    <2>7. ASSUME h.counts[Len(Bounds) + 1] = 0 PROVE atMost(Mean(h), <<top, 1>>)
      <3>1. h.sum <= top * h.count /\ h.sum \in Nat /\ h.count \in Nat
        BY <2>2, <2>7 DEF MeanBounded, Filled, Buckets, Hists
      <3>2. CASE h.count = 0
        BY <1>1, <3>2 DEF Mean
      <3>3. CASE h.count # 0
        <4>1. Mean(h)[1] = h.sum /\ Mean(h)[2] = h.count
          BY <3>3 DEF Mean
        <4> QED
          BY <1>1, <3>1, <4>1
      <3> QED
        BY <3>2, <3>3
    <2>8. \A qs \in {<<0, 50>>, <<50, 99>>, <<99, 100>>} : atMost(Quantile(h, qs[1]), Quantile(h, qs[2]))
      <3> SUFFICES ASSUME NEW qs \in {<<0, 50>>, <<50, 99>>, <<99, 100>>}
                   PROVE  atMost(Quantile(h, qs[1]), Quantile(h, qs[2]))
        OBVIOUS
      <3>1. \/ qs[1] = 0 /\ qs[2] = 50
            \/ qs[1] = 50 /\ qs[2] = 99
            \/ qs[1] = 99 /\ qs[2] = 100
        OBVIOUS
      <3> HIDE DEF atMost
      <3> QED
        BY <2>4, <3>1
    <2> HIDE DEF atMost
    <2> QED
      BY <2>1, <2>6, <2>7, <2>8
  <1>3. ASSUME NEW h \in {s.hist : s \in Snapshot} PROVE \E k \in DOMAIN series : h = series[k]
    BY DEF Snapshot
  <1> SUFFICES ASSUME NEW h \in {s.hist : s \in Snapshot}
               PROVE  /\ \A qs \in {<<0, 50>>, <<50, 99>>, <<99, 100>>} :
                           atMost(Quantile(h, qs[1]), Quantile(h, qs[2]))
                      /\ atMost(Quantile(h, 100), <<top, 1>>)
                      /\ h.counts[Len(Bounds) + 1] = 0 => atMost(Mean(h), <<top, 1>>)
    BY Zenon DEF QuantilesOrdered
  <1>4. PICK k \in DOMAIN series : h = series[k]
    BY <1>3
  <1> HIDE DEF atMost, top
  <1> QED
    BY <1>2, <1>4, Zenon

\* What the run checks of the recorder follows.
LEMMA AccountsAgree ==
  ASSUME MetricInv, AccountInv, SeriesBounded
  PROVE  RequestsAccounted
  <1>1. \A s \in Statuses :
          MapThenSumSet(LAMBDA k : series[k].count, {k \in DOMAIN series : k.status = s})
            = MapThenSumSet(LAMBDA m : observed[<<m, s>>], Methods)
    BY StatusTotals
  <1>2. \A k \in DOMAIN series :
          /\ cumulated(series[k])[Len(Bounds) + 1] = series[k].count
          /\ series[k].errors = IF k.status = "OK" THEN 0 ELSE series[k].count
    BY DEF AccountInv, FilledInv, Filled, Buckets, MetricInv, ErrorInv
  <1>3. neverFolded => \A m \in Allowed :
          ErrorRate(m) = <<MapThenSumSet(LAMBDA s : observed[<<m, s>>], Statuses \ {"OK"}),
                           MapThenSumSet(LAMBDA s : observed[<<m, s>>], Statuses)>>
    BY ErrorRateIsOwn
  <1>4. QuantilesOrdered
    BY EstimatesOrdered
  <1> QED
    BY <1>1, <1>2, <1>3, <1>4 DEF RequestsAccounted

\* The accounts are kept by every step.
THEOREM AccountsKept == MetricSpec => []AccountInv
  <1>1. New => AccountInv
    <2> SUFFICES ASSUME New PROVE AccountInv
      OBVIOUS
    <2>1. DOMAIN series = {} /\ observed = [k \in Methods \X Statuses |-> 0] /\ \A w \in Workers : timers[w] = NoTimer
      BY DEF New
    <2>2. observed \in [Methods \X Statuses -> Nat] /\ \A m \in Methods, s \in Statuses : observed[<<m, s>>] = 0
      BY <2>1
    <2>3. CallInv /\ FilledInv
      BY <2>1, <2>2 DEF CallInv, FilledInv
    <2>4. OwnInv
      BY <2>1, <2>2, MetricAssumption DEF OwnInv
    <2>5. TotalInv
      <3> SUFFICES ASSUME NEW s \in Statuses PROVE Weight(Requests, StatusSeries(s)) = Weight(Calls(s), Methods)
        BY DEF TotalInv
      <3>1. Units(Requests, StatusSeries(s)) = {}
        BY <2>1 DEF Units, StatusSeries
      <3>2. PICK g : g = Calls(s)
        OBVIOUS
      <3>3. \A m \in Methods : g[m] = 0
        BY <2>2, <3>2 DEF Calls
      <3>4. Units(g, Methods) = {}
        BY <3>3 DEF Units
      <3> QED
        BY <3>1, <3>2, <3>4 DEF Weight
    <2> QED
      BY <2>3, <2>4, <2>5 DEF AccountInv
  <1>2. MetricInv /\ AccountInv /\ [MetricNext]_metricVars => AccountInv'
    <2> SUFFICES ASSUME MetricInv, AccountInv, [MetricNext]_metricVars PROVE AccountInv'
      OBVIOUS
    <2>0. /\ timers \in [Workers -> [method : Methods \cup {"none"}, elapsed : Nat]]
          /\ \A w \in Workers : timers[w] = NoTimer \/ timers[w].method \in Methods
      BY DEF MetricInv, MetricTypeOK, AccountInv, CallInv
    <2>1. ASSUME NEW w \in Workers, NEW m \in Methods, Start(w, m) PROVE AccountInv'
      <3>1. (\A v \in Workers : timers'[v] = NoTimer \/ timers'[v].method \in Methods)
            /\ UNCHANGED <<maxSeries, series, observed>>
        BY <2>0, <2>1 DEF Start
      <3> QED
        BY <3>1, NothingAccounted
    <2>2. CASE TimePasses
      <3>1. ASSUME NEW v \in Workers PROVE [timers[v] EXCEPT !.elapsed = @ + Tick].method = timers[v].method
        BY <2>0
      <3>2. (\A v \in Workers : timers'[v] = NoTimer \/ timers'[v].method \in Methods)
            /\ UNCHANGED <<maxSeries, series, observed>>
        BY <2>0, <2>2, <3>1 DEF TimePasses
      <3> QED
        BY <3>2, NothingAccounted
    <2>3. ASSUME NEW w \in Workers, NEW e \in Errors, Done(w, e) PROVE AccountInv'
      <3>1. timers[w].elapsed \in Nat /\ timers[w].method \in Methods
        BY <2>0, <2>3 DEF Done
      <3>2. (\A v \in Workers : timers'[v] = NoTimer \/ timers'[v].method \in Methods) /\ maxSeries' = maxSeries
        BY <2>0, <2>3 DEF Done
      <3>3. Observe(timers[w].method, timers[w].elapsed, e)
        BY <2>3 DEF Done
      <3> QED
        BY <3>1, <3>2, <3>3, ObserveAccounts
    <2>4. CASE UNCHANGED metricVars
      BY <2>0, <2>4, NothingAccounted DEF metricVars
    <2> QED
      BY <2>1, <2>2, <2>3, <2>4 DEF MetricNext
  <1> QED
    BY <1>1, <1>2, MetricCorrect, PTL DEF MetricSpec

\* Folding moves a request to another series and never loses one; the error rate counts
\* a method's own requests while nothing was folded; and the estimates read from the
\* buckets are in order (Observe, keyFor, ErrorRate, Quantile, metric.go:124, 150, 242, 268).
THEOREM RequestsStayAccounted == MetricSpec => []RequestsAccounted
  <1>1. MetricInv /\ AccountInv /\ SeriesBounded => RequestsAccounted
    BY AccountsAgree
  <1> QED
    BY <1>1, MetricCorrect, AccountsKept, SeriesStayBounded, PTL
=============================================================================
