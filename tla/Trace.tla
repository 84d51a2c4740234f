-------------------------------- MODULE Trace --------------------------------
(***************************************************************************)
(* The tracer and recorder of telemetry/trace: spans begun in several      *)
(* processes, stitched together by the span context a call carries in its  *)
(* metadata (Inject, Extract), and kept or dropped one by one as they end. *)
(*                                                                         *)
(* Every process has a tracer of its own whose ids come from one atomic    *)
(* counter; StartTrace draws two of them, in two steps.  All tracers offer *)
(* to the same recorder, the collector.  Names and attributes of spans are *)
(* left out, a duration is the one bit the keep rule looks at.             *)
(***************************************************************************)
EXTENDS Integers, Sequences, FiniteSets

CONSTANTS
    Procs,    \* the processes, each with its tracer
    MaxSpans, \* bound: spans begun in all
    MaxCalls  \* bound: calls made in all

ASSUME TraceAssumption == MaxSpans \in Nat /\ MaxCalls \in Nat

VARIABLES
    seq,      \* Tracer.seq of each process
    drawn,    \* roots that have their trace id and not yet their span id
    open,     \* the spans in flight
    ended,    \* history: the spans that have ended
    kept,     \* Recorder.spans
    wire,     \* the calls on their way, with their carriers
    calls     \* history: the calls made

traceVars == <<seq, drawn, open, ended, kept, wire, calls>>

-----------------------------------------------------------------------------
SpanContext(trace, span, sampled) ==
    [trace |-> trace, span |-> span, sampled |-> sampled]

Valid(sc) == sc.trace # 0 /\ sc.span # 0

(* What a Sampler may decide about a trace id: never, always, or by a hash *)
(* of the id.                                                              *)
Sample(id) == BOOLEAN

(* The zero SpanContext, which a context without a span yields. *)
NoContext == SpanContext(0, 0, FALSE)

(* Inject writes the three headers: two numbers and the formatted bit.  On *)
(* the way a header may get lost (Damage); an id that is absent, malformed *)
(* or zero is 0, a sampling bit that does not parse is "bad".              *)
FormatBool(b) == IF b THEN "true" ELSE "false"

Inject(sc) == [trace |-> sc.trace, span |-> sc.span, sampled |-> FormatBool(sc.sampled)]

(* A slip: a receiver decides about sampling by itself. *)
ExtractResampled(carrier) ==
    IF carrier.trace = 0 \/ carrier.span = 0 THEN NoContext
    ELSE SpanContext(carrier.trace, carrier.span, FALSE)

(* Extract: a trace or span id that does not parse, or is zero, makes the  *)
(* context absent; a sampling bit that does not parse reads as not sampled.*)
Extract(carrier) ==
    IF carrier.trace = 0 \/ carrier.span = 0 THEN NoContext
    ELSE SpanContext(carrier.trace, carrier.span, carrier.sampled = "true")

(* The keep rule, asked of one span as it ends. *)
offered(s, slow) == s.sc.sampled \/ s.errored \/ slow

-----------------------------------------------------------------------------
NewTracers ==
    /\ seq = [p \in Procs |-> 0]
    /\ drawn = {} /\ open = {} /\ ended = {} /\ kept = <<>>
    /\ wire = {} /\ calls = 0

begun == Cardinality(open) + Cardinality(ended) + Cardinality(drawn)

(* A span in flight.  The last two fields are history: the root it belongs *)
(* to, named by its process and span id, and the decision made there, or   *)
(* "lost" once a damaged sampling bit was read on the way.                 *)
Span(p, sc, parent, root, head) ==
    [proc |-> p, sc |-> sc, parent |-> parent, root |-> root, head |-> head,
     errored |-> FALSE]

begin(p, sc, parent, root, head) ==
    open' = open \cup {Span(p, sc, parent, root, head)}

(* StartTrace, first half: the trace id. *)
DrawTraceID(p) ==
    /\ begun < MaxSpans
    /\ seq' = [seq EXCEPT ![p] = @ + 1]
    /\ drawn' = drawn \cup {[proc |-> p, trace |-> seq[p] + 1]}
    /\ UNCHANGED <<open, ended, kept, wire, calls>>

(* Second half: the span id, and the sampler's decision, which is any.     *)
StartTrace(d) ==
    LET id == seq[d.proc] + 1
    IN  /\ seq' = [seq EXCEPT ![d.proc] = id]
        /\ drawn' = drawn \ {d}
        /\ \E sampled \in Sample(d.trace) :
             begin(d.proc, SpanContext(d.trace, id, sampled), 0, <<d.proc, id>>, FormatBool(sampled))
        /\ UNCHANGED <<ended, kept, wire, calls>>

(* StartSpan under a valid parent: its trace, its decision. *)
StartSpan(p, parent, root, head) ==
    LET id == seq[p] + 1
    IN  /\ seq' = [seq EXCEPT ![p] = id]
        /\ begin(p, SpanContext(parent.trace, id, parent.sampled), parent.span, root, head)
        /\ UNCHANGED <<drawn, ended, kept, calls>>

StartChild(s) ==
    /\ begun < MaxSpans
    /\ StartSpan(s.proc, s.sc, s.root, s.head)
    /\ UNCHANGED wire

Call(s, q) ==
    /\ calls < MaxCalls
    /\ q # s.proc
    /\ calls' = calls + 1
    /\ wire' = wire \cup {[call |-> calls, to |-> q, carrier |-> Inject(s.sc),
                           root |-> s.root, head |-> s.head]}
    /\ UNCHANGED <<seq, drawn, open, ended, kept>>

(* The metadata loses a header on the way. *)
Damage(m) ==
    /\ m.head # "lost" /\ Valid(m.carrier)
    /\ \E bad \in {[m EXCEPT !.carrier.trace = 0], [m EXCEPT !.carrier.span = 0],
                   [m EXCEPT !.carrier.sampled = "bad", !.head = "lost"]} :
         wire' = (wire \ {m}) \cup {bad}
    /\ UNCHANGED <<seq, drawn, open, ended, kept, calls>>

(* The server reads the carrier and starts its span: under the caller's    *)
(* when there is one, else it begins a trace of its own.                   *)
Serve(m) ==
    LET sc == Extract(m.carrier)
    IN  /\ begun < MaxSpans
        /\ wire' = wire \ {m}
        /\ \/ /\ Valid(sc)
              /\ StartSpan(m.to, sc, m.root, m.head)
           \/ /\ ~Valid(sc)
              /\ seq' = [seq EXCEPT ![m.to] = @ + 1]
              /\ drawn' = drawn \cup {[proc |-> m.to, trace |-> seq[m.to] + 1]}
              /\ UNCHANGED <<open, ended, kept, calls>>

(* End: the span leaves, with or without an error, slow or not, and is     *)
(* kept if the rule says so.                                               *)
End(s) ==
    \E errored \in BOOLEAN, slow \in BOOLEAN :
        LET done == [s EXCEPT !.errored = errored]
        IN  /\ open' = open \ {s}
            /\ ended' = ended \cup {done}
            /\ kept' = IF offered(done, slow) THEN Append(kept, done) ELSE kept
            /\ UNCHANGED <<seq, drawn, wire, calls>>

TraceNext ==
    \/ \E p \in Procs : DrawTraceID(p)
    \/ \E d \in drawn : StartTrace(d)
    \/ \E s \in open : StartChild(s) \/ End(s) \/ \E q \in Procs : Call(s, q)
    \/ \E m \in wire : Damage(m) \/ Serve(m)

TraceSpec == NewTracers /\ [][TraceNext]_traceVars

-----------------------------------------------------------------------------
keptSet == {kept[i] : i \in DOMAIN kept}

(* Trace(id): what a debugger reads back for one trace id. *)
TraceOf(id) == {s \in keptSet : s.sc.trace = id}

(* SampledTraceWhole: a span that ends in a head-sampled trace is kept,    *)
(* in whichever process it ran and in whatever order the spans ended,      *)
(* unless a call lost the sampling bit; and the tree can be put together   *)
(* again: under one trace id every span but the root finds its parent      *)
(* among the spans begun for the same root (offer, StartSpan and Extract,  *)
(* trace.go:231 and 135, propagate.go:42).                                 *)
SampledTraceWhole ==
    \A s \in ended : s.head = "true" =>
        /\ s \in TraceOf(s.sc.trace)
        /\ \/ s.parent = 0 /\ s.root = <<s.proc, s.sc.span>>
           \/ \E t \in open \cup ended :
                /\ t # s /\ t.root = s.root
                /\ t.sc.span = s.parent /\ t.sc.trace = s.sc.trace
=============================================================================
