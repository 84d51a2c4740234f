------------------------------- MODULE Metric -------------------------------
(***************************************************************************)
(* The Rate-Errors-Duration recorder of telemetry/metric and the Timer of  *)
(* telemetry/telemetry.go that feeds it.                                   *)
(*                                                                         *)
(* A series is a (method, status) pair.  Observe runs under the recorder's *)
(* mutex and is one step; the life of a Timer (Start, time passing, Done)  *)
(* is several.  Durations are whole milliseconds, so that the histogram    *)
(* and its quantiles are exact integers; a quantile is a percentage and    *)
(* its value is kept as a fraction <<numerator, denominator>>.             *)
(***************************************************************************)
EXTENDS Integers, Sequences, FiniteSets, FiniteSetsExt, SequencesExt

CONSTANTS
    Methods,       \* the method names callers use
    Allowed,       \* the allowlist given to New
    Bounds,        \* the ascending bucket bounds, in milliseconds
    MaxSeriesArgs, \* the caps a recorder may be built with
    Workers,       \* the goroutines that time an operation
    Tick,          \* by how many milliseconds the clock advances
    MaxElapsed,    \* bound: how long an operation is timed
    MaxObserved    \* bound: operations recorded

ASSUME MetricAssumption ==
    /\ IsFiniteSet(Methods) /\ Allowed \subseteq Methods
    /\ "_OTHER" \notin Allowed \* the label of folded requests is no method
    /\ Bounds \in Seq(Nat) /\ Bounds # <<>>
    /\ \A i \in 1 .. Len(Bounds) - 1 : Bounds[i] <= Bounds[i + 1]
    /\ MaxSeriesArgs \subseteq Nat \ {0}
    /\ Tick \in Nat \ {0} /\ MaxElapsed \in Nat /\ MaxObserved \in Nat

VARIABLES
    maxSeries, \* RED.maxSeries, fixed by New
    series,    \* RED.series: a partial function from keys to histograms
    timers,    \* the operation each worker is timing, or NoTimer
    observed   \* history: calls of Observe per (method, status)

metricVars == <<maxSeries, series, timers, observed>>

-----------------------------------------------------------------------------
otherMethod == "_OTHER"
overflowReserve == 4

(* What an operation can end with, and the label classify gives it. *)
Errors == {"nil", "DeadlineExceeded", "Canceled", "other"}

classify(err) ==
    CASE err = "nil" -> "OK"
      [] err = "DeadlineExceeded" -> "deadline_exceeded"
      [] err = "Canceled" -> "canceled"
      [] OTHER -> "error"

Statuses == {classify(e) : e \in Errors}

seriesKey(method, status) == [method |-> method, status |-> status]

(* hist: the last of the Len(Bounds) + 1 counts is the overflow bucket. *)
emptyHist ==
    [count |-> 0, errors |-> 0, sum |-> 0,
     counts |-> [i \in 1 .. Len(Bounds) + 1 |-> 0]]

normalize(method) == IF method \in Allowed THEN method ELSE otherMethod

(* keyFor: a known series is used; a new one is admitted only while the   *)
(* slots held back for the overflow series stay free.                      *)
keyFor(method, status) ==
    LET key == seriesKey(normalize(method), status)
    IN  IF \/ key \in DOMAIN series
           \/ Cardinality(DOMAIN series) < maxSeries - overflowReserve
        THEN key ELSE seriesKey(otherMethod, status)

(* bucketOf: the first bound the duration does not exceed. *)
bucketOf(ms) ==
    Min({i \in 1 .. Len(Bounds) : ms <= Bounds[i]} \cup {Len(Bounds) + 1})

(* A slip: an error is recorded without the request it belongs to. *)
RecordErrorOnly(h, ms, status) ==
    [h EXCEPT !.count = @ + (IF status = "OK" THEN 1 ELSE 0),
              !.sum = @ + ms,
              !.errors = @ + (IF status = "OK" THEN 0 ELSE 1),
              !.counts[bucketOf(ms)] = @ + 1]

record(h, ms, status) ==
    [h EXCEPT !.count = @ + 1,
              !.sum = @ + ms,
              !.errors = @ + (IF status = "OK" THEN 0 ELSE 1),
              !.counts[bucketOf(ms)] = @ + 1]

Observe(method, ms, err) ==
    LET status == classify(err)
        key == keyFor(method, status)
        h == IF key \in DOMAIN series THEN series[key] ELSE emptyHist
    IN  /\ series' = [k \in DOMAIN series \cup {key} |->
                        IF k = key THEN record(h, ms, status) ELSE series[k]]
        /\ observed' = [observed EXCEPT ![<<method, status>>] = @ + 1]

-----------------------------------------------------------------------------
(* The readers: Snapshot, ErrorRate, Quantile and Mean.                    *)

(* Snapshot copies every series; the order it sorts them in is only for    *)
(* the reader.                                                             *)
Snapshot == {[method |-> k.method, status |-> k.status, hist |-> series[k]] : k \in DOMAIN series}

seriesOf(method) == {k \in DOMAIN series : k.method = normalize(method)}

(* ErrorRate, as <<errors, total>>. *)
ErrorRate(method) ==
    <<MapThenSumSet(LAMBDA k : series[k].errors, seriesOf(method)),
      MapThenSumSet(LAMBDA k : series[k].count, seriesOf(method))>>

(* The running counts of a histogram. *)
cumulated(h) ==
    LET cum[i \in 0 .. Len(Bounds) + 1] == IF i = 0 THEN 0 ELSE cum[i - 1] + h.counts[i]
    IN  cum

(* Quantile: the first non-empty bucket whose running count reaches the    *)
(* target, interpolated between its bounds; the overflow bucket has no     *)
(* upper edge and yields the largest bound.  q is in hundredths.           *)
Quantile(h, q) ==
    LET n == Len(Bounds)
        cum == cumulated(h)
        hit == {i \in 1 .. n + 1 : h.counts[i] > 0 /\ 100 * cum[i] >= q * h.count}
        i == Min(hit)
        lower == IF i = 1 THEN 0 ELSE Bounds[i - 1]
    IN  IF h.count = 0 THEN <<0, 1>>
        ELSE IF hit = {} THEN <<Bounds[n], 1>>
        ELSE IF i > n THEN <<lower, 1>>
        ELSE <<100 * h.counts[i] * lower + (q * h.count - 100 * cum[i - 1]) * (Bounds[i] - lower),
               100 * h.counts[i]>>

Mean(h) == IF h.count = 0 THEN <<0, 1>> ELSE <<h.sum, h.count>>

-----------------------------------------------------------------------------
NoTimer == [method |-> "none", elapsed |-> 0]

(* New with WithMaxSeries, which ignores a cap that is not positive. *)
New ==
    /\ maxSeries \in MaxSeriesArgs
    /\ series = <<>>
    /\ timers = [w \in Workers |-> NoTimer]
    /\ observed = [k \in Methods \X Statuses |-> 0]

(* Start: the timer remembers the method and the time; what matters of the *)
(* clock is how much of it has passed since.                               *)
Start(w, method) ==
    /\ timers[w] = NoTimer
    /\ timers' = [timers EXCEPT ![w] = [method |-> method, elapsed |-> 0]]
    /\ UNCHANGED <<maxSeries, series, observed>>

TimePasses ==
    /\ \E w \in Workers : timers[w] # NoTimer
    /\ \A w \in Workers : timers[w].elapsed + Tick <= MaxElapsed
    /\ timers' = [w \in Workers |-> IF timers[w] = NoTimer THEN NoTimer
                                    ELSE [timers[w] EXCEPT !.elapsed = @ + Tick]]
    /\ UNCHANGED <<maxSeries, series, observed>>

observedTotal == MapThenSumSet(LAMBDA k : observed[k], DOMAIN observed)

(* Done: the deferred call reads the named error and records. *)
Done(w, err) ==
    /\ timers[w] # NoTimer
    /\ observedTotal < MaxObserved
    /\ Observe(timers[w].method, timers[w].elapsed, err)
    /\ timers' = [timers EXCEPT ![w] = NoTimer]
    /\ UNCHANGED maxSeries

MetricNext ==
    \/ \E w \in Workers, m \in Methods : Start(w, m)
    \/ TimePasses
    \/ \E w \in Workers, e \in Errors : Done(w, e)

MetricSpec == New /\ [][MetricNext]_metricVars

-----------------------------------------------------------------------------
(* Whatever methods and outcomes arrive, the map never holds more series   *)
(* than the cap it was built with, provided the cap leaves room for the    *)
(* four overflow series; a smaller one is passed, up to those four.        *)
SeriesBounded ==
    Cardinality(DOMAIN series) <= Max({maxSeries, overflowReserve})

neverFolded == Cardinality(DOMAIN series) < maxSeries - overflowReserve

(* Over every reachable histogram a higher quantile is                     *)
(* never estimated below a lower one, no estimate leaves the range of the  *)
(* bounds, and a series that never overflowed has its mean within the last *)
(* bound (Quantile and Mean, metric.go:268 and 296).                       *)
QuantilesOrdered ==
    \A h \in {s.hist : s \in Snapshot} :
        LET top == Bounds[Len(Bounds)]
            atMost(x, y) == x[1] * y[2] <= y[1] * x[2]
        IN  /\ \A qs \in {<<0, 50>>, <<50, 99>>, <<99, 100>>} :
                 atMost(Quantile(h, qs[1]), Quantile(h, qs[2]))
            /\ atMost(Quantile(h, 100), <<top, 1>>)
            /\ h.counts[Len(Bounds) + 1] = 0 => atMost(Mean(h), <<top, 1>>)

(* RequestsAccounted: folding moves a request to another series and never  *)
(* loses one: per status the series hold as many requests as were          *)
(* observed, each in one bucket, within the cap of the map; while no       *)
(* series was folded the error rate of an allowed method counts exactly    *)
(* its own requests; and the estimates read from the buckets are in order  *)
(* (Observe, keyFor, ErrorRate, Quantile, metric.go:124, 150, 242, 268).   *)
RequestsAccounted ==
    /\ SeriesBounded
    /\ \A s \in Statuses :
         MapThenSumSet(LAMBDA k : series[k].count, {k \in DOMAIN series : k.status = s})
           = MapThenSumSet(LAMBDA m : observed[<<m, s>>], Methods)
    /\ \A k \in DOMAIN series :
         /\ cumulated(series[k])[Len(Bounds) + 1] = series[k].count
         /\ series[k].errors = IF k.status = "OK" THEN 0 ELSE series[k].count
    /\ neverFolded => \A m \in Allowed :
         ErrorRate(m) = <<MapThenSumSet(LAMBDA s : observed[<<m, s>>], Statuses \ {"OK"}),
                          MapThenSumSet(LAMBDA s : observed[<<m, s>>], Statuses)>>
    /\ QuantilesOrdered
=============================================================================
