------------------------------- MODULE Health -------------------------------
(***************************************************************************)
(* The latency-induced probation of control/health.go: a moving average    *)
(* per node and a state that switches with hysteresis.                     *)
(*                                                                         *)
(* The average is kept in Scale parts of a millisecond and rounded down    *)
(* where the code has a float64; Alpha is AlphaNum / AlphaDen.             *)
(***************************************************************************)
EXTENDS Integers, FiniteSets

CONSTANTS
    HealthNodes, Latencies,       \* nodes, and the latencies samples may have (ms)
    AlphaNum, AlphaDen, Scale,    \* the weight of the newest sample; parts per ms
    EnterMillis, LeaveMillis,     \* the two thresholds
    MinStay, MaxRecovery          \* the two promises, in samples

ASSUME HealthAssumption ==
    /\ Latencies \subseteq Nat
    /\ AlphaNum \in 1 .. AlphaDen /\ Scale \in Nat \ {0}
    /\ LeaveMillis \in 1 .. EnterMillis

VARIABLES
    ewma,    \* HealthTracker.ewma; -1 for a node that was not seen
    health,  \* HealthTracker.state; a node not seen is Healthy
    inState, \* history: samples since the state last changed
    fastRun  \* history: the run of samples at the lowest latency, up to now

healthVars == <<ewma, health, inState, fastRun>>

MaxHistory == 20 \* bound: where the two histories stop counting

NewHealthTracker ==
    /\ ewma = [n \in HealthNodes |-> -1]
    /\ health = [n \in HealthNodes |-> "Healthy"]
    /\ inState = [n \in HealthNodes |-> 0]
    /\ fastRun = [n \in HealthNodes |-> 0]

smoothed(cur, latency) ==
    IF cur = -1 THEN latency * Scale
    ELSE (AlphaNum * latency * Scale + (AlphaDen - AlphaNum) * cur) \div AlphaDen

(* A slip: one threshold for both directions. *)
JudgeNoGap(st, cur) ==
    IF cur > EnterMillis * Scale THEN "Probation" ELSE "Healthy"

judge(st, cur) ==
    CASE st = "Healthy" /\ cur > EnterMillis * Scale -> "Probation"
      [] st = "Probation" /\ cur < LeaveMillis * Scale -> "Healthy"
      [] OTHER -> st

capped(k) == IF k < MaxHistory THEN k + 1 ELSE k

isFast(latency) == \A l \in Latencies : latency <= l

ObserveLatency(n, latency) ==
    LET cur == smoothed(ewma[n], latency)
        st == judge(health[n], cur)
    IN  /\ ewma' = [ewma EXCEPT ![n] = cur]
        /\ health' = [health EXCEPT ![n] = st]
        /\ inState' = [inState EXCEPT ![n] = IF st = health[n] THEN capped(@) ELSE 0]
        /\ fastRun' = [fastRun EXCEPT ![n] = IF isFast(latency) THEN capped(@) ELSE 0]

InFanout(n) == health[n] # "Probation"

HealthNext == \E n \in HealthNodes, l \in Latencies : ObserveLatency(n, l)

-----------------------------------------------------------------------------
(* ProbationIsSteady: a node does not flap back: whatever it answers, it   *)
(* is out of the fan-out for at least MinStay samples after it was put on  *)
(* probation; and it is not kept out either: after MaxRecovery samples at  *)
(* its best latency it is back, however slow it had been.                  *)
(* (Observe, health.go:64, with shadow requests going on meanwhile).       *)
ProbationIsSteady ==
    /\ [][\A n \in HealthNodes :
            ~InFanout(n) /\ InFanout(n)' => inState[n] + 1 >= MinStay]_healthVars
    /\ [](\A n \in HealthNodes : fastRun[n] >= MaxRecovery => InFanout(n))
=============================================================================
