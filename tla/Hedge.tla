------------------------------- MODULE Hedge --------------------------------
(***************************************************************************)
(* Hedged calls (serve/hedge.go).  Each call h runs fn against replica 0   *)
(* and, when the timer fires or an attempt fails, against the next one; it *)
(* returns the first success it receives.  An attempt is a goroutine that  *)
(* sends its outcome into the buffered channel done; it may hang.          *)
(***************************************************************************)
EXTENDS Integers, Sequences, FiniteSets

CONSTANTS
  Calls,    \* the hedged calls
  Replicas, \* call -> how many replicas it may try
  Delayed   \* delay > 0; otherwise every replica is launched at once

ASSUME HedgeAssumption == Replicas \in [Calls -> Nat] /\ Delayed \in BOOLEAN

Replica(h) == 0..(Replicas[h] - 1)

VARIABLES
  hpc,      \* call -> "off", "select" or "returned"
  launched, \* call -> how many attempts it has launched
  pending,  \* call -> how many outcomes it still waits for
  timer,    \* call -> timerC is a running timer, not nil
  attempt,  \* call -> replica -> "off", "running", "ok" or "err"
  done,     \* call -> the outcomes in the channel, as their replicas
  result,   \* call -> "none", "ok", "err" or "ctx"
  over      \* the calls whose parent context has ended

hedgeVars == <<hpc, launched, pending, timer, attempt, done, result, over>>

HedgeInit ==
  /\ hpc = [h \in Calls |-> "off"]
  /\ launched = [h \in Calls |-> 0]
  /\ pending = [h \in Calls |-> 0]
  /\ timer = [h \in Calls |-> FALSE]
  /\ attempt = [h \in Calls |-> [r \in Replica(h) |-> "off"]]
  /\ done = [h \in Calls |-> <<>>]
  /\ result = [h \in Calls |-> "none"]
  /\ over = {}

\* launch the attempts up to n, and arm the timer for the one after.
Launch(h, n) ==
  /\ launched' = [launched EXCEPT ![h] = n]
  /\ attempt' = [attempt EXCEPT ![h] =
                   [r \in Replica(h) |-> IF r \in launched[h]..(n - 1) THEN "running" ELSE @[r]]]
  /\ timer' = [timer EXCEPT ![h] = Delayed /\ n < Replicas[h]]

\* The call returns: its deferred functions stop the timer and cancel the context
\* of the attempts, whose outcomes nobody reads any more, and its locals are gone.
HedgeReturns(h, what) ==
  /\ hpc' = [hpc EXCEPT ![h] = "returned"]
  /\ result' = [result EXCEPT ![h] = what]
  /\ timer' = [timer EXCEPT ![h] = FALSE]
  /\ done' = [done EXCEPT ![h] = <<>>]
  /\ launched' = [launched EXCEPT ![h] = 0]
  /\ pending' = [pending EXCEPT ![h] = 0]
  /\ attempt' = [attempt EXCEPT ![h] = [r \in Replica(h) |-> "off"]]
  /\ UNCHANGED over

\* The call up to its loop.  Without replicas it is over at once.
StartHedge(h) ==
  /\ hpc[h] = "off"
  /\ IF Replicas[h] = 0 THEN HedgeReturns(h, "ctx")
     ELSE LET n == IF Delayed THEN 1 ELSE Replicas[h] IN
          /\ Launch(h, n)
          /\ pending' = [pending EXCEPT ![h] = n]
          /\ hpc' = [hpc EXCEPT ![h] = "select"]
          /\ UNCHANGED <<done, result, over>>

\* A slip: the loop does not listen to its context.
ContextCaseMissing(h) == FALSE

\* The select picks the ended context.
ContextCase(h) == hpc[h] = "select" /\ h \in over /\ HedgeReturns(h, "ctx")

\* A slip: the timer is not armed again after a backup.
TimerCaseOnce(h) ==
  /\ hpc[h] = "select" /\ timer[h]
  /\ launched' = [launched EXCEPT ![h] = @ + 1]
  /\ attempt' = [attempt EXCEPT ![h][launched[h]] = "running"]
  /\ timer' = [timer EXCEPT ![h] = FALSE]
  /\ pending' = [pending EXCEPT ![h] = @ + 1]
  /\ UNCHANGED <<hpc, done, result, over>>

\* The timer fires: a backup is launched.
TimerCase(h) ==
  /\ hpc[h] = "select" /\ timer[h]
  /\ Launch(h, launched[h] + 1)
  /\ pending' = [pending EXCEPT ![h] = @ + 1]
  /\ UNCHANGED <<hpc, done, result, over>>

\* A slip: a failure launches no other replica.
FailureNoRetry(h) ==
  IF pending[h] = 1 THEN HedgeReturns(h, "err")
  ELSE /\ done' = [done EXCEPT ![h] = Tail(@)]
       /\ pending' = [pending EXCEPT ![h] = @ - 1]
       /\ UNCHANGED <<hpc, launched, timer, attempt, result, over>>

\* An attempt failed.  The next replica is launched, if there is one; otherwise
\* the call ends when nothing is pending.
Failure(h) ==
  IF launched[h] < Replicas[h]
  THEN /\ Launch(h, launched[h] + 1)
       /\ done' = [done EXCEPT ![h] = Tail(@)]
       /\ UNCHANGED <<hpc, pending, result, over>>
  ELSE IF pending[h] = 1 THEN HedgeReturns(h, "err")
  ELSE /\ done' = [done EXCEPT ![h] = Tail(@)]
       /\ pending' = [pending EXCEPT ![h] = @ - 1]
       /\ UNCHANGED <<hpc, launched, timer, attempt, result, over>>

\* An outcome arrives; a success ends the call.
DoneCase(h) ==
  /\ hpc[h] = "select" /\ done[h] # <<>>
  /\ IF attempt[h][Head(done[h])] = "ok" THEN HedgeReturns(h, "ok") ELSE Failure(h)

\* fn returns and its goroutine sends the outcome; the channel has room for all.
\* Attempts that end after the call are left out.
AttemptEnds(h, r) ==
  /\ hpc[h] = "select" /\ attempt[h][r] = "running"
  /\ \E what \in {"ok", "err"} : attempt' = [attempt EXCEPT ![h][r] = what]
  /\ done' = [done EXCEPT ![h] = Append(@, r)]
  /\ UNCHANGED <<hpc, launched, pending, timer, result, over>>

HedgeStep(h) == ContextCase(h) \/ TimerCase(h) \/ DoneCase(h)

-----------------------------------------------------------------------------
HedgeTypeOK ==
  /\ hpc \in [Calls -> {"off", "select", "returned"}]
  /\ launched \in [Calls -> Nat] /\ pending \in [Calls -> Nat]
  /\ timer \in [Calls -> BOOLEAN]
  /\ attempt = [h \in Calls |-> attempt[h]]
  /\ done \in [Calls -> Seq(Nat)]
  /\ \A h \in Calls :
       /\ launched[h] <= Replicas[h] /\ pending[h] <= Replicas[h]
       /\ attempt[h] \in [Replica(h) -> {"off", "running", "ok", "err"}]
       /\ done[h] \in Seq(Replica(h))
  /\ result \in [Calls -> {"none", "ok", "err", "ctx"}]
  /\ over \in SUBSET Calls

Running(h) == {r \in Replica(h) : attempt[h][r] = "running"}

\* While a call waits, pending counts the attempts that still run and the
\* outcomes still in the channel, and it is not zero: the loop ends neither
\* early nor never (hedge.go, "for pending > 0").
PendingIsOutstanding ==
  \A h \in Calls : hpc[h] = "select" =>
    pending[h] > 0 /\ pending[h] = Cardinality(Running(h)) + Len(done[h])

\* A call fails only when every replica has been tried and has failed (hedge.go:
\* "If every attempt fails, it returns the last error").
FailsOnlyWhenAllFail ==
  [][\A h \in Calls : result[h] = "none" /\ result'[h] = "err" =>
        \A r \in Replica(h) : attempt[h][r] = "err"]_hedgeVars

\* A call that waits for good has tried all the replicas, whether or not a
\* deadline ever ends it (hedge.go, the timer re-armed after each backup).
TailIsHedged == <>[](\A h \in Calls : hpc[h] = "select" => launched[h] = Replicas[h])
=============================================================================
