\* Three children, two at a time, with three, two and two replicas; two of the
\* three must answer.  Three replicas are the least with which the timer is
\* armed a second time.
CONSTANTS
  N = 3
  Calls = {1, 2, 3}
  Replicas <- MCReplicas
  Delayed = TRUE
  MaxConcurrent = 2
  HasTimeout = TRUE
  MinPercent = 60
  K = 2
  Ranked <- MCRanked
  Score <- MCScore
SPECIFICATION Spec
INVARIANTS
  PageIsTopK
PROPERTIES
  FailsOnlyWhenAllFail
  TailIsHedged
  DeadlinesEndQuery
