\* Three queries, room for two pages, two callers that come back with others.
CONSTANTS
  CacheKeys = {k1, k2, k3}
  Pages = {k1, k2, k3}
  PageOf <- MCPageOf
  Capacity = 2
  Nothing = Nothing
  NoFlight = NoFlight
  Callers = {c1, c2}
SPECIFICATION Spec
INVARIANTS
  CacheConsistent
  RightPage
  NobodyForgotten
PROPERTIES
  HotKeyStays
  EndedContextReturns
