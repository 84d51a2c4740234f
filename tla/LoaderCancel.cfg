\* As Loader.cfg; does a caller see another caller's cancellation?
CONSTANTS
  CacheKeys = {k1, k2, k3}
  Pages = {k1, k2, k3}
  PageOf <- MCPageOf
  Capacity = 2
  Nothing = Nothing
  NoFlight = NoFlight
  Callers = {c1, c2}
SPECIFICATION Spec
INVARIANT OnlyOwnCancellation
