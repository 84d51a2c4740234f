\* As ControlPlane.cfg; what the comments say of a fleet with nothing queued.
CONSTANTS
  n1 = n1
  n2 = n2
  c1 = c1
  c2 = c2
  r1 = r1
  Absent = Absent
  NL = NL
  Nodes = {n1, n2}
  PlacedNodes = {n1, n2}
  Values <- MCValues
  Roles = {}
  Shards = {0}
  PlacedShards = {0}
  Replicas = 2
  Weight <- MCWeight
  IdRank <- MCIdRank
  MaxLeases = 2
  Controllers = {c1}
  Routers = {r1}
  Watchers = {c1, r1}
  WatchPrefix <- MCWatchPrefix
  BufCap = 2
  CautiousCallers = TRUE
  StrictHandover = TRUE
  Stoppable = {r1}
SPECIFICATION ControlSpec
INVARIANT QuietFleetIsCurrent
CHECK_DEADLOCK FALSE
