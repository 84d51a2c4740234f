\* Leadership moves back and forth between two controllers; a successor waits for
\* its predecessor's Run to return.
CONSTANTS
  n1 = n1
  n2 = n2
  c1 = c1
  c2 = c2
  r1 = r1
  Absent = Absent
  NL = NL
  Nodes = {n1, n2}
  PlacedNodes = {n1, n2}
  Values <- MCValues
  Roles = {}
  Shards = {0, 1}
  PlacedShards = {0, 1}
  Replicas = 2
  Weight <- MCWeight
  IdRank <- MCIdRank
  MaxLeases = 2
  Controllers = {c1, c2}
  Routers = {}
  Watchers = {c1, c2}
  WatchPrefix <- MCWatchPrefix
  BufCap = 1
  CautiousCallers = TRUE
  StrictHandover = TRUE
  Stoppable = {c1, c2}
SPECIFICATION ControlSpec
INVARIANTS
  WaitingMeansDone
CHECK_DEADLOCK FALSE
