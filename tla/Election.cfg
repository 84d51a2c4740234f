\* Two nodes that start, crash and restart over three leases, one role, one
\* observer of the membership with room for two events.
CONSTANTS
  n1 = n1
  n2 = n2
  watcher = watcher
  Absent = Absent
  Nodes = {n1, n2}
  Values = {n1, n2}
  Roles = {"placement"}
  Shards = {}
  MaxLeases = 3
  Watchers = {watcher}
  WatchPrefix <- MCWatchPrefix
  BufCap = 2
  CautiousCallers = TRUE
SPECIFICATION FairSpec
INVARIANTS
  SendIsSafe
  QueueIsCurrent
  LiveLeaderHoldsKey
  RegisteredIsMember
  HeldByLiveLease
PROPERTIES
  DeadLeaderYields
