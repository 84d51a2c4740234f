\* As Frontier.cfg; the order of hosts that are ready at the same time.
CONSTANTS
  URLs = {"a1", "a2", "a3", "b1", "c1"}
  Hosts = {"a", "b", "c"}
  HostOf <- MCHostOf
  PriorityOf <- MCPriorityOf
  FingerprintOf <- MCFingerprintOf
  Factor = 2
  MinGap = 1
  MaxGap = 2
  Durations = {0, 3}
  CrawlDelays = {3}
  MaxNow = 1
SPECIFICATION Spec
PROPERTY SameReadinessByPriority
