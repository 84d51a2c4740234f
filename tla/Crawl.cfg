SPECIFICATION Spec
CONSTANTS
    Rows <- MCRows
    Quals <- MCQuals
    Nodes <- MCNodes
    Families = {0}
    Times = {1, 2, 3}
    Values = {"x"}
    KeepN = 1
    Collectors = {g1, g2}
    MaxWrites = 3
    FileLines <- MCLines
    MaxLines = 4
    UserAgents <- MCUserAgents
    Paths <- MCPaths
    NumBlocks = 4
    BlockBits = 2
    HammingThreshold = 3
    Fingerprints <- MCFingerprints
    Clusters = {1, 2}
INVARIANTS
    ReadsAreNewest
    LinksSymmetric
    RobotsVerdict
    NearDupExact
PROPERTY
    KeepsPromise
CHECK_DEADLOCK FALSE
