SPECIFICATION Spec
CONSTANTS
    Methods = {"Search", "Probe"}
    Allowed = {"Search"}
    Bounds <- MCBounds
    MaxSeriesArgs = {2, 5}
    Workers = {w1}
    Tick = 2
    MaxElapsed = 2
    MaxObserved = 5
    Procs = {edge, leaf}
    MaxSpans = 3
    MaxCalls = 1
    HealthNodes = {n1}
    Latencies = {40, 150, 1000}
    AlphaNum = 1
    AlphaDen = 5
    Scale = 1
    EnterMillis = 200
    LeaveMillis = 120
    MinStay = 3
    MaxRecovery = 12
    Shapes <- MCShapes
    Rerankings <- MCRerankings
    Drafts <- MCDrafts
    MarkerNumber <- MCMarkers
    Stopwords = {}
    MaxNavigationalWords = 2
    PerSource = 1
    Ceiling = 4
    Threshold = 50
    MinConfidence = 60
    Operators = {"first", "peer", "stranger"}
    Heedful = {"first"}
    Hits <- MCHits
    MinReputation = 1
    Reputations = {0, 1}
    FedK = 2
INVARIANTS
    RequestsAccounted
    SampledTraceWhole
    AnswerGrounded
    FederatedPage
PROPERTY
    ProbationIsSteady
CHECK_DEADLOCK FALSE
