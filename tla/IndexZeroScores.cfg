\* A scorer may give nothing: the call then leaves out documents of the disjunction.
SPECIFICATION Spec
CONSTANTS
    BlockSize = 2
    MaxWidth = 30
    Samples <- MCSamples
    QueryTerms = {1, 2}
    Scorer <- MCScorer
    TopKs = {0, 1, 2}
    LastDocID = 5
    PostingLists <- MCPostingLists
    ChunkDocs = 2
    NumFields = 2
    Pages <- MCPages
    MaxSegments = 3
    MaxDeletes = 2
    SegmentsPerTier = 2
    MaxMergeAtOnce = 2
    FloorSegmentDocs = 2
    MaxMergedDocs = 2
    DeletesPctAllowed = 50
    Points = {1, 2, 3, 4, 5, 6}
    Distance <- MCDistance
    M = 2
    EfConstruction = 3
    Levels <- MCLevels
INVARIANTS
    WandIsExhaustive
CHECK_DEADLOCK FALSE
