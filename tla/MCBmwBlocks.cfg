SPECIFICATION BmwSpec
CONSTANTS
    BlockSize = 2
    MaxSize = 100
    K = 1
    F = 1
    NumDocs = 5
    Tokens = 2
    MaxImpact = 2
    MinPostings = 3
    Contrast = TRUE
    MaxBeyond = {0, 3}
    RepBeyond = {0, 2, 9}
    Query <- MCQuery
    Indexes <- MCIndexes
    Seeds <- MCSeeds
INVARIANTS
    PointersFollowPivot
PROPERTIES
    ImplementsTopK
    EveryTurnAdvances
    Termination
