SPECIFICATION Spec
CONSTANTS
    BlockSize = 2
    MaxSize = 100
    K = 2
    F = 1
    NumDocs = 3
    Tokens = 3
    MaxImpact = 2
    MinPostings = 2
    Contrast = FALSE
    Query <- MCQuery
    Indexes <- MCIndexes
    Seeds <- MCSeeds
INVARIANTS
    NothingLost
PROPERTIES
    ImplementsTopK
    PivotMonotone
    EveryTurnAdvances
    Termination
