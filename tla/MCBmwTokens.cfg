SPECIFICATION BmwSpec
CONSTANTS
    BlockSize = 2
    MaxSize = 100
    K = 1
    F = 1
    NumDocs = 3
    Tokens = 3
    MaxImpact = 2
    MinPostings = 2
    Contrast = FALSE
    MaxBeyond = {0, 3}
    RepBeyond = {0, 2, 9}
    Query <- MCQuery
    Indexes <- MCIndexes
    Seeds <- MCSeeds
INVARIANTS
    TypeOK
    ListsSorted
    NothingLost
    BlockBoundSafe
PROPERTIES
    ImplementsTopK
