SPECIFICATION BmwSpec
CONSTANTS
    BlockSize = 2
    MaxSize = 100
    K = 1
    F = 1
    NumDocs = 4
    Tokens = 3
    MaxImpact = 2
    MinPostings = 2
    Contrast = TRUE
    MaxBeyond <- MCNegative
    RepBeyond = {0, 2, 9}
    Query <- MCQuery
    Indexes <- MCBeyondIndexes
    Seeds <- MCBeyondSeeds
INVARIANT RankSafe
