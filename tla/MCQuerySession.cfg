SPECIFICATION Spec
CONSTANTS
    K = 2
    NumDocs = 3
    MaxScore = 8
    FileRank = 2
    Tokens <- MCTokens
    Collections <- MCCollections
    Queries <- MCQueries
    Arguments <- MCArguments
    Undefined <- MCUndefined
INVARIANTS
    TypeOK
    CacheSound
    KthScoreKept
    AnswersTopK
    TimesAveraged
CHECK_DEADLOCK FALSE
