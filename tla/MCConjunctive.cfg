SPECIFICATION Spec
CONSTANTS
    K = 2
    NumDocs = 3
    MaxScore = 8
    FileRank = 2
    Tokens <- MCTokens
    Collections <- MCCollections
    Queries <- MCQueries
    Arguments <- MCArguments
    Undefined <- MCUndefined
INVARIANT ConjunctiveAnswered
CHECK_DEADLOCK FALSE
