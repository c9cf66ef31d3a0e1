SPECIFICATION FileSpec
CONSTANTS
    BlockSize = 32
    Slack = 4
    ByteSizes = {5, 18, 160}
    PostingsLists <- MCLists
    Collections <- MCCollections
INVARIANTS
    RoomSuffices
    BlocksIntact
    DecodesBlock
    DictionaryFindsList
PROPERTY
    LoadingEnds
CHECK_DEADLOCK FALSE
