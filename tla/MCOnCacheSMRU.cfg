CONSTANTS
    Node = {0, 1, 2, 3}
    Key = {1, 2, 3, 4, 5, 6, 7}
    Capacity = 4
    Hash <- SharedLast
    NoKey = NoKey
    Null = Null
SPECIFICATION SMRUSpec
INVARIANTS ListsExactAtRest PathCurrent
PROPERTY OnlyNextIsLost
