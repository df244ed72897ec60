CONSTANTS
    Node = {0, 1, 2, 3}
    Key = {1, 2, 3, 4, 5}
    Capacity = 4
    Hash <- SharedFirst
    NoKey = NoKey
    Null = Null
SPECIFICATION SMRUSpec
INVARIANT PathCurrent
