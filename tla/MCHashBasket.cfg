CONSTANTS
    Node = {n1, n2, n3, n4, n5}
    Key = {1, 2, 3, 4, 5, 6}
    Capacity = 1
    Hash <- MCHash
    NoKey = NoKey
    Null = Null
SYMMETRY Symmetry
SPECIFICATION Spec
INVARIANTS ListsExact FindsFilled
PROPERTY ImplementsSets
