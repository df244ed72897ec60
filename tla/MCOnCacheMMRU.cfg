CONSTANTS
    Thread = {t1, t2}
    k1 = k1
    k2 = k2
    Key = {k1, k2}
    Value = {v1}
    Capacity = 2
    Hash <- MCHash
    NoKey = NoKey
    NoData = NoData
    NoNode = NoNode
    NoThread = NoThread
    Uselessness = 1
    NotLoaded = NotLoaded
    MaxUsed = 4
SYMMETRY Symmetry
SPECIFICATION MMRUSpec
INVARIANT UsedTypeOK
PROPERTY ImplementsMLRU
