CONSTANTS
    Thread = {t1, t2}
    k1 = k1
    k2 = k2
    k3 = k3
    Key = {k1, k2, k3}
    Value = {v1, v2}
    Capacity = 2
    Hash <- MCHash
    NoKey = NoKey
    NoData = NoData
    NoNode = NoNode
    NoThread = NoThread
SYMMETRY Symmetry
SPECIFICATION Spec
INVARIANTS IInv OneHolder EvictedIsLinked GetsOwnKey PoolIdBounded
PROPERTY ImplementsMap
