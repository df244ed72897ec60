CONSTANTS
    Main = main
    Inserters = {i1, i2}
    Finders = {f1}
    Thread = {main, i1, i2, f1}
    k1 = k1
    k2 = k2
    k3 = k3
    v1 = v1
    Key = {k1, k2, k3}
    Value = {v1}
    Capacity = 1
    Hash <- MCHash
    TestData <- MCTestData
    Count = 3
    NoKey = NoKey
    NoData = NoData
    NoNode = NoNode
    NoThread = NoThread
SPECIFICATION TestSpec
INVARIANTS GateExact DestroyedAtRest
PROPERTY RoundEnds
CHECK_DEADLOCK FALSE
