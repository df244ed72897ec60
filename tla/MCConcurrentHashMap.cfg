SPECIFICATION Spec
CONSTANTS
    Thread = {t1, t2}
    k1 = k1
    k2 = k2
    k3 = k3
    Key = {k1, k2, k3}
    Node = {1, 2, 3, 4, 5}
    Nil = Nil
    Hash <- MCHash
    FirstBlock = 2
    Bits = 3
    MaxCalls = 2
INVARIANTS AssertionsHold ItemsPlaced OneItemPerKey ItemsAlive
SYMMETRY MCSymmetry
PROPERTY ImplementsMap
