SPECIFICATION Spec
CONSTANTS
    Thread = {t1, t2}
    Key = {k1, k2, k3}
    Node = {1, 2, 3, 4, 5}
    MaxSize = 1
    m_head = Head
    m_tail = Tail
    OutOfListMarker = OutOfListMarker
    NullNode = NullNode
    NoKey = NoKey
    NoThread = NoThread
SYMMETRY Symmetry
ACTION_CONSTRAINT LowestFree
CHECK_DEADLOCK FALSE
INVARIANT NeverWaitsForItself
