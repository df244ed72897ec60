SPECIFICATION Spec
CONSTANTS
    Thread = {t1, t2, t3}
    Key = {k1, k2, k3}
    Node = {1, 2, 3, 4, 5, 6}
    MaxSize = 1
    m_head = Head
    m_tail = Tail
    OutOfListMarker = OutOfListMarker
    NullNode = NullNode
    NoKey = NoKey
    NoThread = NoThread
SYMMETRY Symmetry
ACTION_CONSTRAINT LowestFree
CHECK_DEADLOCK FALSE
INVARIANTS IInv ElementsTracked OverfillBounded EvictionFinds NotUnderfilled
PROPERTIES StaysFull ImplementsLRU
