SPECIFICATION Spec
CONSTANTS
    Thread = {t1, t2, t3}
    Key = {k1, k2}
    NULL = NULL
    NoKey = NoKey
    HistoryItems = 1
    MaxCalls = 1
CHECK_DEADLOCK FALSE
INVARIANTS OneHandler OperationsTracked ItemsExact ValueReady
PROPERTIES ImplementsHistory TestersEnd
