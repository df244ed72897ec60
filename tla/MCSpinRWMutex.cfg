SPECIFICATION Spec
CONSTANTS
    Thread = {t1, t2, t3}
INVARIANT IInv
PROPERTIES ImplementsLock UpgradeEnds SomeoneGetsIn AnnouncedGetsIn
