\* Two operations that come again and again, two keys; k1 may be held while k2 is asked for.
CONSTANTS
    Thread = {t1, t2}
    k1 = k1
    k2 = k2
    Key = {k1, k2}
    NoThread = NoThread
    NoKey = NoKey
    Nesting <- MCNesting
SPECIFICATION FairSpec
INVARIANTS
    UnlockFindsOwnMutex
PROPERTIES
    ImplementsKeyedLock
    EveryLockReturns
