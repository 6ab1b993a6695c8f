SPECIFICATION FairSpec
CONSTANTS
    Value = {a, b}
    NoValue = none
    Thread = {t1, t2, t3}
    MaxLen = 1
INVARIANTS
    Mutex
    PopStable
PROPERTIES
    Linearizable
    LockReleased
