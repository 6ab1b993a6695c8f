SPECIFICATION FairSpec
CONSTANTS
    t1 = t1
    t2 = t2
    t3 = t3
    o1 = o1
    o2 = o2
    Thread <- MCThread
    Obj = {o1, o2}
    Classes = {"String", "Vector", "Deque", "ts_deque", "ThreadSafeVar"}
    Null = null
    MaxLen = 0
    VarMod = 3
    MaxRank = 1
    Can <- MCCan
INVARIANTS
    Exclusive
    TestedStaysTrue
    DeadlockNeedsCycle
PROPERTIES
    CallsReturn
CHECK_DEADLOCK FALSE
