SPECIFICATION FairSpec
CONSTANTS
    in = in
    a = a
    sub = sub
    deep = deep
    b = b
    f = f
    x = x
    docs = docs
    NoNode = NoNode
    NoNumber = NoNumber
    Node <- MCNode
    Inside <- MCInside
    Disks <- MCDisks
    Argv <- MCArgv
    NFiles = 3
    Sizes = {0, 1}
    Times <- MCTimes
    Minute = 108
    Second = 36
    Milli = 12
    Micro = 4
INVARIANTS
    ParsedAsMeant
    RemovesOnlyNamed
    RemovedOrReported
    SearchComplete
    FinalReport
    TimeExact
PROPERTIES
    MainEnds
