SPECIFICATION Spec
CONSTANTS
    Name <- MCName
    Path <- PathsCut
    Now = 3
    SizeMod = 8
    Workers = {w1, w2}
    Sorters = {s1, s2}
    OutputPrefix <- NoPrefix
    InputSlash <- KillInSlash
    OutputSlash <- KillOutSlash
    Chop <- ChopOne
    InTrees <- KillIn
    OutTrees <- KillOut
    Options <- KillOptions
    Faults = {"kill"}
    CopyKeepsTime = FALSE
    MaxRuns = 2
SYMMETRY Threads
INVARIANTS
    TypeOK
    WorkersDrain
    OneOwner
    EveryFileAccounted
    NewerKept
    MatchedKept
    UnmatchedDeleted
    NoDataLost
    TotalsAgree
    NoSpuriousErrors
    Idempotent
