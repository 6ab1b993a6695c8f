SPECIFICATION Spec
CONSTANTS
    Name <- MCName
    Path <- PathsFDG
    Now = 3
    SizeMod = 8
    Workers = {w1, w2}
    Sorters = {s1, s2}
    OutputPrefix <- NoPrefix
    InputSlash = {}
    OutputSlash = {}
    Chop <- NoChop
    InTrees <- FaultIn
    OutTrees <- FaultOut
    Options <- FaultOptions
    Faults = {"scan", "stat", "mkdir", "copy", "remove"}
    CopyKeepsTime = TRUE
    MaxRuns = 1
SYMMETRY Threads
INVARIANTS
    Conservation
    EveryFileAccounted
    MatchedKept
    NoDataLost
    TornAccounted
