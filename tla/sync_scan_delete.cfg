SPECIFICATION Spec
CONSTANTS
    Name <- MCName
    Path <- PathsFDG
    Now = 3
    SizeMod = 8
    Workers = {w1}
    Sorters = {s1}
    OutputPrefix <- PrefixO
    InputSlash = {}
    OutputSlash = {}
    Chop <- NoChop
    InTrees <- OnlyInFDG
    OutTrees <- OnlyOutSame
    Options <- OnlyDelete
    Faults = {"scan"}
    CopyKeepsTime = FALSE
    MaxRuns = 1
INVARIANTS
    DeletesOnlyUnmatched
