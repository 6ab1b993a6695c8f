SPECIFICATION Spec
CONSTANTS
    Name <- MCName
    Path <- PathsFDG
    Now = 3
    SizeMod = 8
    Workers = {w1}
    Sorters = {s1}
    OutputPrefix <- NoPrefix
    InputSlash = {}
    OutputSlash = {}
    Chop <- NoChop
    InTrees <- OnlyInF
    OutTrees <- OnlyEmpty
    Options <- OnlyPlain
    Faults = {"kill"}
    CopyKeepsTime = FALSE
    MaxRuns = 2
INVARIANTS
    SameSizeAfterCopy
