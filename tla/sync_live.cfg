SPECIFICATION FairSpec
CONSTANTS
    Name <- MCName
    Path <- PathsFDGH
    Now = 3
    SizeMod = 8
    Workers = {w1, w2}
    Sorters = {s1, s2}
    OutputPrefix <- PrefixO
    InputSlash = {}
    OutputSlash = {}
    Chop <- NoChop
    InTrees <- LiveIn
    OutTrees <- LiveOut
    Options <- LiveOptions
    Faults = {"kill", "copy"}
    CopyKeepsTime = TRUE
    MaxRuns = 2
PROPERTIES
    Termination
