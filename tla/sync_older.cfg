SPECIFICATION Spec
CONSTANTS
    Name <- MCName
    Path <- PathsFDG
    Now = 3
    SizeMod = 8
    Workers = {w1}
    Sorters = {s1}
    OutputPrefix <- NoPrefix
    InputSlash = {}
    OutputSlash = {}
    Chop <- NoChop
    InTrees <- OnlyInFDG
    OutTrees <- OnlyOutOlder
    Options <- OnlyPlain
    Faults = {}
    CopyKeepsTime = FALSE
    MaxRuns = 1
INVARIANTS
    OlderOnlyByOverwrite
