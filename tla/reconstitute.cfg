SPECIFICATION Spec
CONSTANTS
    Path <- MCPath
    Targets <- MCTargets
    Sources <- MCSources
    MaxSources = 2
    Faults = {"scan", "call"}
INVARIANTS
    OthersKept
    LinkTargetsKept
    ReplacedInOrder
    OneHoleAtMost
