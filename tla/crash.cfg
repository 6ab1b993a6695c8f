SPECIFICATION FairSpec
CONSTANTS
    t1 = t1
    t2 = t2
    p1 = p1
    exe = exe
    dia = dia
    dll = dll
    None = none
    SymCache = TRUE
    Thread <- MCThread
    App = {t1, t2}
    Pool = {p1}
    Module <- MCModule
    Base <- MCBase
    Size <- MCSize
    Frames <- MCFrames
    Registers <- MCRegisters
    Stacks <- MCStacks
    BlockSize = 2
    Start <- MCStart
    MaxNow = 1
    MaxLoads = 1
INVARIANTS
    LogOfOneCrash
    FramesAttributed
    ComPaired
PROPERTIES
    CrashEnds
CHECK_DEADLOCK FALSE
