SPECIFICATION StrongSpec
CONSTANTS
    Threads = {t1, t2}
    NoThread = NoThread
    N = 2
    NeedsUtmp = {2}
    MayFail = {2}
    IgnoreFlags = {FALSE}
    AllocFails = FALSE
    AppMutexes = {}
    MaxRefs = 2
    UMod = 8
PROPERTY InitReturns
CHECK_DEADLOCK FALSE
