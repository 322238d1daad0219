SPECIFICATION StrongSpec
CONSTANTS
    Threads = {t1, t2}
    NoThread = NoThread
    N = 2
    NeedsUtmp = {2}
    MayFail = {}
    IgnoreFlags = {TRUE}
    AllocFails = FALSE
    AppMutexes = {"statgrab"}
    MaxRefs = 2
    UMod = 8
PROPERTY StatgrabMutexCanBeTaken
CHECK_DEADLOCK FALSE
