SPECIFICATION FairSpec
CONSTANTS
    Threads = {t1, t2}
    NoThread = NoThread
    N = 2
    NeedsUtmp = {2}
    MayFail = {2}
    IgnoreFlags = {TRUE}
    AllocFails = FALSE
    AppMutexes = {"utmp"}
    MaxRefs = 2
    UMod = 8
PROPERTIES LockReleased TeardownCompletes UtmpReentrant
CHECK_DEADLOCK FALSE
