\* Two threads, three components, every failure the code handles.
SPECIFICATION Spec
CONSTANTS
    Threads = {t1, t2}
    NoThread = NoThread
    N = 3
    NeedsUtmp = {3}
    MayFail = {2}
    IgnoreFlags = {TRUE, FALSE}
    AllocFails = TRUE
    AppMutexes = {"utmp"}
    MaxRefs = 3
    UMod = 8
SYMMETRY Symmetry
INVARIANTS TypeOK GlobalExclusion CounterCounts UsableWhileReferenced DownMeansDown Staging
           TlsHoldsAllComponents NoVectorLeaks UtmpExclusive
PROPERTIES ChangeOnlyUnreferenced FailureReported RefCountedSpec
CHECK_DEADLOCK FALSE
