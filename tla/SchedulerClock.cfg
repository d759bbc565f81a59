SPECIFICATION Spec
CONSTANTS
    s1 = s1
    s2 = s2
    c1 = c1
    NoJob = NoJob
    Sarcos <- MCSarcos
    Contexts <- MCContexts
    Times <- MCTimes
    Skew = 4
    Buffer = 2
    SoonDelay = 2
    BlockLag = 1
    TimestampFallback = TRUE
    MaxTime = 8
INVARIANT
    NeverBeforeResurrection
