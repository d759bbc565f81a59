SPECIFICATION Spec
CONSTANTS
    s1 = s1
    s2 = s2
    NoJob = NoJob
    Sarcos <- OneSarco
    Times <- TwoTimes
    Grace = 1
    SubgraphLags = TRUE
    MaxTime = 3
    Skew <- ClockBehind
    Buffer = 1
    SoonDelay = 1
    Faults <- AllFaults
    ThirdPartyDecoded = TRUE
    Calm = FALSE
    Refetch = FALSE
    PageSize = 2
    MaxResets = 1
    MaxCrashes = 0
    MaxPending = 2
INVARIANTS
    DeadIsFinal
PROPERTY
    RefinesScheduler
CHECK_DEADLOCK FALSE
