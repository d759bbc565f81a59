SPECIFICATION Spec
CONSTANTS
    s1 = s1
    s2 = s2
    NoJob = NoJob
    Sarcos <- OneSarco
    Times <- TwoTimes
    Grace = 2
    SubgraphLags = FALSE
    MaxTime = 6
    Skew = 1
    Buffer = 1
    SoonDelay = 1
    Faults <- NoFaults
    ThirdPartyDecoded = TRUE
    Calm = TRUE
    Refetch = FALSE
    PageSize = 2
    MaxResets = 0
    MaxCrashes = 0
    MaxPending = 2
INVARIANT
    InactiveUnscheduled
