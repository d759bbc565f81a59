SPECIFICATION FairSpec
CONSTANTS
    s1 = s1
    s2 = s2
    NoJob = NoJob
    Sarcos <- TwoSarcos
    Times <- TwoTimes
    Grace = 2
    SubgraphLags = FALSE
    MaxTime = 6
    Skew = 1
    Buffer = 1
    SoonDelay = 1
    Faults <- NoFaults
    ThirdPartyDecoded = TRUE
    Calm = TRUE
    Refetch = TRUE
    PageSize = 2
    MaxResets = 0
    MaxCrashes = 1
    MaxPending = 2
INVARIANTS
    TypeOK
    ScheduleTracksChain
    CompromisedIsCancelled
    NoKeyOverdue
PROPERTIES
    PublicationsSettle
    EveryKeyPublished
