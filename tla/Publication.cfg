SPECIFICATION FairSpec
CONSTANTS
    s1 = s1
    s2 = s2
    Sarcos <- OneSarco
    LookupTries = 2
    MAX_RETRIES = 2
    Faults <- AllFaults
    MaxResets = 1
    MaxRuns = 2
INVARIANTS
    TypeOK
    WrittenOffIsPublished
    TransactionsBounded
PROPERTIES
    EveryRunEnds
    RunsWindDown
    RefinesPublishRun
CHECK_DEADLOCK FALSE
